-------------------------- MODULE RateLimiterProof --------------------------
(***************************************************************************)
(* For any keys, limits, windows, waits for the mutex and number of        *)
(* requests in flight: the types of RateLimiter, that the periodic cleanup *)
(* never changes an answer, and how much a key gets through in one window. *)
(***************************************************************************)
EXTENDS RateLimiter, TLAPS

-----------------------------------------------------------------------------
(* The inductive invariant *)

\* The entry was not cleaned up, or was when its window was over for long: then
\* the limiter that keeps it forever starts a new window too.
SameOrOver == \A l \in Limiters, k \in Keys :
  \/ map[l][k] = full[l][k]
  \/ map[l][k] = NoEntry /\ full[l][k].age = 2 * WindowTicks[l]

\* The entry e of a key and the ages a of its admissions: the request that
\* opened the window was admitted when the window began or at most Skew later,
\* and of the admissions before the window all but max_requests - 1 are long ago.
Windowed(l, e, a) ==
  /\ \A i, j \in Ranks(l) : i <= j => a[i] <= a[j]
  /\ e.count >= 1 => a[e.count] + Skew >= IF e.age < WindowTicks[l] THEN e.age ELSE WindowTicks[l]
  /\ a[e.count + MaxRequests[l]] + Skew >= WindowTicks[l]

AllWindowed == \A l \in Limiters, k \in Keys : Windowed(l, full[l][k], recent[l][k])

-----------------------------------------------------------------------------
LEMMA Numbers ==
  ASSUME NEW l \in Limiters
  PROVE  /\ MaxRequests[l] \in Nat /\ 1 <= MaxRequests[l]
         /\ WindowTicks[l] \in Nat /\ Skew \in Nat /\ Skew < WindowTicks[l]
  BY LimitsAssumption, SkewAssumption

LEMMA PathMember ==
  ASSUME NEW q
  PROVE  q \in Paths <=> q # <<>> /\ \E d \in Kinds : q = Path[d] \/ q = Tail(Path[d])
  BY DEF Paths

\* A request in flight is at a limiter; behind it there is another one, or none.
LEMMA PathShape ==
  ASSUME NEW q \in Paths
  PROVE  Head(q) \in Limiters /\ (Tail(q) = <<>> \/ Tail(q) \in Paths)
  <1>1. PICK d \in Kinds : q = Path[d] \/ q = Tail(Path[d])
    BY PathMember
  <1>2. q # <<>>
    BY PathMember
  <1>3. CASE d # "large"
    <2>1. d \in {"relay", "blob", "mid"} /\ Path[d] = <<d>>
      BY <1>3, KindsAssumption DEF Path
    <2>2. q = <<d>>
      BY <1>1, <1>2, <2>1
    <2>3. d \in Limiters
      BY <2>1 DEF Limiters, Range
    <2>. QED
      BY <2>2, <2>3
  <1>4. CASE d = "large"
    <2>1. Path[d] = <<"large", "mid">>
      BY <1>4 DEF Path
    <2>2. "large" \in Limiters /\ "mid" \in Limiters
      BY <2>1 DEF Limiters, Range
    <2>3. CASE q = <<"large", "mid">>
      <3>1. Tail(q) = <<"mid">> /\ Head(q) = "large" /\ Tail(q) # <<>>
        BY <2>3
      <3>2. Tail(q) \in Paths
        BY <2>1, <2>3, <3>1, PathMember
      <3>. QED
        BY <2>2, <3>1, <3>2
    <2>4. CASE q = <<"mid">>
      BY <2>2, <2>4
    <2>. QED
      BY <1>1, <2>1, <2>3, <2>4
  <1>. QED
    BY <1>3, <1>4

\* The fields of a request in flight.
LEMMA RequestShape ==
  ASSUME TypeOK, NEW r \in Requests, req[r] # Idle
  PROVE  /\ req[r] \in [key : Keys, path : Paths, wait : 0..Skew]
         /\ req[r].key \in Keys /\ req[r].path \in Paths /\ req[r].wait \in 0..Skew
  BY DEF TypeOK, Request

LEMMA EntryShape ==
  ASSUME TypeOK, NEW l \in Limiters, NEW k \in Keys
  PROVE  /\ map[l][k] \in Entry(l) /\ full[l][k] \in Entry(l)
         /\ recent[l][k] \in Ages(l)
  BY DEF TypeOK

\* What is_allowed, cleanup and a tick make of an entry is an entry.
LEMMA EntryChanged ==
  ASSUME NEW l \in Limiters, NEW e \in Entry(l), NEW w \in 0..Skew
  PROVE  /\ Counted(l, e, w) \in Entry(l) /\ Cleaned(l, e) \in Entry(l)
         /\ Older(l, e) \in Entry(l) /\ Entry(l) \subseteq [age : Nat, count : Nat]
  <1> USE Numbers
  <1>1. e.age \in 0..(2 * WindowTicks[l]) /\ e.count \in 0..MaxRequests[l]
    BY DEF Entry
  <1>2. Counted(l, e, w) \in Entry(l)
    <2>1. [age |-> w, count |-> 1] \in Entry(l)
      BY DEF Entry
    <2>2. e.count < MaxRequests[l] => [e EXCEPT !.count = @ + 1] \in Entry(l)
      BY <1>1 DEF Entry
    <2>. QED
      BY <2>1, <2>2 DEF Counted, Allowed
  <1>3. Cleaned(l, e) \in Entry(l)
    BY DEF Cleaned, NoEntry, Entry
  <1>4. Older(l, e) \in Entry(l)
    BY <1>1 DEF Older, Entry
  <1>5. Entry(l) \subseteq [age : Nat, count : Nat]
    BY DEF Entry
  <1>. QED
    BY <1>2, <1>3, <1>4, <1>5

\* What an admission and a tick make of the ages are ages.
LEMMA AgesChanged ==
  ASSUME NEW l \in Limiters, NEW a \in Ages(l)
  PROVE  Pushed(l, a) \in Ages(l) /\ Aged(l, a) \in Ages(l)
  <1> USE Numbers
  <1>1. \A n \in Ranks(l) : a[n] \in 0..WindowTicks[l] /\ n \in Nat /\ 1 <= n
    BY DEF Ages, Ranks
  <1>2. \A n \in Ranks(l) : n # 1 => n - 1 \in Ranks(l)
    BY DEF Ranks
  <1>3. \A n \in Ranks(l) : (IF n = 1 THEN 0 ELSE a[n - 1]) \in 0..WindowTicks[l]
    BY <1>1, <1>2
  <1>4. \A n \in Ranks(l) :
          (IF a[n] < WindowTicks[l] THEN a[n] + 1 ELSE a[n]) \in 0..WindowTicks[l]
    BY <1>1
  <1>. QED
    BY <1>3, <1>4 DEF Pushed, Aged, Ages

-----------------------------------------------------------------------------
\* What a request does to the entry of its key.
LEMMA Checked ==
  ASSUME TypeOK, NEW r \in Requests, Check(r)
  PROVE  \E l \in Limiters, k \in Keys, w \in 0..Skew :
           /\ map' = [map EXCEPT ![l] = [map[l] EXCEPT ![k] = Counted(l, map[l][k], w)]]
           /\ full' = [full EXCEPT ![l] = [full[l] EXCEPT ![k] = Counted(l, full[l][k], w)]]
           /\ recent' = IF Allowed(l, map[l][k])
                        THEN [recent EXCEPT ![l] = [recent[l] EXCEPT ![k] = Pushed(l, recent[l][k])]]
                        ELSE recent
           /\ req' \in [Requests -> Request]
  <1> DEFINE k    == req[r].key
             l    == Head(req[r].path)
             rest == Tail(req[r].path)
             w    == req[r].wait
             ok   == Allowed(l, map[l][k])
  <1>1. req[r] # Idle
    BY DEF Check
  <1>2. k \in Keys /\ w \in 0..Skew /\ l \in Limiters /\ (rest = <<>> \/ rest \in Paths)
    BY <1>1, RequestShape, PathShape
  <1>3. /\ map' = [map EXCEPT ![l] = [map[l] EXCEPT ![k] = Counted(l, map[l][k], w)]]
        /\ full' = [full EXCEPT ![l] = [full[l] EXCEPT ![k] = Counted(l, full[l][k], w)]]
    BY DEF Check
  <1>4. recent' = IF Allowed(l, map[l][k])
                  THEN [recent EXCEPT ![l] = [recent[l] EXCEPT ![k] = Pushed(l, recent[l][k])]]
                  ELSE recent
    BY DEF Check
  <1>5. req' \in [Requests -> Request]
    <2>1. \/ req' = [req EXCEPT ![r] = Idle]
          \/ req' = [req EXCEPT ![r] = [req[r] EXCEPT !.path = rest, !.wait = 0]] /\ rest # <<>>
      BY DEF Check
    <2>2. ASSUME rest # <<>> PROVE [req[r] EXCEPT !.path = rest, !.wait = 0] \in Request
      <3>1. rest \in Paths /\ 0 \in 0..Skew
        BY <1>2, <2>2, SkewAssumption
      <3>2. req[r] \in [key : Keys, path : Paths, wait : 0..Skew]
        BY <1>1, RequestShape
      <3>. HIDE DEF rest
      <3>. QED
        BY <3>1, <3>2 DEF Request
    <2>. HIDE DEF rest
    <2>. QED
      BY <2>1, <2>2 DEF TypeOK, Request
  <1>. HIDE DEF k, l, w
  <1>. QED
    BY <1>2, <1>3, <1>4, <1>5

\* TypeOK, one entry at a time.
LEMMA TypeByEntry ==
  ASSUME map' \in [Limiters -> [Keys -> [age : Nat, count : Nat]]],
         full' \in [Limiters -> [Keys -> [age : Nat, count : Nat]]],
         recent' = [l \in Limiters |-> [k \in Keys |-> recent'[l][k]]],
         \A l \in Limiters, k \in Keys : /\ map'[l][k] \in Entry(l) /\ full'[l][k] \in Entry(l)
                                         /\ recent'[l][k] \in Ages(l),
         req' \in [Requests -> Request]
  PROVE  TypeOK'
  BY DEF TypeOK

LEMMA TypeNext ==
  ASSUME TypeOK, [Next]_vars
  PROVE  TypeOK'
  <1> USE EntryShape
  <1> DEFINE Entries == [Limiters -> [Keys -> [age : Nat, count : Nat]]]
  <1>0. /\ map \in Entries /\ full \in Entries /\ req \in [Requests -> Request]
        /\ recent = [l \in Limiters |-> [k \in Keys |-> recent[l][k]]]
    BY DEF TypeOK
  <1>1. ASSUME NEW r \in Requests, NEW k \in Keys, NEW d \in Kinds, Arrive(r, k, d) PROVE TypeOK'
    <2>1. Path[d] \in Paths
      <3>1. Path[d] # <<>>
        BY KindsAssumption DEF Path
      <3>. QED
        BY <3>1, PathMember
    <2>2. [key |-> k, path |-> Path[d], wait |-> 0] \in Request
      BY <2>1, SkewAssumption DEF Request
    <2>3. req' \in [Requests -> Request]
      BY <1>0, <1>1, <2>2 DEF Arrive
    <2>. QED
      BY <1>1, <2>3 DEF Arrive, TypeOK
  <1>2. ASSUME NEW r \in Requests, Check(r) PROVE TypeOK'
    <2>1. PICK l \in Limiters, k \in Keys, w \in 0..Skew :
           /\ map' = [map EXCEPT ![l] = [map[l] EXCEPT ![k] = Counted(l, map[l][k], w)]]
           /\ full' = [full EXCEPT ![l] = [full[l] EXCEPT ![k] = Counted(l, full[l][k], w)]]
           /\ recent' = IF Allowed(l, map[l][k])
                        THEN [recent EXCEPT ![l] = [recent[l] EXCEPT ![k] = Pushed(l, recent[l][k])]]
                        ELSE recent
           /\ req' \in [Requests -> Request]
      BY <1>2, Checked
    <2>2. /\ Counted(l, map[l][k], w) \in Entry(l) /\ Counted(l, full[l][k], w) \in Entry(l)
          /\ Entry(l) \subseteq [age : Nat, count : Nat]
      BY EntryChanged
    <2>3. map' \in Entries /\ full' \in Entries
      BY <1>0, <2>1, <2>2
    <2>4. \A m \in Limiters, j \in Keys : map'[m][j] \in Entry(m) /\ full'[m][j] \in Entry(m)
      BY <1>0, <2>1, <2>2
    <2>5. Pushed(l, recent[l][k]) \in Ages(l)
      BY AgesChanged
    <2>6. /\ recent' = [m \in Limiters |-> [j \in Keys |-> recent'[m][j]]]
          /\ \A m \in Limiters, j \in Keys : recent'[m][j] \in Ages(m)
      <3>1. CASE recent' = recent
        BY <1>0, <3>1
      <3>2. CASE recent' # recent
        <4> DEFINE new == Pushed(l, recent[l][k])
        <4>1. recent' = [recent EXCEPT ![l] = [recent[l] EXCEPT ![k] = new]] /\ new \in Ages(l)
          BY <2>1, <2>5, <3>2
        <4>. HIDE DEF new
        <4>2. DOMAIN recent = Limiters /\ \A m \in Limiters : recent[m] = [j \in Keys |-> recent[m][j]]
          BY <1>0
        <4>3. \A m \in Limiters, j \in Keys :
                recent'[m][j] = IF m = l /\ j = k THEN new ELSE recent[m][j]
          BY <4>1, <4>2
        <4>4. recent' = [m \in Limiters |-> [j \in Keys |-> recent'[m][j]]]
          BY <4>1, <4>2
        <4>. QED
          BY <4>1, <4>3, <4>4
      <3>. QED
        BY <3>1, <3>2
    <2>. QED
      BY <2>1, <2>3, <2>4, <2>6, TypeByEntry
  <1>3. ASSUME CleanupAll PROVE TypeOK'
    <2>1. /\ map' = [l \in Limiters |-> [k \in Keys |-> Cleaned(l, map[l][k])]]
          /\ UNCHANGED <<req, full, recent>>
      BY <1>3 DEF CleanupAll
    <2>2. \A l \in Limiters, k \in Keys : /\ Cleaned(l, map[l][k]) \in Entry(l)
                                          /\ Entry(l) \subseteq [age : Nat, count : Nat]
      BY EntryChanged, SkewAssumption
    <2>3. map' \in Entries /\ \A l \in Limiters, k \in Keys : map'[l][k] \in Entry(l)
      BY <2>1, <2>2
    <2>. QED
      BY <1>0, <2>1, <2>3, TypeByEntry
  <1>4. ASSUME Tick PROVE TypeOK'
    <2>1. /\ map' = [l \in Limiters |-> [k \in Keys |-> Older(l, map[l][k])]]
          /\ full' = [l \in Limiters |-> [k \in Keys |-> Older(l, full[l][k])]]
          /\ recent' = [l \in Limiters |-> [k \in Keys |-> Aged(l, recent[l][k])]]
      BY <1>4 DEF Tick
    <2>2. \A l \in Limiters, k \in Keys :
            /\ Older(l, map[l][k]) \in Entry(l) /\ Older(l, full[l][k]) \in Entry(l)
            /\ Entry(l) \subseteq [age : Nat, count : Nat]
      BY EntryChanged, SkewAssumption
    <2>3. /\ map' \in Entries /\ full' \in Entries
          /\ \A l \in Limiters, k \in Keys : map'[l][k] \in Entry(l) /\ full'[l][k] \in Entry(l)
      BY <2>1, <2>2
    <2>4. \A l \in Limiters, k \in Keys : recent'[l][k] \in Ages(l)
      BY <2>1, AgesChanged
    <2>5. recent' = [l \in Limiters |-> [k \in Keys |-> recent'[l][k]]]
      BY <2>1
    <2>6. ASSUME NEW r \in Requests
          PROVE  (IF req[r] = Idle THEN Idle ELSE [req[r] EXCEPT !.wait = @ + 1]) \in Request
      <3>1. CASE req[r] = Idle
        BY <3>1 DEF Request
      <3>2. CASE req[r] # Idle
        <4>1. req[r].wait + 1 \in 0..Skew
          BY <1>4, <3>2, RequestShape, SkewAssumption DEF Tick
        <4>2. [req[r] EXCEPT !.wait = @ + 1] \in [key : Keys, path : Paths, wait : 0..Skew]
          BY <3>2, <4>1, RequestShape
        <4>. QED
          BY <3>2, <4>2 DEF Request
      <3>. QED
        BY <3>1, <3>2
    <2>7. req' \in [Requests -> Request]
      BY <1>4, <2>6 DEF Tick
    <2>. QED
      BY <2>3, <2>4, <2>5, <2>7, TypeByEntry
  <1>5. CASE UNCHANGED vars
    BY <1>5 DEF vars, TypeOK
  <1>. QED
    BY <1>1, <1>2, <1>3, <1>4, <1>5 DEF Next

\* Where the two maps differ both start a new window, and from then on agree.
LEMMA SameNext ==
  ASSUME TypeOK, SameOrOver, [Next]_vars
  PROVE  SameOrOver'
  <1> DEFINE Alike(l, m, f) == m = f \/ (m = NoEntry /\ f.age = 2 * WindowTicks[l])
  <1>0. /\ map \in [Limiters -> [Keys -> [age : Nat, count : Nat]]]
        /\ full \in [Limiters -> [Keys -> [age : Nat, count : Nat]]]
    BY DEF TypeOK
  <1>1. SUFFICES \A l \in Limiters, k \in Keys : Alike(l, map'[l][k], full'[l][k])
    BY DEF SameOrOver
  <1>2. \A l \in Limiters, k \in Keys : Alike(l, map[l][k], full[l][k])
    BY DEF SameOrOver
  <1>3. ASSUME NEW l \in Limiters, NEW m \in Entry(l), NEW f \in Entry(l), NEW w, Alike(l, m, f)
        PROVE  /\ Alike(l, Counted(l, m, w), Counted(l, f, w))
               /\ Alike(l, Cleaned(l, m), f)
               /\ Alike(l, Older(l, m), Older(l, f))
    <2>1. /\ NoEntry.count = 0 /\ NoEntry.age = 0 /\ 2 * WindowTicks[l] >= WindowTicks[l]
          /\ WindowTicks[l] \in Nat /\ WindowTicks[l] > 0
          /\ f.age \in 0..(2 * WindowTicks[l]) /\ m.age \in 0..(2 * WindowTicks[l])
      BY Numbers DEF NoEntry, Entry
    <2>2. Alike(l, Counted(l, m, w), Counted(l, f, w))
      BY <1>3, <2>1 DEF Counted, Over
    <2>3. Alike(l, Cleaned(l, m), f)
      BY <1>3, <2>1 DEF Cleaned
    <2>4. Alike(l, Older(l, m), Older(l, f))
      BY <1>3, <2>1 DEF Older
    <2>. QED
      BY <2>2, <2>3, <2>4
  <1>4. \A l \in Limiters, k \in Keys : map[l][k] \in Entry(l) /\ full[l][k] \in Entry(l)
    BY EntryShape
  <1>. HIDE DEF Alike
  <1>5. ASSUME NEW r \in Requests, Check(r)
        PROVE  \A l \in Limiters, k \in Keys : Alike(l, map'[l][k], full'[l][k])
    <2>1. PICK l \in Limiters, k \in Keys, w \in 0..Skew :
           /\ map' = [map EXCEPT ![l] = [map[l] EXCEPT ![k] = Counted(l, map[l][k], w)]]
           /\ full' = [full EXCEPT ![l] = [full[l] EXCEPT ![k] = Counted(l, full[l][k], w)]]
      BY <1>5, Checked
    <2>2. /\ map'[l][k] = Counted(l, map[l][k], w) /\ full'[l][k] = Counted(l, full[l][k], w)
          /\ \A m \in Limiters, j \in Keys : m # l \/ j # k =>
               map'[m][j] = map[m][j] /\ full'[m][j] = full[m][j]
      BY <1>0, <2>1
    <2>3. Alike(l, map'[l][k], full'[l][k])
      BY <1>2, <1>3, <1>4, <2>2
    <2>. QED
      BY <1>2, <2>2, <2>3
  <1>6. ASSUME CleanupAll PROVE \A l \in Limiters, k \in Keys : Alike(l, map'[l][k], full'[l][k])
    BY <1>2, <1>3, <1>4, <1>6 DEF CleanupAll
  <1>7. ASSUME Tick PROVE \A l \in Limiters, k \in Keys : Alike(l, map'[l][k], full'[l][k])
    BY <1>2, <1>3, <1>4, <1>7 DEF Tick
  <1>8. ASSUME UNCHANGED <<map, full>>
        PROVE  \A l \in Limiters, k \in Keys : Alike(l, map'[l][k], full'[l][k])
    BY <1>2, <1>8
  <1>. QED
    BY <1>5, <1>6, <1>7, <1>8 DEF Next, Arrive, vars

-----------------------------------------------------------------------------
LEMMA WindowedChanged ==
  ASSUME NEW l \in Limiters, NEW e \in Entry(l), NEW a \in Ages(l), NEW w \in 0..Skew,
         Windowed(l, e, a)
  PROVE  /\ Allowed(l, e) => Windowed(l, Counted(l, e, w), Pushed(l, a))
         /\ ~Allowed(l, e) => Windowed(l, Counted(l, e, w), a)
         /\ Windowed(l, Older(l, e), Aged(l, a))
  <1> DEFINE M == MaxRequests[l]
             T == WindowTicks[l]
             c == e.count
             b == Pushed(l, a)
             d == Aged(l, a)
  <1>1. /\ M \in Nat /\ 1 <= M /\ T \in Nat /\ Skew \in Nat /\ Skew < T
        /\ c \in 0..M /\ e.age \in 0..(2 * T)
    BY Numbers DEF Entry
  <1>2. Ranks(l) = 1..(2 * M)
    BY DEF Ranks
  <1>3. \A n \in 1..(2 * M) : a[n] \in 0..T
    BY <1>2 DEF Ages
  <1>4. /\ \A i, j \in 1..(2 * M) : i <= j => a[i] <= a[j]
        /\ c >= 1 => a[c] + Skew >= IF e.age < T THEN e.age ELSE T
        /\ a[c + M] + Skew >= T
    BY <1>2 DEF Windowed
  <1>5. /\ b[1] = 0 /\ \A n \in 1..(2 * M) : n # 1 => b[n] = a[n - 1]
        /\ \A n \in 1..(2 * M) : d[n] = IF a[n] < T THEN a[n] + 1 ELSE a[n]
    BY <1>1, <1>2 DEF Pushed, Aged
  <1>. HIDE DEF M, T, b, d, c
  <1>6. \A i, j \in 1..(2 * M) : i <= j => b[i] <= b[j]
    <2>1. SUFFICES ASSUME NEW i \in 1..(2 * M), NEW j \in 1..(2 * M), i <= j PROVE b[i] <= b[j]
      OBVIOUS
    <2>2. CASE i = 1 /\ j = 1
      BY <1>5, <2>2
    <2>3. CASE i = 1 /\ j # 1
      <3>1. j - 1 \in 1..(2 * M)
        BY <1>1, <2>3
      <3>. QED
        BY <1>3, <1>5, <2>3, <3>1
    <2>4. CASE i # 1
      <3>1. i - 1 \in 1..(2 * M) /\ j - 1 \in 1..(2 * M) /\ i - 1 <= j - 1 /\ j # 1
        BY <1>1, <2>1, <2>4
      <3>. QED
        BY <1>4, <1>5, <2>4, <3>1
    <2>. QED
      BY <2>2, <2>3, <2>4
  <1>7. ASSUME Over(l, e) PROVE Windowed(l, Counted(l, e, w), b)
    <2>1. Counted(l, e, w) = [age |-> w, count |-> 1]
      BY <1>7 DEF Counted
    <2>2. M \in 1..(2 * M) /\ 1 + M \in 1..(2 * M) /\ 1 + M # 1 /\ (1 + M) - 1 = M
      BY <1>1
    <2>3. b[1 + M] = a[M] /\ a[M] \in 0..T
      BY <1>3, <1>5, <2>2
    <2>4. a[M] + Skew >= T
      <3>1. CASE c = 0
        BY <1>1, <1>4, <3>1
      <3>2. CASE c # 0
        <4>1. e.age >= T
          BY <1>7, <3>2 DEF Over, T, c
        <4>2. c \in 1..(2 * M) /\ c <= M /\ c >= 1
          BY <1>1, <3>2
        <4>3. a[c] + Skew >= T /\ a[c] <= a[M] /\ a[c] \in 0..T
          BY <1>1, <1>3, <1>4, <2>2, <4>1, <4>2
        <4>. QED
          BY <1>1, <2>3, <4>3
      <3>. QED
        BY <3>1, <3>2
    <2>5. b[1] + Skew >= IF w < T THEN w ELSE T
      BY <1>1, <1>5
    <2>. QED
      BY <1>2, <1>6, <2>1, <2>3, <2>4, <2>5 DEF Windowed, M, T
  <1>8. ASSUME ~Over(l, e), Allowed(l, e) PROVE Windowed(l, Counted(l, e, w), b)
    <2>1. c < M /\ c >= 1
      BY <1>1, <1>8 DEF Over, Allowed, M, c
    <2>2. Counted(l, e, w).count = c + 1 /\ Counted(l, e, w).age = e.age
      BY <1>8 DEF Counted, Entry, c
    <2>3. /\ c + 1 \in 1..(2 * M) /\ c + 1 # 1 /\ (c + 1) - 1 = c
          /\ (c + 1) + M \in 1..(2 * M) /\ (c + 1) + M # 1 /\ ((c + 1) + M) - 1 = c + M
      BY <1>1, <2>1
    <2>4. b[c + 1] = a[c] /\ b[(c + 1) + M] = a[c + M]
      BY <1>5, <2>3
    <2>5. c + 1 >= 1
      BY <1>1
    <2>. QED
      BY <1>2, <1>4, <1>6, <2>1, <2>2, <2>4, <2>5 DEF Windowed, M, T
  <1>9. ASSUME ~Allowed(l, e) PROVE Windowed(l, Counted(l, e, w), a)
    <2>1. Counted(l, e, w) = e
      BY <1>9 DEF Counted, Allowed
    <2>. QED
      BY <2>1
  <1>10. Windowed(l, Older(l, e), d)
    <2>1. \A i, j \in 1..(2 * M) : i <= j => d[i] <= d[j]
      BY <1>1, <1>3, <1>4, <1>5
    <2>2. /\ Older(l, e).count = c
          /\ Older(l, e).age = IF c > 0 /\ e.age < 2 * T THEN e.age + 1 ELSE e.age
      BY DEF Older, Entry, c, T
    <2>3. c + M \in 1..(2 * M) /\ (c >= 1 => c \in 1..(2 * M))
      BY <1>1
    <2>4. d[c + M] + Skew >= T
      BY <1>1, <1>3, <1>4, <1>5, <2>3
    <2>5. ASSUME c >= 1
          PROVE  d[c] + Skew >= IF Older(l, e).age < T THEN Older(l, e).age ELSE T
      <3>1. /\ d[c] = (IF a[c] < T THEN a[c] + 1 ELSE a[c]) /\ a[c] \in 0..T
            /\ a[c] + Skew >= IF e.age < T THEN e.age ELSE T
        BY <1>3, <1>4, <1>5, <2>3, <2>5
      <3>. QED
        BY <1>1, <2>2, <3>1
    <2>. QED
      BY <1>2, <2>1, <2>2, <2>4, <2>5 DEF Windowed, M, T
  <1>. QED
    BY <1>7, <1>8, <1>9, <1>10 DEF b, d

\* Where the two maps differ they still answer alike.
LEMMA SameAnswers ==
  ASSUME TypeOK, SameOrOver
  PROVE  CleanupTransparent
  <1>1. SUFFICES ASSUME NEW l \in Limiters, NEW k \in Keys
                 PROVE  Allowed(l, map[l][k]) <=> Allowed(l, full[l][k])
    BY DEF CleanupTransparent
  <1>2. CASE map[l][k] = full[l][k]
    BY <1>2
  <1>3. CASE map[l][k] = NoEntry /\ full[l][k].age = 2 * WindowTicks[l]
    BY <1>3, Numbers DEF Allowed, Over, NoEntry
  <1>. QED
    BY <1>2, <1>3 DEF SameOrOver

LEMMA WindowedNext ==
  ASSUME TypeOK, SameOrOver, AllWindowed, [Next]_vars
  PROVE  AllWindowed'
  <1>0. /\ full \in [Limiters -> [Keys -> [age : Nat, count : Nat]]]
        /\ recent = [l \in Limiters |-> [k \in Keys |-> recent[l][k]]]
    BY DEF TypeOK
  <1>1. SUFFICES \A l \in Limiters, k \in Keys : Windowed(l, full'[l][k], recent'[l][k])
    BY DEF AllWindowed, Windowed
  <1>2. \A l \in Limiters, k \in Keys :
          /\ Windowed(l, full[l][k], recent[l][k])
          /\ full[l][k] \in Entry(l) /\ recent[l][k] \in Ages(l)
          /\ Allowed(l, map[l][k]) <=> Allowed(l, full[l][k])
    BY EntryShape, SameAnswers DEF AllWindowed, CleanupTransparent
  <1>3. ASSUME NEW r \in Requests, Check(r)
        PROVE  \A l \in Limiters, k \in Keys : Windowed(l, full'[l][k], recent'[l][k])
    <2>1. PICK l \in Limiters, k \in Keys, w \in 0..Skew :
           /\ full' = [full EXCEPT ![l] = [full[l] EXCEPT ![k] = Counted(l, full[l][k], w)]]
           /\ recent' = IF Allowed(l, map[l][k])
                        THEN [recent EXCEPT ![l] = [recent[l] EXCEPT ![k] = Pushed(l, recent[l][k])]]
                        ELSE recent
      BY <1>3, Checked
    <2>2. /\ full'[l][k] = Counted(l, full[l][k], w)
          /\ \A m \in Limiters, j \in Keys : m # l \/ j # k => full'[m][j] = full[m][j]
      BY <1>0, <2>1
    <2>3. DOMAIN recent = Limiters /\ \A m \in Limiters : recent[m] = [j \in Keys |-> recent[m][j]]
      BY <1>0
    <2>4. /\ recent'[l][k] = IF Allowed(l, full[l][k]) THEN Pushed(l, recent[l][k]) ELSE recent[l][k]
          /\ \A m \in Limiters, j \in Keys : m # l \/ j # k => recent'[m][j] = recent[m][j]
      BY <1>2, <2>1, <2>3
    <2>5. Windowed(l, full'[l][k], recent'[l][k])
      BY <1>2, <2>2, <2>4, WindowedChanged
    <2>. QED
      BY <1>2, <2>2, <2>4, <2>5
  <1>4. ASSUME Tick
        PROVE  \A l \in Limiters, k \in Keys : Windowed(l, full'[l][k], recent'[l][k])
    <2>1. \A l \in Limiters, k \in Keys : /\ full'[l][k] = Older(l, full[l][k])
                                          /\ recent'[l][k] = Aged(l, recent[l][k])
      BY <1>4 DEF Tick
    <2>2. 0 \in 0..Skew
      BY SkewAssumption
    <2>. QED
      BY <1>2, <2>1, <2>2, WindowedChanged
  <1>5. ASSUME UNCHANGED <<full, recent>>
        PROVE  \A l \in Limiters, k \in Keys : Windowed(l, full'[l][k], recent'[l][k])
    BY <1>2, <1>5
  <1>. QED
    BY <1>3, <1>4, <1>5 DEF Next, Arrive, CleanupAll, vars

-----------------------------------------------------------------------------
LEMMA Invariance == Spec => [](TypeOK /\ SameOrOver /\ AllWindowed)
  <1>1. Init => TypeOK /\ SameOrOver /\ AllWindowed
    <2>1. SUFFICES ASSUME Init PROVE TypeOK /\ SameOrOver /\ AllWindowed
      OBVIOUS
    <2>2. /\ map = [l \in Limiters |-> [k \in Keys |-> NoEntry]] /\ full = map
          /\ recent = [l \in Limiters |-> [k \in Keys |-> [n \in Ranks(l) |-> WindowTicks[l]]]]
          /\ req \in [Requests -> Request]
      BY <2>1 DEF Init, Request
    <2>3. ASSUME NEW l \in Limiters
          PROVE  /\ NoEntry \in Entry(l) /\ [n \in Ranks(l) |-> WindowTicks[l]] \in Ages(l)
                 /\ Windowed(l, NoEntry, [n \in Ranks(l) |-> WindowTicks[l]])
      <3>1. NoEntry \in Entry(l)
        BY Numbers DEF NoEntry, Entry
      <3>2. [n \in Ranks(l) |-> WindowTicks[l]] \in Ages(l)
        BY Numbers DEF Ages
      <3>3. 0 + MaxRequests[l] \in Ranks(l)
        BY Numbers DEF Ranks
      <3>4. Windowed(l, NoEntry, [n \in Ranks(l) |-> WindowTicks[l]])
        BY <3>3, Numbers DEF Windowed, NoEntry
      <3>. QED
        BY <3>1, <3>2, <3>4
    <2>4. {map, full} \subseteq [Limiters -> [Keys -> [age : Nat, count : Nat]]]
      BY <2>2 DEF NoEntry
    <2>5. \A l \in Limiters, k \in Keys : /\ {map[l][k], full[l][k]} \subseteq Entry(l)
                                          /\ recent[l][k] \in Ages(l)
      BY <2>2, <2>3
    <2>6. recent = [l \in Limiters |-> [k \in Keys |-> recent[l][k]]]
      BY <2>2
    <2>7. AllWindowed
      BY <2>2, <2>3 DEF AllWindowed
    <2>. QED
      BY <2>2, <2>4, <2>5, <2>6, <2>7 DEF TypeOK, SameOrOver
  <1>2. TypeOK /\ SameOrOver /\ AllWindowed /\ [Next]_vars => TypeOK' /\ SameOrOver' /\ AllWindowed'
    BY TypeNext, SameNext, WindowedNext
  <1>. QED
    BY <1>1, <1>2, PTL DEF Spec

\* The entries of the limiters, the requests that wait for the mutex and the
\* histories keep their types: is_allowed never counts beyond max_requests.
THEOREM TypeCorrect == Spec => []TypeOK
  BY Invariance, PTL

\* KeyRateLimiter::cleanup, whenever it runs between requests, changes no answer
\* of is_allowed.
THEOREM CleanupUnnoticed == Spec => []CleanupTransparent
  <1>1. TypeOK /\ SameOrOver => CleanupTransparent
    BY SameAnswers
  <1>. QED
    BY <1>1, Invariance, PTL

\* is_allowed, with its clock read before the mutex and with the periodic
\* cleanup, admits fewer than 2 * max_requests requests of a key in any span of
\* one window less the wait for the mutex.
THEOREM SpanBounded == Spec => []SpanBound
  <1>1. TypeOK /\ AllWindowed => SpanBound
    <2>1. SUFFICES ASSUME TypeOK, AllWindowed, NEW l \in Limiters, NEW k \in Keys
                   PROVE  recent[l][k][2 * MaxRequests[l]] >= WindowTicks[l] - Skew
      BY DEF SpanBound
    <2> DEFINE M == MaxRequests[l]
               a == recent[l][k]
               c == full[l][k].count
    <2>2. TypeOK
      BY <2>1
    <2>3. a \in Ages(l) /\ c \in 0..M
      BY <2>2, EntryShape DEF Entry
    <2>4. M \in Nat /\ 1 <= M /\ WindowTicks[l] \in Nat /\ Skew \in Nat
      BY Numbers
    <2>5. a[c + M] + Skew >= WindowTicks[l] /\ \A i, j \in Ranks(l) : i <= j => a[i] <= a[j]
      BY <2>1 DEF AllWindowed, Windowed
    <2>6. \A n \in Ranks(l) : a[n] \in 0..WindowTicks[l]
      BY <2>3 DEF Ages
    <2>. HIDE DEF a, c, M
    <2>7. c + M \in Ranks(l) /\ 2 * M \in Ranks(l) /\ c + M <= 2 * M
      BY <2>3, <2>4 DEF Ranks, M
    <2>8. a[2 * M] >= a[c + M] /\ a[2 * M] \in Nat /\ a[c + M] \in Nat
      BY <2>4, <2>5, <2>6, <2>7
    <2>. QED
      BY <2>4, <2>5, <2>8 DEF a, M
  <1>. QED
    BY <1>1, Invariance, PTL
=============================================================================
