---------------------------- MODULE SocketsProof ----------------------------
(***************************************************************************)
(* For any number of users, devices, sockets and transfers: the types of   *)
(* Sockets, and that without panics no entry of the connection map and no  *)
(* registered transfer is left without a task that will remove it.         *)
(*                                                                         *)
(* The invariant is inductive as it stands.  What takes an argument is     *)
(* that register always finds a channel name that is not in use.           *)
(***************************************************************************)
EXTENDS Sockets, FiniteSetTheorems, FunctionTheorems, TLAPS

\* The fields of a task that has registered.
LEMMA TaskShape ==
  ASSUME TypeOK, NEW s \in Sockets
  PROVE  /\ sock[s] \in Task
         /\ sock[s].pc \in {"free", "auth", "loop", "left", "relay"}
         /\ sock[s].pc # "free" => sock[s].user \in Users
         /\ sock[s].pc = "auth" => sock[s] = [pc |-> "auth", user |-> sock[s].user]
         /\ sock[s].pc \in {"loop", "left", "relay"} =>
              /\ sock[s].chan \in Channels
              /\ sock[s].pending \in 0..Capacity
              /\ sock[s] = [pc |-> sock[s].pc, user |-> sock[s].user,
                            chan |-> sock[s].chan, pending |-> sock[s].pending]
  BY DEF TypeOK, Task, Free

\* A registered task remains one when its position or its queue changes.
LEMMA TaskChanged ==
  ASSUME TypeOK, NEW s \in Sockets, sock[s].pc \in {"loop", "left", "relay"}
  PROVE  /\ \A l \in {"left", "relay"} : [sock[s] EXCEPT !.pc = l] \in Task
         /\ \A n \in 0..Capacity : [sock[s] EXCEPT !.pending = n] \in Task
         /\ sock[s].pending \in 0..Capacity
  <1> DEFINE Registered == [pc : {"loop", "left", "relay"}, user : Users,
                            chan : Channels, pending : 0..Capacity]
  <1>1. sock[s] \in Registered
    BY DEF TypeOK, Task, Free
  <1>2. /\ \A l \in {"left", "relay"} : [sock[s] EXCEPT !.pc = l] \in Registered
        /\ \A n \in 0..Capacity : [sock[s] EXCEPT !.pending = n] \in Registered
        /\ sock[s].pending \in 0..Capacity
    BY <1>1
  <1>. QED
    BY <1>2 DEF Task

\* Pigeonhole: a user without an entry and a socket that has not registered
\* leave one of the names of channels over.
LEMMA FreshChannel ==
  ASSUME TypeOK, NEW u \in Users, conns[u] = 0, NEW s \in Sockets, sock[s].pc = "auth"
  PROVE  \E c \in Channels : c \notin InUse
  <1> DEFINE U == Users \ {u}
             Q == {x \in Sockets : sock[x].pc \notin {"free", "auth"}}
             A == {conns[v] : v \in U}
             B == {sock[x].chan : x \in Q}
  <1>1. /\ IsFiniteSet(U) /\ Cardinality(U) = Cardinality(Users) - 1
        /\ Cardinality(Users) \in Nat
    BY FiniteAssumption, FS_RemoveElement, FS_CardinalityType
  <1>2. /\ IsFiniteSet(Q) /\ Cardinality(Q) <= Cardinality(Sockets) - 1
        /\ Cardinality(Sockets) \in Nat /\ Cardinality(Q) \in Nat
    <2>1. /\ IsFiniteSet(Sockets \ {s})
          /\ Cardinality(Sockets \ {s}) = Cardinality(Sockets) - 1
      BY FiniteAssumption, FS_RemoveElement
    <2>2. Q \in SUBSET (Sockets \ {s})
      OBVIOUS
    <2>3. IsFiniteSet(Q) /\ Cardinality(Q) <= Cardinality(Sockets \ {s})
      BY <2>1, <2>2, FS_Subset
    <2>. QED
      BY <2>1, <2>3, FiniteAssumption, FS_CardinalityType
  <1>3. IsFiniteSet(A) /\ Cardinality(A) <= Cardinality(U)
    <2> DEFINE f == [v \in U |-> conns[v]]
    <2>1. f \in Surjection(U, A)
      BY DEF Surjection
    <2>. QED
      BY <1>1, <2>1, FS_Surjection
  <1>4. IsFiniteSet(B) /\ Cardinality(B) <= Cardinality(Q)
    <2> DEFINE f == [x \in Q |-> sock[x].chan]
    <2>1. f \in Surjection(Q, B)
      BY DEF Surjection
    <2>. QED
      BY <1>2, <2>1, FS_Surjection
  <1>5. IsFiniteSet(A \cup B) /\ Cardinality(A \cup B) <= Cardinality(A) + Cardinality(B)
    <2>1. /\ IsFiniteSet(A \cup B)
          /\ Cardinality(A \cup B) = Cardinality(A) + Cardinality(B) - Cardinality(A \cap B)
      BY <1>3, <1>4, FS_Union
    <2>2. IsFiniteSet(A \cap B)
      BY <1>3, FS_Subset
    <2>3. Cardinality(A \cap B) \in Nat /\ Cardinality(A) \in Nat /\ Cardinality(B) \in Nat
      BY <2>2, <1>3, <1>4, FS_CardinalityType
    <2>. QED
      BY <2>1, <2>3
  <1>6. Cardinality(A \cup B) < Cardinality(Channels)
    <2> DEFINE n == Cardinality(Sockets) + Cardinality(Users)
    <2>1. Cardinality(1..n) = IF 1 > n THEN 0 ELSE n - 1 + 1
      <3>1. n \in Int /\ 1 \in Int
        BY <1>1, <1>2
      <3>. HIDE DEF n
      <3>. QED
        BY <3>1, FS_Interval
    <2>2. Cardinality(A) \in Nat /\ Cardinality(B) \in Nat /\ Cardinality(A \cup B) \in Nat
      BY <1>3, <1>4, <1>5, FS_CardinalityType
    <2>3. Cardinality(U) \in Nat
      BY <1>1, FS_CardinalityType
    <2>. QED
      BY <1>1, <1>2, <1>3, <1>4, <1>5, <2>1, <2>2, <2>3 DEF Channels
  <1>7. SUFFICES ASSUME Channels \subseteq InUse PROVE FALSE
    OBVIOUS
  <1>8. Channels \in SUBSET (A \cup B)
    <2>1. InUse \subseteq A \cup B \cup {0}
      BY DEF InUse
    <2>2. 0 \notin Channels
      BY <1>1, <1>2 DEF Channels
    <2>. QED
      BY <1>7, <2>1, <2>2
  <1>. QED
    <2>1. Cardinality(Channels) <= Cardinality(A \cup B)
      BY <1>5, <1>8, FS_Subset
    <2>2. Cardinality(Channels) \in Nat /\ Cardinality(A \cup B) \in Nat
      <3>1. IsFiniteSet(Channels)
        BY <1>5, <1>8, FS_Subset
      <3>. QED
        BY <3>1, <1>5, FS_CardinalityType
    <2>. QED
      BY <2>1, <2>2, <1>6


\* Every step keeps the types, one case per action that changes more than it
\* leaves alone.
LEMMA TypeNext ==
  ASSUME TypeOK, [Next]_vars
  PROVE  TypeOK'
  <1> USE FaultAssumption, CapacityAssumption
  <1>1. ASSUME NEW s \in Sockets, NEW u \in Users, Authenticate(s, u) PROVE TypeOK'
    BY <1>1 DEF Authenticate, TypeOK, Task
  <1>2. ASSUME NEW s \in Sockets, Register(s) PROVE TypeOK'
    <2> DEFINE u == sock[s].user
    <2>1. u \in Users
      BY <1>2, TaskShape DEF Register
    <2>2. ChannelFor(u) \in Channels
      <3>1. CASE conns[u] # 0
        BY <3>1, <2>1 DEF ChannelFor, TypeOK
      <3>2. CASE conns[u] = 0
        <4>1. \E c \in Channels : c \notin InUse
          BY <1>2, <3>2, <2>1, FreshChannel DEF Register
        <4>. QED
          BY <3>2, <4>1 DEF ChannelFor
      <3>. QED
        BY <3>1, <3>2
    <2>3. [pc |-> "loop", user |-> u, chan |-> ChannelFor(u), pending |-> 0] \in Task
      BY <2>1, <2>2 DEF Task
    <2>. QED
      BY <1>2, <2>1, <2>2, <2>3 DEF Register, TypeOK
  <1>3. ASSUME NEW s \in Sockets, Deliver(s) PROVE TypeOK'
    <2>1. sock[s].pending - 1 \in 0..Capacity
      <3>1. sock[s].pending \in 0..Capacity /\ sock[s].pending > 0
        BY <1>3, TaskChanged DEF Deliver
      <3>. QED
        BY <3>1
    <2>2. [sock[s] EXCEPT !.pending = @ - 1] \in Task
      BY <1>3, <2>1, TaskChanged DEF Deliver
    <2>. QED
      BY <1>3, <2>2 DEF Deliver, TypeOK
  <1>4. ASSUME NEW s \in Sockets, Leave(s) PROVE TypeOK'
    <2>1. [sock[s] EXCEPT !.pc = "left"] \in Task
      BY <1>4, TaskChanged DEF Leave
    <2>. QED
      BY <1>4, <2>1 DEF Leave, TypeOK
  <1>5. ASSUME NEW s \in Sockets, Unregister(s) PROVE TypeOK'
    <2>1. [sock[s] EXCEPT !.pc = "relay"] \in Task
      BY <1>5, TaskChanged DEF Unregister
    <2>. QED
      BY <1>5, <2>1 DEF Unregister, Unregistered, TypeOK
  <1>6. ASSUME NEW s \in Sockets, Close(s) PROVE TypeOK'
    BY <1>6 DEF Close, TypeOK, Task
  <1>7. ASSUME NEW u \in Users, SendToUser(u),
               UNCHANGED <<conns, peer, transfers, deleted, drops, panics>>
        PROVE  TypeOK'
    <2>1. ASSUME NEW s \in Sockets, s \in Receivers(conns[u])
          PROVE  [sock[s] EXCEPT !.pending = Queued(@)] \in Task
      <3>1. sock[s].pc = "loop"
        BY <2>1 DEF Receivers
      <3>2. Queued(sock[s].pending) \in 0..Capacity
        <4>1. sock[s].pending \in 0..Capacity
          BY <3>1, TaskChanged
        <4>. QED
          BY <4>1 DEF Queued
      <3>. QED
        BY <3>1, <3>2, TaskChanged
    <2>2. \A s \in Sockets : sock'[s] \in Task
      BY <1>7, <2>1, TaskShape DEF SendToUser, Reached, Receivers
    <2>3. sock' = [s \in Sockets |-> sock'[s]]
      BY <1>7 DEF SendToUser, Reached
    <2>. QED
      BY <1>7, <2>2, <2>3 DEF TypeOK
  <1>8. ASSUME NEW s \in Sockets, NEW t \in Transfers, FileAvailable(s, t) PROVE TypeOK'
    BY <1>8, TaskShape DEF FileAvailable, Requesting, TypeOK
  <1>9. ASSUME NEW s \in Sockets, Panic(s) PROVE TypeOK'
    BY <1>9 DEF Panic, TypeOK, Task
  <1>10. ASSUME NEW s \in Sockets, Drop(s) PROVE TypeOK'
    BY <1>10 DEF Drop, TypeOK
  <1>11. ASSUME NEW u \in Users, DeleteRows(u) \/ DeleteDisconnect(u) PROVE TypeOK'
    BY <1>11 DEF DeleteRows, DeleteDisconnect, Unregistered, TypeOK
  <1>12. ASSUME NEW t \in Transfers, Expire(t) PROVE TypeOK'
    BY <1>12 DEF Expire, TypeOK
  <1>13. ASSUME NEW s \in Sockets, NEW t \in Transfers, FileChunkRequest(s, t) PROVE TypeOK'
    <2>1. transfers[t] \in Users
      BY <1>13 DEF FileChunkRequest, TypeOK
    <2>. QED
      BY <1>13, <2>1, <1>7 DEF FileChunkRequest
  <1>14. ASSUME NEW u \in Users, Push(u) \/ \E s \in Sockets : FileChunk(s, u) PROVE TypeOK'
    BY <1>14, <1>7 DEF Push, FileChunk
  <1>15. CASE UNCHANGED vars
    BY <1>15 DEF vars, TypeOK
  <1>. QED
    BY <1>1, <1>2, <1>3, <1>4, <1>5, <1>6, <1>8, <1>9, <1>10, <1>11, <1>12, <1>13,
       <1>14, <1>15 DEF Next, Step

\* The inductive invariant.
IInv == TypeOK /\ EntryIsServed /\ TransferIsServed

LEMMA InitInv == Init => IInv
  BY FaultAssumption DEF Init, IInv, TypeOK, EntryIsServed, TransferIsServed, Task

\* A step that leaves every task its user and its channel, adds no entry and no
\* transfer, and takes no task out of the sets that serve them, keeps both.
LEMMA QuietSteps ==
  ASSUME IInv, TypeOK',
         panics' = 0 => panics = 0,
         \A u \in Users : conns'[u] \in {0, conns[u]},
         \A t \in Transfers : transfers'[t] \in {NoUser, transfers[t]},
         \A s \in Sockets : sock[s].pc \in {"loop", "left"} =>
           /\ sock'[s].pc \in {"loop", "left"}
           /\ sock'[s].user = sock[s].user /\ sock'[s].chan = sock[s].chan,
         \A s \in Sockets : sock[s].pc = "relay" =>
           sock'[s].pc = "relay" /\ sock'[s].user = sock[s].user
  PROVE  IInv'
  <1>1. EntryIsServed'
    BY DEF IInv, EntryIsServed, Serving
  <1>2. TransferIsServed'
    BY DEF IInv, TransferIsServed
  <1>. QED
    BY <1>1, <1>2 DEF IInv

\* Every step keeps the invariant.
LEMMA NextInv ==
  ASSUME IInv, [Next]_vars
  PROVE  IInv'
  <1> USE DEF IInv
  <1>1. TypeOK'
    BY TypeNext
  <1>2. ASSUME NEW s \in Sockets, NEW u \in Users, Authenticate(s, u) PROVE IInv'
    BY <1>1, <1>2, QuietSteps DEF Authenticate, Free, TypeOK
  <1>3. ASSUME NEW s \in Sockets, Register(s) PROVE IInv'
    <2>1. \A x \in Sockets \ {s} : sock'[x] = sock[x]
      BY <1>3 DEF Register, TypeOK
    <2>2. /\ sock[s].user \in Users
          /\ sock'[s].pc = "loop" /\ sock'[s].user = sock[s].user
          /\ sock'[s].chan = conns'[sock[s].user]
          /\ \A v \in Users \ {sock[s].user} : conns'[v] = conns[v]
      BY <1>3, TaskShape DEF Register, TypeOK
    <2>3. EntryIsServed'
      BY <1>3, <2>1, <2>2 DEF Register, EntryIsServed, Serving
    <2>4. TransferIsServed'
      BY <1>3, <2>1, <2>2 DEF Register, TransferIsServed
    <2>. QED
      BY <1>1, <2>3, <2>4
  <1>4. ASSUME NEW s \in Sockets, Deliver(s) \/ Leave(s) PROVE IInv'
    BY <1>1, <1>4, QuietSteps, TaskShape DEF Deliver, Leave, TypeOK
  <1>5. ASSUME NEW s \in Sockets, Unregister(s) PROVE IInv'
    <2>1. \A x \in Sockets \ {s} : sock'[x] = sock[x]
      BY <1>5 DEF Unregister, TypeOK
    <2>2. sock'[s].pc = "relay" /\ sock'[s].user = sock[s].user
      BY <1>5, TaskShape DEF Unregister, TypeOK
    <2>3. /\ conns'[sock[s].user] = 0
          /\ \A v \in Users \ {sock[s].user} : conns'[v] = conns[v]
      BY <1>5, TaskShape DEF Unregister, Unregistered, TypeOK
    <2>4. EntryIsServed'
      BY <1>5, <2>1, <2>3 DEF Unregister, EntryIsServed, Serving
    <2>5. TransferIsServed'
      BY <1>5, <2>1, <2>2 DEF Unregister, TransferIsServed
    <2>. QED
      BY <1>1, <2>4, <2>5
  <1>6. ASSUME NEW s \in Sockets, Close(s) PROVE IInv'
    <2>1. \A x \in Sockets \ {s} : sock'[x] = sock[x]
      BY <1>6 DEF Close, TypeOK
    <2>2. \A t \in Transfers : transfers'[t] # NoUser =>
             transfers'[t] = transfers[t] /\ transfers[t] # sock[s].user
      BY <1>6 DEF Close
    <2>3. EntryIsServed'
      BY <1>6, <2>1 DEF Close, EntryIsServed, Serving
    <2>4. TransferIsServed'
      BY <1>6, <2>1, <2>2 DEF Close, TransferIsServed
    <2>. QED
      BY <1>1, <2>3, <2>4
  <1>7. ASSUME NEW u \in Users, SendToUser(u),
               UNCHANGED <<conns, peer, transfers, deleted, drops, panics>>
        PROVE  IInv'
    <2>1. \A s \in Sockets : /\ sock'[s].pc = sock[s].pc
                             /\ sock[s].pc # "free" => sock'[s].user = sock[s].user
                             /\ sock[s].pc \in {"loop", "left"} => sock'[s].chan = sock[s].chan
      BY <1>7, TaskShape DEF SendToUser, Reached, Receivers
    <2>. QED
      BY <1>1, <1>7, <2>1, QuietSteps
  <1>8. ASSUME NEW s \in Sockets, NEW t \in Transfers, FileAvailable(s, t) PROVE IInv'
    <2>1. /\ transfers'[t] = sock[s].user
          /\ \A x \in Transfers \ {t} : transfers'[x] = transfers[x]
      BY <1>8 DEF FileAvailable, TypeOK
    <2>2. TransferIsServed'
      BY <1>8, <2>1 DEF FileAvailable, Requesting, TransferIsServed
    <2>3. EntryIsServed'
      BY <1>8 DEF FileAvailable, EntryIsServed, Serving
    <2>. QED
      BY <1>1, <2>2, <2>3
  <1>9. ASSUME NEW s \in Sockets, Panic(s) PROVE IInv'
    <2>1. panics' # 0
      BY <1>9 DEF Panic, TypeOK
    <2>. QED
      BY <1>1, <2>1 DEF EntryIsServed, TransferIsServed
  <1>10. ASSUME NEW s \in Sockets, Drop(s) PROVE IInv'
    BY <1>1, <1>10, QuietSteps DEF Drop
  <1>11. ASSUME NEW u \in Users, DeleteRows(u) \/ DeleteDisconnect(u) PROVE IInv'
    BY <1>1, <1>11, QuietSteps DEF DeleteRows, DeleteDisconnect, Unregistered, TypeOK
  <1>12. ASSUME NEW t \in Transfers, Expire(t) PROVE IInv'
    BY <1>1, <1>12, QuietSteps DEF Expire, TypeOK
  <1>13. ASSUME NEW s \in Sockets, NEW t \in Transfers, FileChunkRequest(s, t) PROVE IInv'
    <2>1. transfers[t] \in Users
      BY <1>13 DEF FileChunkRequest, TypeOK
    <2>. QED
      BY <1>13, <2>1, <1>7 DEF FileChunkRequest
  <1>14. ASSUME NEW u \in Users, Push(u) \/ \E s \in Sockets : FileChunk(s, u) PROVE IInv'
    BY <1>14, <1>7 DEF Push, FileChunk
  <1>15. CASE UNCHANGED vars
    BY <1>1, <1>15, QuietSteps DEF vars
  <1>. QED
    BY <1>2, <1>3, <1>4, <1>5, <1>6, <1>8, <1>9, <1>10, <1>11, <1>12, <1>13,
       <1>14, <1>15 DEF Next, Step

LEMMA Invariance == Spec => []IInv
  BY InitInv, NextInv, PTL DEF Spec

\* The connection map, the tasks, their queues and the transfer registry keep
\* their types; in particular register always finds a channel of its own.
THEOREM TypeCorrect == Spec => []TypeOK
  <1>1. IInv => TypeOK
    BY DEF IInv
  <1>. QED
    BY <1>1, Invariance, PTL

\* Without panics, an entry of the connection map always has a task that listens
\* to its channel and will unregister it.
THEOREM EntriesServed == Spec => []EntryIsServed
  <1>1. IInv => EntryIsServed
    BY DEF IInv
  <1>. QED
    BY <1>1, Invariance, PTL

\* Without panics, a registered transfer always has a task of its sender that
\* will still run unregister_by_sender.
THEOREM TransfersServed == Spec => []TransferIsServed
  <1>1. IInv => TransferIsServed
    BY DEF IInv
  <1>. QED
    BY <1>1, Invariance, PTL
=============================================================================
