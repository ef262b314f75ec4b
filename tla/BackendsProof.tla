--------------------------- MODULE BackendsProof ---------------------------
(***************************************************************************)
(* The two back ends of the server.                                        *)
(*                                                                         *)
(* The database, DbPool: for any number of tasks, workers and connections  *)
(* the types, and that no connection is lost or used twice.  The two go    *)
(* together: the idle connections stay within the size of the pool because *)
(* the taken ones are counted.                                             *)
(* Then the lock its handlers wait for with a connection in their hands:   *)
(* every waiter has a place and someone to hand over to it, so the tasks   *)
(* never all wait for each other.                                          *)
(*                                                                         *)
(* The object store, Updates: for any releases, file sizes, chunk sizes    *)
(* and platforms, and for a store with or without Range, the types and     *)
(* that an undisturbed download ends with the announced file.              *)
(***************************************************************************)
EXTENDS DbPool, Updates, FiniteSetTheorems, SequenceTheorems, WellFoundedInduction, TLAPS

-----------------------------------------------------------------------------
(* The database pool. *)

\* The queue of the lock has each waiting task once: a task that is given the
\* lock is not in the queue any more.
Waiting == /\ \A i \in 1..Len(queue) : pc[queue[i]] = "parked"
           /\ \A i, j \in 1..Len(queue) : queue[i] = queue[j] => i = j

IInv == DbTypeOK /\ PoolConserved /\ Waiting

-----------------------------------------------------------------------------
LEMMA Counting ==
  ASSUME DbTypeOK
  PROVE  /\ IsFiniteSet(Holders) /\ Cardinality(Holders) \in Nat
         /\ free \in Nat /\ Size \in Nat /\ Len(queue) \in Nat
         /\ \A i \in 1..Len(queue) : queue[i] \in Tasks
         /\ Holders' \in SUBSET Tasks
  <1>1. Holders \in SUBSET Tasks /\ Holders' \in SUBSET Tasks
    BY DEF Holders
  <1>2. IsFiniteSet(Holders) /\ Cardinality(Holders) \in Nat
    BY <1>1, TasksAssumption, FS_Subset, FS_CardinalityType
  <1>3. free \in Nat /\ Size \in Nat
    BY PoolAssumption DEF DbTypeOK
  <1>4. Len(queue) \in Nat /\ \A i \in 1..Len(queue) : queue[i] \in Tasks
    BY DEF DbTypeOK
  <1>. QED
    BY <1>1, <1>2, <1>3, <1>4

\* The invariant for a step that takes no connection and gives none back.
LEMMA SameHolders ==
  ASSUME IInv, Holders' = Holders, free' = free,
         kind' \in [Tasks -> Kinds \cup {"none"}], pc' \in [Tasks -> Labels],
         queue' \in Seq(Tasks), Waiting'
  PROVE  IInv'
  BY DEF IInv, DbTypeOK, PoolConserved

LEMMA OneTaken ==
  ASSUME IInv, NEW t \in Tasks, t \notin Holders, Holders' = Holders \cup {t}, free > 0,
         free' = free - 1,
         kind' \in [Tasks -> Kinds \cup {"none"}], pc' \in [Tasks -> Labels],
         queue' \in Seq(Tasks), Waiting'
  PROVE  IInv'
  <1>1. Cardinality(Holders') = Cardinality(Holders) + 1
    BY Counting, FS_AddElement DEF IInv
  <1>2. free' + Cardinality(Holders') = Size
    BY <1>1, Counting DEF IInv, PoolConserved
  <1>3. free' \in 0..Size
    BY PoolAssumption DEF IInv, DbTypeOK
  <1>. QED
    BY <1>2, <1>3 DEF IInv, DbTypeOK, PoolConserved

LEMMA OneReturned ==
  ASSUME IInv, NEW t \in Holders, Holders' = Holders \ {t}, free' = free + 1,
         kind' \in [Tasks -> Kinds \cup {"none"}], pc' \in [Tasks -> Labels],
         queue' \in Seq(Tasks), Waiting'
  PROVE  IInv'
  <1>1. /\ Cardinality(Holders') = Cardinality(Holders) - 1
        /\ IsFiniteSet(Holders \ {t})
    BY Counting, FS_RemoveElement DEF IInv
  <1>2. Cardinality(Holders') \in Nat
    BY <1>1, FS_CardinalityType
  <1>3. free' + Cardinality(Holders') = Size /\ free' \in 0..Size
    BY <1>1, <1>2, Counting DEF IInv, PoolConserved
  <1>. QED
    BY <1>3 DEF IInv, DbTypeOK, PoolConserved

\* A task that is not in the queue may move to any position.
LEMMA WaitingKept ==
  ASSUME IInv, queue' = queue, NEW t \in Tasks, pc[t] # "parked", NEW l,
         pc' = [pc EXCEPT ![t] = l]
  PROVE  Waiting'
  BY Counting DEF IInv, DbTypeOK, Waiting

\* The readers at the head of the queue end at a writer or at its end: if anyone
\* waits someone gets the lock, and more than one only if all of them read.
LEMMA GrantedShape ==
  ASSUME DbTypeOK
  PROVE  /\ Granted \in 0..Len(queue)
         /\ Len(queue) > 0 => Granted > 0
         /\ Granted > 1 => \A i \in 1..Granted : kind[queue[i]] \notin Writers
  <1>1. CASE queue = <<>>
    BY <1>1 DEF Granted
  <1>2. CASE queue # <<>> /\ kind[queue[1]] \in Writers
    BY <1>2 DEF Granted, DbTypeOK
  <1>3. CASE queue # <<>> /\ kind[queue[1]] \notin Writers
    <2> DEFINE Stop(n) == /\ \A i \in 1..n : kind[queue[i]] \notin Writers
                          /\ n < Len(queue) => kind[queue[n + 1]] \in Writers
               Wt == {m \in 1..Len(queue) : kind[queue[m]] \in Writers}
    <2>1. Len(queue) \in Nat /\ Len(queue) >= 1
      BY <1>3 DEF DbTypeOK
    <2>2. \E n \in 1..Len(queue) : Stop(n)
      <3>1. CASE Wt = {}
        BY <2>1, <3>1
      <3>2. CASE Wt # {}
        <4>1. Wt \subseteq Nat
          BY <2>1
        <4>. HIDE DEF Wt
        <4>2. PICK m \in Wt : \A y \in Wt : ~(<<y, m>> \in OpToRel(<, Nat))
          BY <3>2, <4>1, NatLessThanWellFounded, WFMin
        <4>3. \A y \in Wt : ~(y < m)
          BY <4>1, <4>2 DEF OpToRel
        <4>4. m \in 2..Len(queue) /\ kind[queue[m]] \in Writers
          BY <1>3, <2>1 DEF Wt
        <4>5. \A i \in 1..(m - 1) : kind[queue[i]] \notin Writers
          BY <2>1, <4>3, <4>4 DEF Wt
        <4>6. m - 1 \in 1..Len(queue) /\ (m - 1) + 1 = m
          BY <2>1, <4>4
        <4>. QED
          BY <4>4, <4>5, <4>6
      <3>. QED
        BY <3>1, <3>2
    <2>3. Granted = CHOOSE n \in 1..Len(queue) : Stop(n)
      BY <1>3 DEF Granted
    <2>4. Granted \in 1..Len(queue) /\ Stop(Granted)
      <3>. HIDE DEF Stop
      <3>. QED
        BY <2>2, <2>3
    <2>. QED
      BY <2>1, <2>4
  <1>. QED
    BY <1>1, <1>2, <1>3

\* What the end of a section of the lock does: n tasks leave the queue and are
\* woken, the others keep their state and their order.
Handover(t, n) ==
  /\ n \in 0..Len(queue) /\ Len(queue) \in Nat
  /\ pc[t] = "locked" /\ pc'[t] = "idle"
  /\ pc' \in [Tasks -> Labels] /\ kind' \in [Tasks -> Kinds \cup {"none"}]
  /\ kind' = [kind EXCEPT ![t] = "none"] /\ free' = Returned(t)
  /\ \A i \in 1..n : pc[queue[i]] = "parked" /\ pc'[queue[i]] = "woken"
  /\ \A s \in Tasks : s # t =>
       \/ pc'[s] = pc[s] /\ \A i \in 1..n : queue[i] # s
       \/ pc[s] = "parked" /\ pc'[s] = "woken" /\ \E i \in 1..n : queue[i] = s
  /\ queue' \in Seq(Tasks) /\ Len(queue') = Len(queue) - n
  /\ \A i \in 1..(Len(queue) - n) : queue'[i] = queue[n + i]

LEMMA UnlockShape ==
  ASSUME IInv, NEW t \in Tasks, Unlock(t), NEW n, n = IF Owners = {t} THEN Granted ELSE 0
  PROVE  Handover(t, n)
  <1> USE DEF IInv
  <1>a. /\ pc \in [Tasks -> Labels] /\ kind \in [Tasks -> Kinds \cup {"none"}]
        /\ queue \in Seq(Tasks)
    BY DEF DbTypeOK
  <1>1. n \in 0..Len(queue) /\ Len(queue) \in Nat
    BY GrantedShape, Counting
  <1>2. /\ queue' = SubSeq(queue, n + 1, Len(queue)) /\ pc[t] = "locked"
        /\ pc' = [s \in Tasks |-> IF s = t THEN "idle"
                                  ELSE IF \E i \in 1..n : queue[i] = s THEN "woken"
                                  ELSE pc[s]]
        /\ kind' = [kind EXCEPT ![t] = "none"] /\ free' = Returned(t)
    BY DEF Unlock
  <1>3. pc' \in [Tasks -> Labels] /\ kind' \in [Tasks -> Kinds \cup {"none"}]
    BY <1>a, <1>2 DEF Labels
  <1>4. \A i \in 1..n : pc[queue[i]] = "parked" /\ queue[i] \in Tasks
    BY <1>1, Counting DEF Waiting
  <1>5. \A s \in Tasks : s # t =>
          pc'[s] = IF \E i \in 1..n : queue[i] = s THEN "woken" ELSE pc[s]
    BY <1>2
  <1>6. \A i \in 1..n : pc[queue[i]] = "parked" /\ pc'[queue[i]] = "woken"
    BY <1>2, <1>4, <1>5
  <1>7. \A s \in Tasks : s # t =>
          \/ pc'[s] = pc[s] /\ \A i \in 1..n : queue[i] # s
          \/ pc[s] = "parked" /\ pc'[s] = "woken" /\ \E i \in 1..n : queue[i] = s
    BY <1>4, <1>5
  <1>8. /\ queue' \in Seq(Tasks) /\ Len(queue') = Len(queue) - n
        /\ \A i \in 1..(Len(queue) - n) : queue'[i] = queue[n + i]
    <2>1. \A i \in (n + 1)..Len(queue) : queue[i] \in Tasks
      BY <1>1, Counting
    <2>2. /\ SubSeq(queue, n + 1, Len(queue)) \in Seq(Tasks)
          /\ Len(SubSeq(queue, n + 1, Len(queue))) =
               IF n + 1 <= Len(queue) THEN Len(queue) - (n + 1) + 1 ELSE 0
          /\ \A i \in 1..(Len(queue) - (n + 1) + 1) :
               SubSeq(queue, n + 1, Len(queue))[i] = queue[n + 1 + i - 1]
      <3>1. n + 1 \in Int /\ Len(queue) \in Int
        BY <1>1
      <3>. QED
        BY <2>1, <3>1, SubSeqProperties
    <2>3. \A i \in 1..(Len(queue) - n) : n + 1 + i - 1 = n + i
      BY <1>1
    <2>4. /\ Len(queue) - (n + 1) + 1 = Len(queue) - n
          /\ ~(n + 1 <= Len(queue)) => Len(queue) - n = 0
      BY <1>1
    <2>. QED
      BY <1>2, <2>2, <2>3, <2>4
  <1>9. pc'[t] = "idle"
    BY <1>2
  <1>. QED
    BY <1>1, <1>2, <1>3, <1>6, <1>7, <1>8, <1>9 DEF Handover

-----------------------------------------------------------------------------
LEMMA StepInv ==
  ASSUME IInv, [DbNext]_dbVars
  PROVE  IInv'
  <1> USE DEF IInv
  <1>a. /\ pc \in [Tasks -> Labels] /\ kind \in [Tasks -> Kinds \cup {"none"}]
        /\ queue \in Seq(Tasks)
    BY DEF DbTypeOK
  <1>b. ASSUME NEW t \in Tasks, NEW l \in Labels, Move(t, l)
        PROVE  /\ pc' = [pc EXCEPT ![t] = l] /\ kind' = kind
               /\ pc' \in [Tasks -> Labels] /\ kind' \in [Tasks -> Kinds \cup {"none"}]
    BY <1>a, <1>b DEF Move
  <1>c. ASSUME NEW t \in Tasks, End(t)
        PROVE  /\ pc' = [pc EXCEPT ![t] = "idle"] /\ kind' = [kind EXCEPT ![t] = "none"]
               /\ pc' \in [Tasks -> Labels] /\ kind' \in [Tasks -> Kinds \cup {"none"}]
    BY <1>a, <1>c DEF End, Labels
  <1>1. ASSUME NEW t \in Tasks, NEW k \in Arrivals, Spawn(t, k) PROVE IInv'
    <2>1. PICK l \in {"run", "ready"} : pc' = [pc EXCEPT ![t] = l]
      BY <1>1 DEF Spawn
    <2>2. /\ pc[t] = "idle" /\ kind' = [kind EXCEPT ![t] = k]
          /\ UNCHANGED <<free, queue>>
      BY <1>1 DEF Spawn
    <2>3. pc' \in [Tasks -> Labels] /\ kind' \in [Tasks -> Kinds \cup {"none"}]
      BY <1>a, <2>1, <2>2, ArrivalsAssumption DEF Labels
    <2>4. Waiting'
      BY <2>1, <2>2, WaitingKept
    <2>5. Holders' = Holders
      BY <1>a, <2>1, <2>2 DEF Holders
    <2>. QED
      BY <1>a, <2>2, <2>3, <2>4, <2>5, SameHolders
  <1>2. ASSUME NEW t \in Tasks, Poll(t) PROVE IInv'
    <2>1. PICK l \in {"run", "locked"} : Move(t, l) /\ (pc[t] = "woken" <=> l = "locked")
      BY <1>2 DEF Poll
    <2>2. /\ pc' = [pc EXCEPT ![t] = l] /\ kind' = kind
          /\ pc' \in [Tasks -> Labels] /\ kind' \in [Tasks -> Kinds \cup {"none"}]
      BY <1>b, <2>1 DEF Labels
    <2>3. pc[t] \in {"ready", "woken"} /\ UNCHANGED <<free, queue>>
      BY <1>2 DEF Poll
    <2>4. Waiting'
      BY <2>2, <2>3, WaitingKept
    <2>5. Holders' = Holders
      BY <1>a, <2>1, <2>2, <2>3 DEF Holders
    <2>. QED
      BY <1>a, <2>2, <2>3, <2>4, <2>5, SameHolders
  <1>3. ASSUME NEW t \in Tasks, Get(t) \/ GetLater(t) PROVE IInv'
    <2>1. pc[t] \in {"run", "wait"} /\ queue' = queue
      BY <1>3 DEF Get, GetLater
    <2>2. CASE free > 0
      <3>1. Move(t, "hold") /\ free' = free - 1
        BY <1>3, <2>2 DEF Get, GetLater
      <3>2. /\ pc' = [pc EXCEPT ![t] = "hold"] /\ kind' = kind
            /\ pc' \in [Tasks -> Labels] /\ kind' \in [Tasks -> Kinds \cup {"none"}]
        BY <1>b, <3>1 DEF Labels
      <3>3. Waiting'
        BY <2>1, <3>2, WaitingKept
      <3>4. Holders' = Holders \cup {t} /\ t \notin Holders
        BY <1>a, <2>1, <3>2 DEF Holders
      <3>. QED
        BY <1>a, <2>1, <2>2, <3>1, <3>2, <3>3, <3>4, OneTaken
    <2>3. CASE ~(free > 0)
      <3>1. Move(t, "wait") /\ free' = free
        BY <1>3, <2>3 DEF Get, GetLater
      <3>2. /\ pc' = [pc EXCEPT ![t] = "wait"] /\ kind' = kind
            /\ pc' \in [Tasks -> Labels] /\ kind' \in [Tasks -> Kinds \cup {"none"}]
        BY <1>b, <3>1 DEF Labels
      <3>3. Waiting'
        BY <2>1, <3>2, WaitingKept
      <3>4. Holders' = Holders
        BY <1>a, <2>1, <3>2 DEF Holders
      <3>. QED
        BY <1>a, <2>1, <3>1, <3>2, <3>3, <3>4, SameHolders
    <2>. QED
      BY <2>2, <2>3
  <1>4. ASSUME NEW t \in Tasks, Timeout(t) PROVE IInv'
    <2>1. pc[t] = "wait" /\ End(t) /\ UNCHANGED <<free, queue>>
      BY <1>4 DEF Timeout
    <2>2. /\ pc' = [pc EXCEPT ![t] = "idle"] /\ kind' = [kind EXCEPT ![t] = "none"]
          /\ pc' \in [Tasks -> Labels] /\ kind' \in [Tasks -> Kinds \cup {"none"}]
      BY <1>c, <2>1
    <2>3. Waiting'
      BY <2>1, <2>2, WaitingKept
    <2>4. Holders' = Holders
      BY <1>a, <2>1, <2>2 DEF Holders
    <2>. QED
      BY <1>a, <2>1, <2>2, <2>3, <2>4, SameHolders
  <1>5. ASSUME NEW t \in Tasks, Return(t) PROVE IInv'
    <2>1. pc[t] = "hold" /\ End(t) /\ free' = free + 1 /\ queue' = queue
      BY <1>5 DEF Return
    <2>2. /\ pc' = [pc EXCEPT ![t] = "idle"] /\ kind' = [kind EXCEPT ![t] = "none"]
          /\ pc' \in [Tasks -> Labels] /\ kind' \in [Tasks -> Kinds \cup {"none"}]
      BY <1>c, <2>1
    <2>3. Waiting'
      BY <2>1, <2>2, WaitingKept
    <2>4. Holders' = Holders \ {t} /\ t \in Holders
      BY <1>a, <2>1, <2>2 DEF Holders
    <2>. QED
      BY <1>a, <2>1, <2>2, <2>3, <2>4, OneReturned
  <1>6. ASSUME NEW t \in Tasks, Lock(t) PROVE IInv'
    <2>1. /\ free' = free /\ pc[t] # "parked"
          /\ \/ pc[t] = "hold" /\ kind[t] \in Keepers
             \/ pc[t] = "run" /\ kind[t] \in {"push", "socket"}
      BY <1>6 DEF Lock
    <2>2. CASE Move(t, "locked") /\ queue' = queue
      <3>1. /\ pc' = [pc EXCEPT ![t] = "locked"] /\ kind' = kind
            /\ pc' \in [Tasks -> Labels] /\ kind' \in [Tasks -> Kinds \cup {"none"}]
        BY <1>b, <2>2 DEF Labels
      <3>2. Waiting'
        BY <2>1, <2>2, <3>1, WaitingKept
      <3>3. Holders' = Holders
        BY <1>a, <2>1, <3>1 DEF Holders, Keepers
      <3>. QED
        BY <1>a, <2>1, <2>2, <3>1, <3>2, <3>3, SameHolders
    <2>3. CASE Move(t, "parked") /\ queue' = Append(queue, t)
      <3>1. /\ pc' = [pc EXCEPT ![t] = "parked"] /\ kind' = kind
            /\ pc' \in [Tasks -> Labels] /\ kind' \in [Tasks -> Kinds \cup {"none"}]
        BY <1>b, <2>3 DEF Labels
      <3>2. /\ queue' \in Seq(Tasks) /\ Len(queue') = Len(queue) + 1
            /\ \A i \in 1..Len(queue) : queue'[i] = queue[i]
            /\ queue'[Len(queue) + 1] = t
        BY <1>a, <2>3, AppendProperties
      <3>3. \A i \in 1..Len(queue) : queue[i] # t
        BY <2>1 DEF Waiting
      <3>4. Waiting'
        BY <1>a, <3>1, <3>2, <3>3, Counting DEF Waiting
      <3>5. Holders' = Holders
        BY <1>a, <2>1, <3>1 DEF Holders, Keepers
      <3>. QED
        BY <2>1, <3>1, <3>2, <3>4, <3>5, SameHolders
    <2>. QED
      BY <1>6, <2>2, <2>3 DEF Lock
  <1>7. ASSUME NEW t \in Tasks, Unlock(t) PROVE IInv'
    <2> DEFINE n == IF Owners = {t} THEN Granted ELSE 0
    <2>1. Handover(t, n)
      BY <1>7, UnlockShape
    <2>. HIDE DEF n
    <2>2. /\ n \in 0..Len(queue) /\ Len(queue) \in Nat
          /\ pc[t] = "locked" /\ pc'[t] = "idle"
          /\ kind' = [kind EXCEPT ![t] = "none"] /\ free' = Returned(t)
      BY <2>1 DEF Handover
    <2>3. pc' \in [Tasks -> Labels] /\ kind' \in [Tasks -> Kinds \cup {"none"}]
      BY <2>1 DEF Handover
    <2>4. \A s \in Tasks : s # t =>
            \/ pc'[s] = pc[s] /\ \A i \in 1..n : queue[i] # s
            \/ pc[s] = "parked" /\ pc'[s] = "woken" /\ \E i \in 1..n : queue[i] = s
      BY <2>1 DEF Handover
    <2>5. /\ queue' \in Seq(Tasks) /\ Len(queue') = Len(queue) - n
          /\ \A i \in 1..(Len(queue) - n) : queue'[i] = queue[n + i]
      BY <2>1 DEF Handover
    <2>6. Waiting'
      <3>1. ASSUME NEW i \in 1..Len(queue')
            PROVE  n + i \in 1..Len(queue) /\ queue'[i] = queue[n + i] /\ pc'[queue'[i]] = "parked"
        <4>1. i \in 1..(Len(queue) - n) /\ n + i \in 1..Len(queue) /\ queue'[i] = queue[n + i]
          BY <2>2, <2>5
        <4>2. pc[queue[n + i]] = "parked" /\ queue[n + i] \in Tasks /\ queue[n + i] # t
          BY <2>2, <4>1, Counting DEF Waiting
        <4>3. \A j \in 1..n : queue[j] # queue[n + i]
          BY <2>2, <4>1 DEF Waiting
        <4>. QED
          BY <2>4, <4>1, <4>2, <4>3
      <3>2. ASSUME NEW i \in 1..Len(queue'), NEW j \in 1..Len(queue'), queue'[i] = queue'[j]
            PROVE  i = j
        <4>1. n + i \in 1..Len(queue) /\ n + j \in 1..Len(queue) /\ queue[n + i] = queue[n + j]
          BY <3>1, <3>2
        <4>2. n + i = n + j
          BY <4>1 DEF Waiting
        <4>3. n \in Int /\ i \in Int /\ j \in Int
          BY <2>2
        <4>. QED
          BY <4>2, <4>3
      <3>. QED
        BY <3>1, <3>2 DEF Waiting
    <2>7. Holders' = Holders \ {t}
      BY <1>a, <2>2, <2>4 DEF Holders, Keepers
    <2>8. CASE kind[t] \in Keepers
      <3>1. t \in Holders /\ free' = free + 1
        BY <2>2, <2>8 DEF Holders, Returned
      <3>. QED
        BY <2>3, <2>5, <2>6, <2>7, <3>1, OneReturned
    <2>9. CASE kind[t] \notin Keepers
      <3>1. t \notin Holders /\ free' = free
        BY <2>2, <2>9 DEF Holders, Returned
      <3>. QED
        BY <2>3, <2>5, <2>6, <2>7, <3>1, SameHolders
    <2>. QED
      BY <2>8, <2>9
  <1>8. CASE UNCHANGED dbVars
    BY <1>8 DEF dbVars, DbTypeOK, PoolConserved, Holders, Waiting
  <1>. QED
    BY <1>1, <1>2, <1>3, <1>4, <1>5, <1>6, <1>7, <1>8 DEF DbNext, Step

LEMMA InitInv == DbInit => IInv
  <1>1. SUFFICES ASSUME DbInit PROVE IInv
    OBVIOUS
  <1>2. Holders = {}
    BY <1>1 DEF DbInit, Holders
  <1>3. PoolConserved
    BY <1>1, <1>2, FS_EmptySet, PoolAssumption DEF DbInit, PoolConserved
  <1>4. DbTypeOK
    BY <1>1, PoolAssumption DEF DbInit, DbTypeOK, Labels
  <1>5. Waiting
    BY <1>1 DEF DbInit, Waiting
  <1>. QED
    BY <1>3, <1>4, <1>5 DEF IInv

LEMMA Invariance == DbSpec => []IInv
  <1>1. DbInit => IInv
    BY InitInv
  <1>2. IInv /\ [DbNext]_dbVars => IInv'
    BY StepInv
  <1>. QED
    BY <1>1, <1>2, PTL DEF DbSpec

\* The idle connections stay within max_size and the lock's queue is a queue of
\* tasks, whatever the order in which tasks get and give back.
THEOREM DbTypeCorrect == DbSpec => []DbTypeOK
  BY Invariance, PTL DEF IInv

\* Whichever way a task ends (its handler returns, pool.get() times out, its
\* section of the ConnectionManager ends), the connections of the pool are idle
\* or held by one task each.
THEOREM NoConnectionLost == DbSpec => []PoolConserved
  BY Invariance, PTL DEF IInv

\* Who waits for the lock of the ConnectionManager will get it: a parked task has
\* a place in the queue, and while the queue is not empty some task has the lock.
Queued == /\ \A t \in Tasks : pc[t] = "parked" => \E i \in 1..Len(queue) : queue[i] = t
          /\ Len(queue) > 0 => Owners # {}

\* A task that has the lock for writing has it alone.
WriterAlone == \A s, t \in Owners : s # t => {kind[s], kind[t]} \cap Writers = {}

LInv == IInv /\ Queued /\ WriterAlone

\* A task that has no part in the lock, before and after.
LEMMA LockUntouched ==
  ASSUME LInv, IInv', queue' = queue, NEW t \in Tasks, NEW l, pc' = [pc EXCEPT ![t] = l],
         pc[t] # "parked", l # "parked",
         pc[t] \in {"woken", "locked"} <=> l \in {"woken", "locked"},
         \A s \in Owners : kind'[s] = kind[s]
  PROVE  LInv'
  <1>1. pc \in [Tasks -> Labels]
    BY DEF LInv, IInv, DbTypeOK
  <1>2. Owners' = Owners
    BY <1>1 DEF Owners
  <1>3. Queued'
    BY <1>1, <1>2 DEF LInv, Queued
  <1>4. WriterAlone'
    BY <1>2 DEF LInv, WriterAlone
  <1>. QED
    BY <1>3, <1>4 DEF LInv

LEMMA LockStep ==
  ASSUME LInv, [DbNext]_dbVars
  PROVE  LInv'
  <1>a. IInv'
    BY StepInv DEF LInv
  <1>b. /\ pc \in [Tasks -> Labels] /\ kind \in [Tasks -> Kinds \cup {"none"}]
        /\ queue \in Seq(Tasks) /\ Len(queue) \in Nat
    BY DEF LInv, IInv, DbTypeOK
  <1>1. ASSUME NEW t \in Tasks, NEW k \in Arrivals, Spawn(t, k) PROVE LInv'
    <2>1. PICK l \in {"run", "ready"} : pc' = [pc EXCEPT ![t] = l]
      BY <1>1 DEF Spawn
    <2>2. pc[t] = "idle" /\ kind' = [kind EXCEPT ![t] = k] /\ queue' = queue
      BY <1>1 DEF Spawn
    <2>3. \A s \in Owners : kind'[s] = kind[s]
      BY <1>b, <2>2 DEF Owners
    <2>. QED
      BY <1>a, <2>1, <2>2, <2>3, LockUntouched
  <1>2. ASSUME NEW t \in Tasks, Poll(t) PROVE LInv'
    <2>1. PICK l \in {"run", "locked"} : Move(t, l) /\ (pc[t] = "woken" <=> l = "locked")
      BY <1>2 DEF Poll
    <2>2. pc[t] \in {"ready", "woken"} /\ queue' = queue
      BY <1>2 DEF Poll
    <2>. QED
      BY <1>a, <2>1, <2>2, LockUntouched DEF Move
  <1>3. ASSUME NEW t \in Tasks, Get(t) \/ GetLater(t) PROVE LInv'
    <2>1. PICK l \in {"hold", "wait"} : Move(t, l)
      BY <1>3 DEF Get, GetLater
    <2>2. pc[t] \in {"run", "wait"} /\ queue' = queue
      BY <1>3 DEF Get, GetLater
    <2>. QED
      BY <1>a, <2>1, <2>2, LockUntouched DEF Move
  <1>4. ASSUME NEW t \in Tasks, Timeout(t) \/ Return(t) PROVE LInv'
    <2>1. pc[t] \in {"wait", "hold"} /\ queue' = queue /\ End(t)
      BY <1>4 DEF Timeout, Return
    <2>2. \A s \in Owners : kind'[s] = kind[s]
      BY <1>b, <2>1 DEF Owners, End
    <2>. QED
      BY <1>a, <2>1, <2>2, LockUntouched DEF End
  <1>5. ASSUME NEW t \in Tasks, Lock(t) PROVE LInv'
    <2>1. pc[t] \in {"run", "hold"}
      BY <1>5 DEF Lock
    <2>2. CASE queue = <<>> /\ \A s \in Owners : {kind[s], kind[t]} \cap Writers = {}
      <3>1. pc' = [pc EXCEPT ![t] = "locked"] /\ kind' = kind /\ queue' = queue
        BY <1>5, <2>2 DEF Lock, Move
      <3>2. Owners' = Owners \cup {t}
        BY <1>b, <3>1 DEF Owners
      <3>3. Queued'
        BY <1>b, <2>2, <3>1 DEF LInv, Queued
      <3>4. WriterAlone'
        <4>1. SUFFICES ASSUME NEW s \in Owners', NEW r \in Owners', s # r
                       PROVE  {kind[s], kind[r]} \cap Writers = {}
          BY <3>1 DEF WriterAlone
        <4>2. CASE s \in Owners /\ r \in Owners
          BY <4>1, <4>2 DEF LInv, WriterAlone
        <4>3. CASE s = t
          <5>1. r \in Owners
            BY <3>2, <4>1, <4>3
          <5>2. {kind[s], kind[r]} = {kind[r], kind[t]}
            BY <4>3
          <5>. QED
            BY <2>2, <5>1, <5>2
        <4>4. CASE r = t /\ s # t
          <5>1. s \in Owners
            BY <3>2, <4>1, <4>4
          <5>. QED
            BY <2>2, <4>4, <5>1
        <4>. QED
          BY <3>2, <4>1, <4>2, <4>3, <4>4
      <3>. QED
        BY <1>a, <3>3, <3>4 DEF LInv
    <2>3. CASE ~(queue = <<>> /\ \A s \in Owners : {kind[s], kind[t]} \cap Writers = {})
      <3>1. pc' = [pc EXCEPT ![t] = "parked"] /\ kind' = kind /\ queue' = Append(queue, t)
        BY <1>5, <2>3 DEF Lock, Move
      <3>2. Owners' = Owners
        BY <1>b, <2>1, <3>1 DEF Owners
      <3>3. Owners # {}
        BY <1>b, <2>3 DEF LInv, Queued
      <3>4. /\ Len(queue') = Len(queue) + 1 /\ queue'[Len(queue) + 1] = t
            /\ \A i \in 1..Len(queue) : queue'[i] = queue[i]
        BY <1>b, <3>1, AppendProperties
      <3>5. ASSUME NEW s \in Tasks, pc'[s] = "parked"
            PROVE  \E i \in 1..Len(queue') : queue'[i] = s
        <4>1. CASE s = t
          BY <1>b, <3>4, <4>1
        <4>2. CASE s # t
          <5>1. PICK i \in 1..Len(queue) : queue[i] = s
            BY <1>b, <3>1, <3>5, <4>2 DEF LInv, Queued
          <5>. QED
            BY <1>b, <3>4, <5>1
        <4>. QED
          BY <4>1, <4>2
      <3>6. Queued'
        BY <3>2, <3>3, <3>5 DEF Queued
      <3>7. WriterAlone'
        BY <3>1, <3>2 DEF LInv, WriterAlone
      <3>. QED
        BY <1>a, <3>6, <3>7 DEF LInv
    <2>. QED
      BY <2>2, <2>3
  <1>6. ASSUME NEW t \in Tasks, Unlock(t) PROVE LInv'
    <2> DEFINE n == IF Owners = {t} THEN Granted ELSE 0
    <2>1. Handover(t, n)
      BY <1>6, UnlockShape DEF LInv
    <2>2. IF Owners = {t}
          THEN /\ Len(queue) > 0 => n > 0
               /\ n > 1 => \A i \in 1..n : kind[queue[i]] \notin Writers
          ELSE n = 0
      BY GrantedShape DEF LInv, IInv
    <2>. HIDE DEF n
    <2>3. t \in Owners /\ n \in 0..Len(queue) /\ kind' = [kind EXCEPT ![t] = "none"]
      BY <2>1 DEF Handover, Owners
    <2>4. ASSUME NEW s \in Tasks, pc'[s] = "parked"
          PROVE  \E i \in 1..Len(queue') : queue'[i] = s
      <3>1. s # t /\ pc[s] = "parked" /\ \A i \in 1..n : queue[i] # s
        BY <2>1, <2>4 DEF Handover
      <3>2. PICK i \in 1..Len(queue) : queue[i] = s
        BY <3>1 DEF LInv, Queued
      <3>3. i - n \in 1..(Len(queue) - n) /\ n + (i - n) = i
        BY <1>b, <2>3, <3>1, <3>2
      <3>4. /\ Len(queue') = Len(queue) - n
            /\ \A j \in 1..(Len(queue) - n) : queue'[j] = queue[n + j]
        BY <2>1 DEF Handover
      <3>5. queue'[i - n] = s /\ i - n \in 1..Len(queue')
        BY <3>2, <3>3, <3>4
      <3>. QED
        BY <3>5
    <2>5. CASE Owners = {t}
      <3>1. Owners' = {queue[i] : i \in 1..n}
        <4>1. \A i \in 1..n : queue[i] \in Tasks
          BY <1>b, <2>3
        <4>2. \A s \in Tasks : s # t => pc[s] \notin {"woken", "locked"}
          BY <2>5 DEF Owners
        <4>3. \A s \in Tasks : s \in Owners' <=> \E i \in 1..n : queue[i] = s
          <5>1. /\ pc'[t] = "idle" /\ pc[t] = "locked"
                /\ \A i \in 1..n : pc[queue[i]] = "parked" /\ pc'[queue[i]] = "woken"
            BY <2>1 DEF Handover
          <5>2. \A s \in Tasks : s # t =>
                  \/ pc'[s] = pc[s] /\ \A i \in 1..n : queue[i] # s
                  \/ pc[s] = "parked" /\ pc'[s] = "woken" /\ \E i \in 1..n : queue[i] = s
            BY <2>1 DEF Handover
          <5>. QED
            BY <4>2, <5>1, <5>2 DEF Owners
        <4>4. \A s \in Owners' : s \in Tasks
          BY DEF Owners
        <4>. QED
          BY <4>1, <4>3, <4>4
      <3>2. Len(queue') > 0 => Owners' # {}
        <4>1. Len(queue') > 0 => 1 \in 1..n
          BY <1>b, <2>1, <2>2, <2>3, <2>5 DEF Handover
        <4>. QED
          BY <3>1, <4>1
      <3>3. WriterAlone'
        <4>1. SUFFICES ASSUME NEW s \in Owners', NEW r \in Owners', s # r
                       PROVE  {kind'[s], kind'[r]} \cap Writers = {}
          BY DEF WriterAlone
        <4>2. PICK i \in 1..n, j \in 1..n : s = queue[i] /\ r = queue[j]
          BY <3>1
        <4>3. n > 1
          BY <2>3, <1>b, <4>1, <4>2
        <4>4. kind[s] \notin Writers /\ kind[r] \notin Writers
          BY <2>2, <2>5, <4>2, <4>3
        <4>5. s # t /\ r # t
          BY <2>1, <4>2 DEF Handover
        <4>. QED
          BY <1>b, <2>3, <4>4, <4>5
      <3>. QED
        BY <1>a, <2>4, <3>2, <3>3 DEF LInv, Queued
    <2>6. CASE Owners # {t}
      <3>1. n = 0
        BY <2>2, <2>6
      <3>2. \A s \in Tasks : s # t => pc'[s] = pc[s]
        BY <2>1, <3>1 DEF Handover
      <3>3. Owners' = Owners \ {t}
        BY <2>1, <3>2 DEF Handover, Owners
      <3>4. Owners' # {}
        BY <2>3, <2>6, <3>3
      <3>5. WriterAlone'
        BY <1>b, <2>3, <3>3 DEF LInv, WriterAlone
      <3>. QED
        BY <1>a, <2>4, <3>4, <3>5 DEF LInv, Queued
    <2>. QED
      BY <2>5, <2>6
  <1>7. CASE UNCHANGED dbVars
    BY <1>a, <1>7 DEF dbVars, LInv, Queued, WriterAlone, Owners
  <1>. QED
    BY <1>1, <1>2, <1>3, <1>4, <1>5, <1>6, <1>7 DEF DbNext, Step

LEMMA LockInvariance == DbSpec => []LInv
  <1>1. DbInit => LInv
    <2>1. SUFFICES ASSUME DbInit PROVE Queued /\ WriterAlone
      BY InitInv DEF LInv
    <2>2. Owners = {} /\ Len(queue) = 0
      BY <2>1 DEF DbInit, Owners
    <2>. QED
      BY <2>1, <2>2 DEF DbInit, Queued, WriterAlone
  <1>2. LInv /\ [DbNext]_dbVars => LInv'
    BY LockStep
  <1>. QED
    BY <1>1, <1>2, PTL DEF DbSpec

\* The RwLock of the ConnectionManager, as Lock and Unlock hand it over: register,
\* unregister and DELETE never have it together with any other task.
THEOREM LockExclusive == DbSpec => []WriterAlone
  BY LockInvariance, PTL DEF LInv

\* A task on a thread can go on (a blocked one by its timeout at least); one that
\* was spawned or woken can when a worker is free.
Runnable(t) == \/ pc[t] \in {"run", "wait", "hold", "locked"}
               \/ pc[t] \in {"ready", "woken"} /\ WorkerFree

\* While any task lives, some task can go on.
NoStandstill == (\E t \in Tasks : pc[t] # "idle") => \E t \in Tasks : Runnable(t)

\* However many tasks keep a connection while they await the ConnectionManager,
\* and however few the workers and connections: not everyone waits for everyone.
\* With pool.get() blocked in all workers the timeout is the step that is left.
THEOREM DeadlockFree == DbSpec => []NoStandstill
  <1>1. LInv => NoStandstill
    <2>1. SUFFICES ASSUME LInv, NEW t \in Tasks, pc[t] # "idle",
                          \A s \in Tasks : pc[s] \notin {"run", "wait", "hold", "locked"}
                   PROVE  \E s \in Tasks : Runnable(s)
      BY DEF NoStandstill, Runnable
    <2>2. WorkerFree
      <3>1. OnWorker = {}
        BY <2>1 DEF OnWorker
      <3>. QED
        BY <3>1, FS_EmptySet, PoolAssumption DEF WorkerFree
    <2>3. SUFFICES ASSUME \A s \in Tasks : pc[s] \notin {"ready", "woken"} PROVE FALSE
      BY <2>2 DEF Runnable
    <2>4. pc[t] = "parked"
      BY <2>1, <2>3 DEF LInv, IInv, DbTypeOK, Labels
    <2>5. Len(queue) \in Nat /\ Len(queue) > 0
      BY <2>1, <2>4 DEF LInv, IInv, DbTypeOK, Queued
    <2>6. PICK s \in Owners : TRUE
      BY <2>1, <2>5 DEF LInv, Queued
    <2>. QED
      BY <2>1, <2>3, <2>6 DEF Owners
  <1>. QED
    BY <1>1, LockInvariance, PTL

-----------------------------------------------------------------------------
(* The object store: the downloads of Updates. *)

\* METHOD 19 and METHOD 20 mean the same platform, and the manifest a running
\* METHOD 20 has read has an entry for it, maybe of a newer release; the bytes
\* so far are fewer than those of any file that may still be asked for.
Agreed ==
  client # Idle =>
    /\ client.platform = ChunkPlatform(platform)
    /\ client.release <= manifest
    /\ client.platform \in DOMAIN Sizes[client.release]
    /\ client.pc \in {"chunk", "range"} => Len(client.buffer) < MaxSize
    /\ client.pc = "range" => /\ client.entry \in Releases
                              /\ client.platform \in DOMAIN Sizes[client.entry]

\* A download that no publication and no error answer disturbed: it has the first
\* bytes of the file.  With chunk_size 0, where the range of the first chunk wraps
\* around, and from a store that does not know Range the first chunk is the whole
\* file; there is no second one.
Undisturbed ==
  client # Idle /\ client.quiet =>
    /\ manifest = client.release /\ binaries >= client.release
    /\ client.pc = "range" => client.entry = client.release
    /\ client.pc \in {"chunk", "range"} =>
         /\ Len(client.buffer) < Sizes[client.release][client.platform]
         /\ client.buffer = SubSeq(File(client.release, client.platform), 1, Len(client.buffer))
         /\ client.chunk = 0 \/ store = "whole" => Len(client.buffer) = 0
    /\ client.pc = "verify" => client.buffer = File(client.release, client.platform)

UInv == TypeOK /\ Agreed /\ Undisturbed

LEMMA UpdateNumbers ==
  /\ Len(Sizes) \in Nat /\ MaxSize \in Nat /\ MaxFault \in Nat /\ W \in Nat
  /\ MaxChunk \in Nat /\ 1 <= MaxChunk /\ 2 * MaxSize + MaxChunk < W
  /\ ChunkSizes \subseteq Nat /\ Default \in Platforms
  /\ Last = Len(Sizes) /\ Releases = 1..Len(Sizes)
  BY SizesAssumption, WidthAssumption DEF Last, Releases

LEMMA FileShape ==
  ASSUME NEW v \in Releases, NEW p \in DOMAIN Sizes[v]
  PROVE  /\ File(v, p) \in Seq(Byte) /\ Len(File(v, p)) = Sizes[v][p]
         /\ Sizes[v][p] \in 1..MaxSize /\ p \in Platforms
  <1>1. Sizes[v][p] \in 1..MaxSize /\ p \in Platforms
    BY SizesAssumption
  <1>2. \A i \in 1..Sizes[v][p] : <<v, p, i>> \in Byte
    BY DEF Byte
  <1>3. Sizes[v][p] \in Nat
    BY <1>1, UpdateNumbers
  <1>4. File(v, p) \in [1..Sizes[v][p] -> Byte]
    BY <1>2 DEF File
  <1>. QED
    BY <1>1, <1>3, <1>4

\* The body of an error answer is not longer than a file.
LEMMA ErrorShape ==
  ASSUME NEW data \in Errors
  PROVE  data \in Seq(Byte) /\ Len(data) \in Nat /\ Len(data) <= MaxSize
  <1>1. PICK n \in ErrorSizes : data = [i \in 1..n |-> Junk]
    BY DEF Errors
  <1>2. n \in Nat /\ n <= MaxSize
    BY ErrorAssumption, UpdateNumbers
  <1>3. data \in [1..n -> Byte]
    BY <1>1 DEF Byte
  <1>. QED
    BY <1>2, <1>3

\* The range METHOD 20 asks for, without the width of offsets: it wraps around
\* only for an empty first chunk.
LEMMA RangeEndExact ==
  ASSUME NEW o \in Nat, o < MaxSize, NEW c \in ChunkSizes, NEW n \in 1..MaxSize
  PROVE  /\ RangeEnd(o, c, n) \in Nat /\ RangeEnd(o, c, n) <= n - 1
         /\ c > 0 => \E k \in 1..MaxChunk : RangeEnd(o, c, n) = Min(o + k - 1, n - 1)
         /\ c = 0 /\ o = 0 => RangeEnd(o, c, n) = n - 1
  <1> DEFINE k == Min(c, MaxChunk)
  <1>1. /\ MaxSize \in Nat /\ W \in Nat /\ MaxChunk \in Nat /\ 1 <= MaxChunk
        /\ 2 * MaxSize + MaxChunk < W /\ c \in Nat
    BY UpdateNumbers
  <1>2. k \in 0..MaxChunk /\ (c > 0 => k >= 1) /\ (c = 0 => k = 0)
    BY <1>1 DEF Min
  <1>3. (n - 1) % W = n - 1
    BY <1>1
  <1>4. o + k - 1 >= 0 => (o + k - 1) % W = o + k - 1
    BY <1>1, <1>2
  <1>5. o + k - 1 < 0 => (o + k - 1) % W = W - 1
    <2>1. SUFFICES ASSUME o + k - 1 < 0 PROVE (o + k - 1) % W = W - 1
      OBVIOUS
    <2>2. o + k - 1 = -1
      BY <1>2, <2>1
    <2>. QED
      BY <1>1, <2>2
  <1>6. RangeEnd(o, c, n) = IF (o + k - 1) % W <= n - 1 THEN (o + k - 1) % W ELSE n - 1
    BY <1>3 DEF RangeEnd, Min
  <1>. HIDE DEF k
  <1>7. /\ RangeEnd(o, c, n) \in Nat /\ RangeEnd(o, c, n) <= n - 1
        /\ c > 0 => RangeEnd(o, c, n) = Min(o + k - 1, n - 1)
        /\ c = 0 /\ o = 0 => RangeEnd(o, c, n) = n - 1
    BY <1>1, <1>2, <1>4, <1>5, <1>6 DEF Min
  <1>8. c > 0 => k \in 1..MaxChunk
    BY <1>1, <1>2
  <1>. QED
    BY <1>7, <1>8

\* What the store may send back is never more than a file.
LEMMA AnswerShape ==
  ASSUME binaries \in Int, NEW v \in Releases, NEW p \in DOMAIN Sizes[v],
         NEW o \in Nat, o < MaxSize, NEW c \in ChunkSizes,
         NEW data \in RangeGet(v, p, o, RangeEnd(o, c, Sizes[v][p]))
  PROVE  data \in Seq(Byte) /\ Len(data) <= MaxSize
  <1> DEFINE n == Sizes[v][p]
             e == RangeEnd(o, c, n)
  <1>1. /\ File(v, p) \in Seq(Byte) /\ Len(File(v, p)) = n /\ n \in 1..MaxSize
        /\ MaxSize \in Nat
    BY FileShape, UpdateNumbers
  <1>2. e \in Nat /\ e <= n - 1
    BY <1>1, RangeEndExact
  <1>. HIDE DEF e, n
  <1>3. \/ data \in Errors
        \/ data = File(v, p)
        \/ e >= o /\ o < n /\ data = SubSeq(File(v, p), o + 1, e + 1)
    BY <1>1, <1>2 DEF RangeGet, Min, e, n
  <1>4. CASE data \in Errors
    BY <1>4, ErrorShape
  <1>5. CASE data = File(v, p)
    BY <1>1, <1>5
  <1>6. CASE e >= o /\ o < n /\ data = SubSeq(File(v, p), o + 1, e + 1)
    <2>1. /\ data \in Seq(Byte) /\ Len(data) = (e + 1) - o
      BY <1>1, <1>2, <1>6
    <2>. QED
      BY <1>1, <1>2, <2>1
  <1>. QED
    BY <1>3, <1>4, <1>5, <1>6

\* A piece of a sequence continues what lies before it.
LEMMA PieceContinues ==
  ASSUME NEW S, NEW f \in Seq(S), NEW o \in Nat, NEW e \in Nat, o <= e, e < Len(f)
  PROVE  /\ SubSeq(f, o + 1, e + 1) \in Seq(S)
         /\ Len(SubSeq(f, o + 1, e + 1)) = (e + 1) - o
         /\ SubSeq(f, 1, o) \o SubSeq(f, o + 1, e + 1) = SubSeq(f, 1, e + 1)
  OBVIOUS

\* A chunk of a file that is in the store, asked for behind the bytes the client
\* has: with it the client has the file up to the end of the chunk.
LEMMA AnswerContinues ==
  ASSUME binaries \in Int, NEW v \in Releases, v <= binaries,
         NEW p \in DOMAIN Sizes[v],
         NEW o \in Nat, o < Sizes[v][p], NEW c \in ChunkSizes,
         c = 0 \/ store = "whole" => o = 0,
         NEW data \in RangeGet(v, p, o, RangeEnd(o, c, Sizes[v][p]))
  PROVE  /\ data \in Seq(Byte) /\ Len(data) >= 1 /\ o + Len(data) <= Sizes[v][p]
         /\ c = 0 \/ store = "whole" => o + Len(data) = Sizes[v][p]
         /\ SubSeq(File(v, p), 1, o) \o data = SubSeq(File(v, p), 1, o + Len(data))
  <1> DEFINE n == Sizes[v][p]
             e == RangeEnd(o, c, n)
             f == File(v, p)
  <1>1. /\ f \in Seq(Byte) /\ Len(f) = n /\ n \in 1..MaxSize
        /\ MaxSize \in Nat /\ MaxChunk \in Nat /\ 1 <= MaxChunk /\ c \in Nat
        /\ v \in Int /\ o < MaxSize
    BY FileShape, UpdateNumbers
  <1>2. /\ e \in Nat /\ e <= n - 1 /\ (c = 0 => e = n - 1)
        /\ c > 0 => \E k \in 1..MaxChunk : e = Min(o + k - 1, n - 1)
    BY <1>1, RangeEndExact
  <1>. HIDE DEF e, n, f
  <1>3. e >= o
    BY <1>1, <1>2 DEF n, Min
  <1>4. CASE store = "whole"
    <2>1. data = f /\ o = 0
      BY <1>1, <1>4 DEF RangeGet, f
    <2>2. SubSeq(f, 1, 0) \o data = SubSeq(f, 1, Len(data))
      BY <1>1, <2>1
    <2>. QED
      BY <1>1, <2>1, <2>2 DEF n, f
  <1>5. CASE store # "whole"
    <2>1. data = SubSeq(f, o + 1, e + 1)
      BY <1>1, <1>2, <1>3, <1>5 DEF RangeGet, Min, e, n, f
    <2>2. o <= e /\ e < Len(f)
      BY <1>1, <1>2, <1>3
    <2>3. /\ data \in Seq(Byte) /\ Len(data) = (e + 1) - o
          /\ SubSeq(f, 1, o) \o data = SubSeq(f, 1, e + 1)
      <3>1. f \in Seq(Byte) /\ o \in Nat /\ e \in Nat
        BY <1>1, <1>2
      <3>2. /\ SubSeq(f, o + 1, e + 1) \in Seq(Byte)
            /\ Len(SubSeq(f, o + 1, e + 1)) = (e + 1) - o
            /\ SubSeq(f, 1, o) \o SubSeq(f, o + 1, e + 1) = SubSeq(f, 1, e + 1)
        BY <2>2, <3>1, PieceContinues, ZenonT(20)
      <3>. QED
        BY <2>1, <3>2, Zenon
    <2>4. o + Len(data) = e + 1 /\ Len(data) >= 1
      BY <1>2, <1>3, <2>3
    <2>5. /\ o + Len(data) <= n /\ (c = 0 => o + Len(data) = n)
          /\ SubSeq(f, 1, o) \o data = SubSeq(f, 1, o + Len(data))
      BY <1>1, <1>2, <2>3, <2>4
    <2>. QED
      BY <1>5, <2>3, <2>4, <2>5 DEF n, f
  <1>. QED
    BY <1>4, <1>5

\* is_last, without the width of offsets.
LEMMA IsLastExact ==
  ASSUME NEW o \in Nat, o < MaxSize, NEW m \in Nat, m <= MaxSize, NEW n
  PROVE  IsLast(o, m, n) <=> o + m >= n
  <1>1. (o + m) % W = o + m
    BY UpdateNumbers
  <1>. QED
    BY <1>1 DEF IsLast

\* The fields of a download.
LEMMA TransferShape ==
  ASSUME TypeOK, client # Idle
  PROVE  /\ client \in Transfer
         /\ client.pc \in {"chunk", "range", "verify"} /\ client.release \in Releases
         /\ client.entry \in 0..Last /\ client.platform \in Platforms
         /\ client.chunk \in ChunkSizes /\ client.buffer \in Seq(Byte)
         /\ client.quiet \in BOOLEAN /\ Len(client.buffer) \in Nat
         /\ Len(client.buffer) < 2 * MaxSize
  <1>1. client \in Transfer /\ Len(client.buffer) < 2 * MaxSize
    BY DEF TypeOK
  <1>2. /\ client.pc \in {"chunk", "range", "verify"} /\ client.release \in Releases
        /\ client.entry \in 0..Last /\ client.platform \in Platforms
        /\ client.chunk \in ChunkSizes /\ client.buffer \in Seq(Byte)
    BY <1>1 DEF Transfer
  <1>3. client.quiet \in BOOLEAN
    BY <1>1 DEF Transfer
  <1>4. Len(client.buffer) \in Nat
    BY <1>2
  <1>. QED
    BY <1>1, <1>2, <1>3, <1>4

\* A download is one again when some of its fields are written.
LEMMA TransferChanged ==
  ASSUME TypeOK, client # Idle
  PROVE  /\ [client EXCEPT !.quiet = FALSE] \in Transfer
         /\ \A v \in 0..Last : [client EXCEPT !.pc = "range", !.entry = v] \in Transfer
         /\ \A q \in {"chunk", "verify"}, b \in Seq(Byte) :
              [client EXCEPT !.pc = q, !.entry = 0, !.buffer = b] \in Transfer
  <1>1. client \in Transfer /\ 0 \in 0..Last
    BY TransferShape, UpdateNumbers
  <1>2. [client EXCEPT !.quiet = FALSE] \in Transfer
    BY <1>1 DEF Transfer
  <1>3. \A v \in 0..Last : [client EXCEPT !.pc = "range", !.entry = v] \in Transfer
    BY <1>1 DEF Transfer
  <1>4. \A q \in {"chunk", "verify"}, b \in Seq(Byte) :
          [client EXCEPT !.pc = q, !.entry = 0, !.buffer = b] \in Transfer
    BY <1>1 DEF Transfer
  <1>. QED
    BY <1>2, <1>3, <1>4

\* What an answer of METHOD 20 makes of a download, whatever its data.
LEMMA ReceivedShape ==
  ASSUME TypeOK, Agreed, client # Idle, client.pc = "range",
         NEW data \in Seq(Byte), Len(data) \in Nat, Len(data) <= MaxSize
  PROVE  /\ Received(data) \in Transfer /\ Received(data).quiet = client.quiet
         /\ Received(data).pc = (IF Len(client.buffer) + Len(data)
                                       >= Sizes[client.entry][client.platform]
                                  THEN "verify" ELSE "chunk")
         /\ Received(data).release = client.release
         /\ Received(data).platform = client.platform
         /\ Received(data).chunk = client.chunk
         /\ Received(data).buffer = client.buffer \o data
         /\ Len(client.buffer \o data) = Len(client.buffer) + Len(data)
         /\ Len(client.buffer \o data) < 2 * MaxSize
         /\ Received(data).pc = "chunk" => Len(client.buffer \o data) < MaxSize
  <1> DEFINE o == Len(client.buffer)
             n == Sizes[client.entry][client.platform]
  <1>1. /\ client \in Transfer /\ o \in Nat /\ client.buffer \in Seq(Byte) /\ o < MaxSize
        /\ n \in 1..MaxSize /\ client.platform = ChunkPlatform(platform)
        /\ MaxSize \in Nat
    BY TransferShape, FileShape, UpdateNumbers DEF Agreed
  <1>2. IsLast(o, Len(data), n) <=> o + Len(data) >= n
    BY <1>1, IsLastExact
  <1>3. client.buffer \o data \in Seq(Byte) /\ Len(client.buffer \o data) = o + Len(data)
    BY <1>1
  <1>4. Received(data) = [client EXCEPT !.pc = IF o + Len(data) >= n THEN "verify" ELSE "chunk",
                                        !.entry = 0, !.buffer = client.buffer \o data]
    BY <1>1, <1>2 DEF Received, Offset, Total
  <1>. HIDE DEF o, n
  <1>5. Received(data) \in Transfer
    <2> DEFINE q == IF o + Len(data) >= n THEN "verify" ELSE "chunk"
               b == client.buffer \o data
    <2>1. q \in {"chunk", "verify"} /\ b \in Seq(Byte)
      BY <1>3
    <2>2. Received(data) = [client EXCEPT !.pc = q, !.entry = 0, !.buffer = b]
      BY <1>4
    <2>. HIDE DEF q, b
    <2>3. [client EXCEPT !.pc = q, !.entry = 0, !.buffer = b] \in Transfer
      BY <2>1, TransferChanged
    <2>. QED
      BY <2>2, <2>3, Zenon
  <1>6. Received(data).quiet = client.quiet
    BY <1>1, <1>4 DEF Transfer
  <1>7. /\ Received(data).pc = (IF o + Len(data) >= n THEN "verify" ELSE "chunk")
        /\ Received(data).release = client.release
        /\ Received(data).platform = client.platform
        /\ Received(data).chunk = client.chunk
        /\ Received(data).buffer = client.buffer \o data
    BY <1>1, <1>4 DEF Transfer
  <1>8. /\ o + Len(data) < 2 * MaxSize
        /\ ~(o + Len(data) >= n) => o + Len(data) < MaxSize
    BY <1>1
  <1>9. Received(data).pc = "chunk" => o + Len(data) < MaxSize
    BY <1>7, <1>8
  <1>. QED
    BY <1>3, <1>5, <1>6, <1>7, <1>8, <1>9 DEF o, n

-----------------------------------------------------------------------------
\* A step of the pipeline or the end of a download leaves nothing to show.
LEMMA NoTransfer ==
  ASSUME TypeOK', client' = Idle
  PROVE  UInv'
  BY DEF UInv, Agreed, Undisturbed

LEMMA UpdatesNext ==
  ASSUME UInv, [Next]_vars
  PROVE  UInv'
  <1>0. TypeOK /\ Agreed /\ Undisturbed
    BY DEF UInv
  <1>. USE UpdateNumbers
  <1>1. ASSUME PublishManifest PROVE UInv'
    <2>1. /\ manifest < Last /\ manifest' = manifest + 1 /\ manifest \in Nat
          /\ UNCHANGED <<binaries, store, platform, installed, faults>>
      BY <1>0, <1>1 DEF PublishManifest, TypeOK
    <2>2. CASE client = Idle
      <3>1. client' = Idle
        BY <1>1, <2>2 DEF PublishManifest
      <3>2. TypeOK'
        BY <1>0, <2>1, <3>1 DEF TypeOK
      <3>. QED
        BY <3>1, <3>2, NoTransfer
    <2>3. CASE client # Idle
      <3>1. client \in Transfer
        BY <1>0, <2>3, TransferShape
      <3>2. client' = [client EXCEPT !.quiet = FALSE]
        BY <1>1, <2>3 DEF PublishManifest
      <3>3. /\ client' \in Transfer /\ client'.quiet = FALSE
            /\ client'.pc = client.pc /\ client'.release = client.release
            /\ client'.entry = client.entry /\ client'.platform = client.platform
            /\ client'.buffer = client.buffer
        BY <3>1, <3>2 DEF Transfer
      <3>4. TypeOK'
        BY <1>0, <2>1, <2>3, <3>3 DEF TypeOK
      <3>5. client.release \in Nat
        BY <3>1 DEF Transfer
      <3>6. Agreed'
        BY <1>0, <2>1, <2>3, <3>3, <3>5 DEF Agreed, ChunkPlatform
      <3>7. Undisturbed'
        BY <3>3 DEF Undisturbed
      <3>. QED
        BY <3>4, <3>6, <3>7 DEF UInv
    <2>. QED
      BY <2>2, <2>3
  <1>2. ASSUME PublishBinaries PROVE UInv'
    <2>1. /\ binaries < Last /\ binaries' = binaries + 1 /\ binaries \in Nat
          /\ UNCHANGED <<manifest, store, platform, installed, client, faults>>
      BY <1>0, <1>2 DEF PublishBinaries, TypeOK
    <2>2. TypeOK'
      BY <1>0, <2>1 DEF TypeOK
    <2>3. Agreed'
      BY <1>0, <2>1 DEF Agreed, ChunkPlatform
    <2>4. Undisturbed'
      <3>1. client # Idle => client.release \in Nat
        BY <1>0, TransferShape
      <3>. QED
        <4>1. client # Idle /\ binaries >= client.release => binaries' >= client.release
          BY <2>1, <3>1
        <4>. QED
          BY <1>0, <2>1, <4>1 DEF Undisturbed, File
    <2>. QED
      BY <2>2, <2>3, <2>4 DEF UInv
  <1>3. ASSUME NEW f, NEW g, NEW c \in ChunkSizes, GetUpdateManifest(f, g, c),
               \/ f = platform /\ g = Empty
               \/ f = Empty /\ g = platform
        PROVE  UInv'
    <2> DEFINE p == ManifestPlatform(f, g)
    <2>1. p = ChunkPlatform(platform)
      BY <1>3 DEF ManifestPlatform, ChunkPlatform
    <2>. HIDE DEF p
    <2>2. /\ manifest > installed /\ p \in DOMAIN Sizes[manifest]
          /\ client' = [pc |-> "chunk", release |-> manifest, entry |-> 0, platform |-> p,
                        chunk |-> c, buffer |-> <<>>, quiet |-> binaries >= manifest]
          /\ UNCHANGED <<manifest, binaries, store, platform, installed, faults>>
      BY <1>3 DEF GetUpdateManifest, p
    <2>3. manifest \in Releases /\ manifest \in Nat
      BY <1>0, <2>2 DEF TypeOK
    <2>4. p \in Platforms /\ Sizes[manifest][p] \in 1..MaxSize
      BY <2>2, <2>3, FileShape
    <2>5. /\ client'.pc = "chunk" /\ client'.release = manifest /\ client'.platform = p
          /\ client'.buffer = <<>> /\ Len(client'.buffer) = 0
      BY <2>2
    <2>6. client' \in Transfer
      BY <2>2, <2>3, <2>4 DEF Transfer
    <2>7. TypeOK'
      BY <1>0, <2>2, <2>4, <2>5, <2>6 DEF TypeOK
    <2>8. Agreed'
      BY <2>1, <2>2, <2>3, <2>4, <2>5 DEF Agreed, ChunkPlatform
    <2>9. Undisturbed'
      <3>1. SubSeq(File(manifest, p), 1, 0) = <<>>
        BY SubSeqEmpty
      <3>2. client'.quiet => binaries >= manifest
        BY <2>2
      <3>3. 0 < Sizes[manifest][p]
        BY <2>4
      <3>. QED
        BY <2>2, <2>5, <3>1, <3>2, <3>3 DEF Undisturbed, File
    <2>. QED
      BY <2>7, <2>8, <2>9 DEF UInv
  <1>4. ASSUME ChunkManifest PROVE UInv'
    <2>1. /\ client # Idle /\ client.pc = "chunk"
          /\ UNCHANGED <<manifest, binaries, store, platform, installed, faults>>
      BY <1>4 DEF ChunkManifest
    <2>2. /\ client \in Transfer /\ client.release \in Releases /\ client.release \in Nat
          /\ manifest \in Nat
      BY <1>0, <2>1, TransferShape DEF TypeOK
    <2>3. CASE ChunkPlatform(platform) \in DOMAIN Sizes[manifest]
      <3>1. client' = [client EXCEPT !.pc = "range", !.entry = manifest]
        BY <1>4, <2>3 DEF ChunkManifest
      <3>2. manifest \in Releases /\ manifest \in 0..Last
        BY <1>0, <2>1, <2>2 DEF Agreed, TypeOK
      <3>3. /\ client' \in Transfer /\ client'.pc = "range" /\ client'.entry = manifest
            /\ client'.release = client.release /\ client'.platform = client.platform
            /\ client'.buffer = client.buffer /\ client'.quiet = client.quiet
            /\ client'.chunk = client.chunk
        BY <2>2, <3>1, <3>2 DEF Transfer
      <3>4. TypeOK'
        BY <1>0, <2>1, <3>3 DEF TypeOK
      <3>5. Agreed'
        BY <1>0, <2>1, <2>3, <3>2, <3>3 DEF Agreed, ChunkPlatform
      <3>6. Undisturbed'
        BY <1>0, <2>1, <3>3 DEF Undisturbed, File
      <3>. QED
        BY <3>4, <3>5, <3>6 DEF UInv
    <2>4. CASE ChunkPlatform(platform) \notin DOMAIN Sizes[manifest]
      <3>1. client' = Idle
        BY <1>4, <2>4 DEF ChunkManifest
      <3>2. TypeOK'
        BY <1>0, <2>1, <3>1 DEF TypeOK
      <3>. QED
        BY <3>1, <3>2, NoTransfer
    <2>. QED
      BY <2>3, <2>4
  <1>5. ASSUME ChunkRange PROVE UInv'
    <2> DEFINE v == client.entry
               p == client.platform
               o == Len(client.buffer)
               c == client.chunk
    <2>1. /\ client # Idle /\ client.pc = "range"
          /\ UNCHANGED <<manifest, binaries, store, platform, installed, faults>>
      BY <1>5 DEF ChunkRange
    <2>2. /\ client \in Transfer /\ o \in Nat /\ c \in ChunkSizes /\ client.release \in Nat
          /\ client.release \in Releases /\ client.buffer \in Seq(Byte)
      BY <1>0, <2>1, TransferShape
    <2>3. /\ v \in Releases /\ p \in DOMAIN Sizes[v] /\ p = ChunkPlatform(platform)
          /\ o < MaxSize /\ binaries \in Int /\ p \in DOMAIN Sizes[client.release]
      BY <1>0, <2>1 DEF Agreed, TypeOK
    <2>4. PICK data \in RangeGet(v, p, o, RangeEnd(o, c, Sizes[v][p])) :
            client' = Received(data)
      BY <1>5, <2>3 DEF ChunkRange, Answers, Offset, Total
    <2>5. data \in Seq(Byte) /\ Len(data) \in Nat /\ Len(data) <= MaxSize
      <3>1. data \in Seq(Byte) /\ Len(data) <= MaxSize
        <4>. HIDE UpdateNumbers
        <4>. HIDE DEF v, p, o, c
        <4>. QED
          BY <2>2, <2>3, AnswerShape
      <3>. QED
        BY <3>1
    <2>6. Sizes[v][p] \in 1..MaxSize
      BY <2>3, FileShape
    <2>7. client' \in Transfer /\ client'.quiet = client.quiet
      BY <1>0, <2>1, <2>4, <2>5, ReceivedShape
    <2>8. /\ client'.pc = (IF o + Len(data) >= Sizes[v][p] THEN "verify" ELSE "chunk")
           /\ client'.release = client.release /\ client'.platform = p
           /\ client'.buffer = client.buffer \o data /\ client'.chunk = c
           /\ Len(client.buffer \o data) = o + Len(data)
      BY <1>0, <2>1, <2>4, <2>5, ReceivedShape
    <2>. HIDE DEF v, p, o, c
    <2>9. TypeOK'
      <3>1. Len(client'.buffer) < 2 * MaxSize
        BY <2>2, <2>3, <2>5, <2>8
      <3>. QED
        BY <1>0, <2>1, <2>7, <3>1 DEF TypeOK
    <2>10. Agreed'
      <3>1. client'.pc \in {"chunk", "range"} => o + Len(data) < MaxSize
        BY <2>2, <2>5, <2>6, <2>8
      <3>2. client.release <= manifest
        BY <1>0, <2>1 DEF Agreed
      <3>. QED
        BY <2>1, <2>3, <2>8, <3>1, <3>2 DEF Agreed, ChunkPlatform
    <2>11. ASSUME client.quiet PROVE Undisturbed'
      <3> DEFINE f == File(v, p)
      <3>1. /\ manifest = client.release /\ binaries >= client.release /\ v = client.release
            /\ o < Sizes[v][p] /\ client.buffer = SubSeq(f, 1, o) 
            /\ (c = 0 \/ store = "whole" => o = 0)
        BY <1>0, <2>1, <2>11 DEF Undisturbed, v, p, o, c
      <3>2. /\ v \in Releases /\ v <= binaries /\ binaries \in Int /\ p \in DOMAIN Sizes[v]
            /\ o \in Nat /\ o < Sizes[v][p] /\ c \in ChunkSizes
            /\ (c = 0 \/ store = "whole" => o = 0)
        BY <2>2, <2>3, <3>1
      <3>3. /\ Len(data) >= 1 /\ o + Len(data) <= Sizes[v][p]
            /\ c = 0 \/ store = "whole" => o + Len(data) = Sizes[v][p]
            /\ SubSeq(f, 1, o) \o data = SubSeq(f, 1, o + Len(data))
        <4>. HIDE UpdateNumbers
        <4>. QED
          BY <3>2, AnswerContinues
      <3>4. f \in Seq(Byte) /\ Len(f) = Sizes[v][p]
        BY <2>3, FileShape
      <3>. HIDE DEF f
      <3>5. CASE o + Len(data) >= Sizes[v][p]
        <4>1. o + Len(data) = Len(f)
          <5>1. /\ o \in Nat /\ Len(data) \in Nat /\ Sizes[v][p] \in Nat
                /\ o + Len(data) <= Sizes[v][p] /\ o + Len(data) >= Sizes[v][p]
            BY <2>2, <2>5, <2>6, <3>3, <3>5
          <5>. QED
            BY <3>4, <5>1
        <4>2. client'.pc = "verify" /\ client'.buffer = f
          BY <2>8, <3>1, <3>3, <3>4, <3>5, <4>1, SubSeqFull
        <4>. QED
          BY <2>1, <2>8, <3>1, <4>2 DEF Undisturbed, File, f
      <3>6. CASE ~(o + Len(data) >= Sizes[v][p])
        <4>1. client'.pc = "chunk" /\ c # 0 /\ store # "whole" /\ o + Len(data) < Sizes[v][p]
          BY <2>2, <2>5, <2>6, <2>8, <3>3, <3>6
        <4>2. /\ Len(client'.buffer) = o + Len(data)
              /\ client'.buffer = SubSeq(f, 1, Len(client'.buffer))
          BY <2>8, <3>1, <3>3
        <4>. QED
          BY <2>1, <2>8, <3>1, <4>1, <4>2 DEF Undisturbed, File, f
      <3>. QED
        BY <3>5, <3>6
    <2>12. Undisturbed'
      BY <2>7, <2>11 DEF Undisturbed
    <2>. QED
      BY <2>9, <2>10, <2>12 DEF UInv
  <1>6. ASSUME ChunkError PROVE UInv'
    <2>1. /\ client # Idle /\ client.pc = "range" /\ faults < MaxFault /\ faults' = faults + 1
          /\ UNCHANGED <<manifest, binaries, store, platform, installed>>
      BY <1>6 DEF ChunkError
    <2>2. PICK data \in Errors : client' = [Received(data) EXCEPT !.quiet = FALSE]
      BY <1>6 DEF ChunkError
    <2>3. data \in Seq(Byte) /\ Len(data) \in Nat /\ Len(data) <= MaxSize
      BY ErrorShape
    <2> DEFINE d == Received(data)
    <2>4. /\ d \in Transfer /\ d.release = client.release /\ d.platform = client.platform
          /\ d.pc \in {"chunk", "verify"}
          /\ Len(d.buffer) < 2 * MaxSize /\ (d.pc = "chunk" => Len(d.buffer) < MaxSize)
      BY <1>0, <2>1, <2>3, ReceivedShape
    <2>. HIDE DEF d
    <2>5. client' \in Transfer /\ client'.quiet = FALSE
      BY <2>2, <2>4 DEF Transfer, d
    <2>6. /\ client'.pc = d.pc /\ client'.release = client.release
          /\ client'.platform = client.platform /\ client'.buffer = d.buffer
      BY <2>2, <2>4 DEF Transfer, d
    <2>7. TypeOK'
      BY <1>0, <2>1, <2>4, <2>5, <2>6 DEF TypeOK
    <2>8. Agreed'
      BY <1>0, <2>1, <2>4, <2>6 DEF Agreed, ChunkPlatform
    <2>9. Undisturbed'
      BY <2>5 DEF Undisturbed
    <2>. QED
      BY <2>7, <2>8, <2>9 DEF UInv
  <1>7. ASSUME Verify PROVE UInv'
    <2>1. /\ client # Idle /\ client' = Idle
          /\ UNCHANGED <<manifest, binaries, store, platform, faults>>
          /\ installed' \in {installed, client.release}
      BY <1>7 DEF Verify
    <2>2. TypeOK'
      BY <1>0, <2>1, TransferShape DEF TypeOK
    <2>. QED
      BY <2>1, <2>2, NoTransfer
  <1>8. ASSUME Fail PROVE UInv'
    <2>1. /\ faults < MaxFault /\ faults' = faults + 1 /\ client' = Idle
          /\ UNCHANGED <<manifest, binaries, store, platform, installed>>
      BY <1>8 DEF Fail
    <2>2. TypeOK'
      BY <1>0, <2>1 DEF TypeOK
    <2>. QED
      BY <2>1, <2>2, NoTransfer
  <1>9. CASE UNCHANGED vars
    BY <1>0, <1>9 DEF vars, UInv, TypeOK, Agreed, Undisturbed, ChunkPlatform, File
  <1>. QED
    BY <1>1, <1>2, <1>3, <1>4, <1>5, <1>6, <1>7, <1>8, <1>9 DEF Next, Download, Ask

LEMMA UpdatesInvariance == Spec => []UInv
  <1>1. Init => UInv
    <2>1. SUFFICES ASSUME Init PROVE UInv
      OBVIOUS
    <2>2. TypeOK /\ client = Idle
      BY <2>1, UpdateNumbers DEF Init, TypeOK
    <2>. QED
      BY <2>2 DEF UInv, Agreed, Undisturbed
  <1>2. UInv /\ [Next]_vars => UInv'
    BY UpdatesNext
  <1>. QED
    BY <1>1, <1>2, PTL DEF Spec

\* The state of the store and of a download keep their types, however releases
\* and failures come in between: the bytes a client collects are fewer than two
\* files.
THEOREM UpdatesTypeCorrect == Spec => []TypeOK
  <1>1. UInv => TypeOK
    BY DEF UInv
  <1>. QED
    BY <1>1, UpdatesInvariance, PTL

\* get_update_chunk, asked again and again: a download during which nothing was
\* published and no range was answered with an error ends with exactly the file
\* METHOD 19 announced, for every size of the file and of the chunks, and from a
\* store with or without Range.
THEOREM DownloadsIntact == Spec => []Intact
  <1>1. UInv => Intact
    BY DEF UInv, Undisturbed, Intact
  <1>. QED
    BY <1>1, UpdatesInvariance, PTL
=============================================================================
