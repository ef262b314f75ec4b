------------------------------- MODULE DbPool -------------------------------
(***************************************************************************)
(* The database pool and the threads that wait for it.  Handlers run on    *)
(* the worker threads of the runtime and take their connection with a call *)
(* that blocks the thread (establish_connection), for at most the timeout  *)
(* of the pool.  CONTACT, RESPOND and DELETE keep the connection while     *)
(* they await the lock of the ConnectionManager; the tasks of sockets and  *)
(* pushes await this lock without a connection; the session check of a     *)
(* socket (verify_session_token) blocks a thread of its own.               *)
(*                                                                         *)
(* A task that waits for the lock gives its worker back, but not its       *)
(* connection: the workers may all be blocked by tasks that wait for the   *)
(* connections of tasks that wait for a worker.                            *)
(***************************************************************************)
EXTENDS Integers, Sequences, FiniteSets

CONSTANTS Tasks,              \* slots for tasks alive at the same time
          Arrivals,           \* kinds of tasks that arrive
          Workers,            \* number of worker threads
          Size                \* max_size of the pool

ASSUME TasksAssumption == IsFiniteSet(Tasks)
ASSUME PoolAssumption == Workers \in Nat \ {0} /\ Size \in Nat \ {0}

\* "query": a handler that only uses the database; "notify" (CONTACT, RESPOND)
\* and "delete": handlers that then await the ConnectionManager; "push" and
\* "socket" (register, unregister): tasks that only await it; "auth": a session
\* check on its own thread.
Kinds == {"query", "notify", "delete", "push", "socket", "auth"}

\* Kinds that keep a connection while they await the lock, and kinds that take
\* it for writing.
Keepers == {"notify", "delete"}
Writers == {"delete", "socket"}

ASSUME ArrivalsAssumption == Arrivals \subseteq Kinds

VARIABLES
  kind,   \* kind[t]: what the task in slot t does
  pc,     \* pc[t]: how far it is
  free,   \* idle connections of the pool
  queue   \* the tasks that await the ConnectionManager's RwLock, in order

dbVars == <<kind, pc, free, queue>>

\* "ready": spawned or woken, waits for a worker; "run": on a thread;
\* "wait": blocked in pool.get(); "hold": has a connection;
\* "parked": awaits the lock; "woken": was given it, waits for a worker;
\* "locked": in the section of the lock.
Labels == {"idle", "ready", "run", "wait", "hold", "parked", "woken", "locked"}

DbTypeOK == /\ kind \in [Tasks -> Kinds \cup {"none"}]
            /\ pc \in [Tasks -> Labels]
            /\ free \in 0..Size
            /\ queue \in Seq(Tasks)

DbInit == /\ kind = [t \in Tasks |-> "none"]
          /\ pc = [t \in Tasks |-> "idle"]
          /\ free = Size
          /\ queue = <<>>

Move(t, label) == pc' = [pc EXCEPT ![t] = label] /\ UNCHANGED kind
End(t) == pc' = [pc EXCEPT ![t] = "idle"] /\ kind' = [kind EXCEPT ![t] = "none"]

\* Tasks that occupy a worker: a blocked one does so too.
OnWorker == {t \in Tasks : kind[t] # "auth" /\ pc[t] \in {"run", "wait", "hold", "locked"}}

\* Tasks that have a connection.
Holders == {t \in Tasks : \/ pc[t] = "hold"
                          \/ kind[t] \in Keepers /\ pc[t] \in {"parked", "woken", "locked"}}

\* Tasks that have the lock.
Owners == {t \in Tasks : pc[t] \in {"woken", "locked"}}

WorkerFree == Cardinality(OnWorker) < Workers

-----------------------------------------------------------------------------
\* A request or a connection arrives.
Spawn(t, k) ==
  /\ pc[t] = "idle"
  /\ kind' = [kind EXCEPT ![t] = k]
  /\ pc' = [pc EXCEPT ![t] = IF k = "auth" THEN "run" ELSE "ready"]
  /\ UNCHANGED <<free, queue>>

\* A free worker polls a task.
Poll(t) ==
  /\ pc[t] \in {"ready", "woken"}
  /\ WorkerFree
  /\ Move(t, IF pc[t] = "ready" THEN "run" ELSE "locked")
  /\ UNCHANGED <<free, queue>>

\* Mutant: a connection is taken without looking.
GetBlindly(t) ==
  /\ pc[t] = "run" /\ kind[t] \notin {"push", "socket"}
  /\ free' = free - 1 /\ Move(t, "hold")
  /\ UNCHANGED queue

\* pool.get(): an idle connection, or the thread blocks.
Get(t) ==
  /\ pc[t] = "run" /\ kind[t] \notin {"push", "socket"}
  /\ IF free > 0 THEN free' = free - 1 /\ Move(t, "hold")
     ELSE Move(t, "wait") /\ UNCHANGED free
  /\ UNCHANGED queue

\* A connection came back: a blocked thread takes it.
GetLater(t) ==
  /\ pc[t] = "wait" /\ free > 0
  /\ free' = free - 1
  /\ Move(t, "hold")
  /\ UNCHANGED queue

\* Mutant: pool.get() has no timeout, the thread goes on waiting.
WaitsOn(t) == pc[t] = "wait" /\ UNCHANGED dbVars

\* connection_timeout: establish_connection panics (the session check answers
\* false); the task ends and its thread is free.
Timeout(t) ==
  /\ pc[t] = "wait"
  /\ End(t)
  /\ UNCHANGED <<free, queue>>

\* The handler returns: the connection is dropped and with it given back.
Return(t) ==
  /\ pc[t] = "hold" /\ kind[t] \notin Keepers
  /\ free' = free + 1
  /\ End(t)
  /\ UNCHANGED queue

\* send_to_user (read), register and unregister (write): the lock, or a place in
\* its queue, behind which new readers wait too, and the worker is given back.
Lock(t) ==
  /\ \/ pc[t] = "hold" /\ kind[t] \in Keepers
     \/ pc[t] = "run" /\ kind[t] \in {"push", "socket"}
  /\ IF queue = <<>> /\ \A s \in Owners : {kind[s], kind[t]} \cap Writers = {}
     THEN Move(t, "locked") /\ UNCHANGED queue
     ELSE Move(t, "parked") /\ queue' = Append(queue, t)
  /\ UNCHANGED free

\* How many waiters get the lock when its last owner leaves: one writer, or the
\* readers up to the next writer.
Granted == IF queue = <<>> THEN 0
           ELSE IF kind[queue[1]] \in Writers THEN 1
           ELSE CHOOSE n \in 1..Len(queue) :
                  /\ \A i \in 1..n : kind[queue[i]] \notin Writers
                  /\ n < Len(queue) => kind[queue[n + 1]] \in Writers

\* Mutant: the connection is not given back after the notification.
Unreturned(t) == free

\* The idle connections once the handler of task t has returned.
Returned(t) == IF kind[t] \in Keepers THEN free + 1 ELSE free

\* The section of the lock ends (it never awaits) and with it the task.  The
\* lock is handed over: the tasks that get it are woken and have it before they
\* run.
Unlock(t) ==
  /\ pc[t] = "locked"
  /\ LET n == IF Owners = {t} THEN Granted ELSE 0
     IN  /\ queue' = SubSeq(queue, n + 1, Len(queue))
         /\ pc' = [s \in Tasks |-> IF s = t THEN "idle"
                                   ELSE IF \E i \in 1..n : queue[i] = s THEN "woken"
                                   ELSE pc[s]]
  /\ kind' = [kind EXCEPT ![t] = "none"]
  /\ free' = Returned(t)

Step(t) == Poll(t) \/ Get(t) \/ GetLater(t) \/ Timeout(t) \/ Return(t) \/ Lock(t) \/ Unlock(t)

DbNext == \E t \in Tasks : Step(t) \/ \E k \in Arrivals : Spawn(t, k)

DbSpec == DbInit /\ [][DbNext]_dbVars

\* Running threads run, the timeout of a blocked one expires, and the runtime
\* polls every task that stays ready while workers come free again and again.
DbFairSpec == /\ DbSpec
              /\ \A t \in Tasks : /\ WF_dbVars(Step(t))
                                  /\ SF_dbVars(Poll(t))

-----------------------------------------------------------------------------
(* Properties *)

\* No connection is lost or used twice, whichever way a task ends.
PoolConserved == free + Cardinality(Holders) = Size

\* Every task ends: served or, by the timeout, with a panic.  The timeout is
\* needed: all workers may be blocked by tasks that wait for the connections of
\* tasks that wait for a worker.
EveryTaskEnds == \A t \in Tasks : pc[t] # "idle" ~> pc[t] = "idle"
=============================================================================
