------------------------------ MODULE Sockets ------------------------------
(***************************************************************************)
(* The WebSocket side of one server process: the ConnectionManager (one    *)
(* broadcast channel per user_hash), the tasks that serve the sockets, the *)
(* in-memory registry of file transfers, and the part of DELETE that       *)
(* disconnects the user.                                                   *)
(*                                                                         *)
(* Every await of a task is a point where other tasks run; one action is   *)
(* what happens between two of them.  A panic (the pool's 5 s timeout in   *)
(* establish_connection) ends the task without the code after its loop.    *)
(***************************************************************************)
EXTENDS Naturals, FiniteSets

CONSTANTS Users,              \* user_hash values
          NoUser,             \* absence of a registered sender
          Sockets,            \* slots for sockets open at the same time
          Transfers,          \* transfer_id values
          Capacity,           \* BROADCAST_CAPACITY
          Devices,            \* sockets one user's clients keep at once
          MaxDrop,            \* bound on connections lost by the network
          MaxPanic            \* bound on panics of socket tasks

ASSUME CapacityAssumption == Capacity \in Nat \ {0} /\ Devices \in Nat \ {0}
ASSUME FaultAssumption == MaxDrop \in Nat /\ MaxPanic \in Nat
ASSUME NoUserAssumption == NoUser \notin Users
ASSUME FiniteAssumption == IsFiniteSet(Users) /\ IsFiniteSet(Sockets)

VARIABLES
  conns,     \* ConnectionManager.connections: user -> channel, 0 = no entry;
             \*   the entry holds the only Sender, so a channel that is in no
             \*   entry is closed
  sock,      \* sock[s]: the task serving slot s
  peer,      \* peer[s]: the client still holds its end of slot s
  transfers, \* file_relay registry: transfer -> sender, NoUser = no entry
  deleted,   \* deleted[u]: progress of DELETE for u
  drops, panics

vars == <<conns, sock, peer, transfers, deleted, drops, panics>>

\* Enough names for the channels that can be alive at once.
Channels == 1..(Cardinality(Sockets) + Cardinality(Users))

Free == [pc |-> "free"]

\* "auth": session token accepted; "loop": in the select loop, with the number
\* of broadcast messages it has not received yet; "left": out of the loop;
\* "relay": the map entry is removed, the transfers are not.
Task ==      {Free}
        \cup [pc : {"auth"}, user : Users]
        \cup [pc : {"loop", "left", "relay"}, user : Users, chan : Channels,
              pending : 0..Capacity]

TypeOK == /\ conns \in [Users -> Channels \cup {0}]
          /\ sock \in [Sockets -> Task]
          /\ peer \in [Sockets -> BOOLEAN]
          /\ transfers \in [Transfers -> Users \cup {NoUser}]
          /\ deleted \in [Users -> {"no", "rows", "done"}]
          /\ drops \in 0..MaxDrop
          /\ panics \in 0..MaxPanic

Init == /\ conns = [u \in Users |-> 0]
        /\ sock = [s \in Sockets |-> Free]
        /\ peer = [s \in Sockets |-> FALSE]
        /\ transfers = [t \in Transfers |-> NoUser]
        /\ deleted = [u \in Users |-> "no"]
        /\ drops = 0
        /\ panics = 0

-----------------------------------------------------------------------------
(* The ConnectionManager *)

\* Channels some entry or some task refers to.
InUse == {conns[u] : u \in Users} \cup
         {sock[s].chan : s \in {x \in Sockets : sock[x].pc \notin {"free", "auth"}}}

\* Tasks that would receive what is sent on channel c.
Receivers(c) == {s \in Sockets : sock[s].pc = "loop" /\ sock[s].chan = c}

\* register: subscribe to the user's channel, or create it.
ChannelFor(u) == IF conns[u] # 0 THEN conns[u]
                 ELSE CHOOSE c \in Channels : c \notin InUse

\* Mutant: unregister keeps the entry.
KeepEntry(u) == conns

\* unregister: the entry of the user goes, whichever socket it was made for.
Unregistered(u) == [conns EXCEPT ![u] = 0]

\* Mutant: a channel without a capacity.
QueuedUnbounded(n) == n + 1

\* One more message for a receiver; a full channel drops the oldest one
\* (RecvError::Lagged, ignored by the task).
Queued(n) == IF n < Capacity THEN n + 1 ELSE Capacity

\* The tasks that receive what is sent to u now: none when u has no entry.
Reached(u) == IF conns[u] = 0 THEN {} ELSE Receivers(conns[u])

\* send_to_user: false, and nothing else, when there is no entry or no receiver.
SendToUser(u) ==
  sock' = [s \in Sockets |->
             IF s \in Reached(u)
             THEN [sock[s] EXCEPT !.pending = Queued(@)]
             ELSE sock[s]]

-----------------------------------------------------------------------------
(* The task of a socket *)

\* Slots whose client believes it is connected as u.
HeldBy(u) == {s \in Sockets : peer[s] /\ sock[s].pc # "free" /\ sock[s].user = u}

\* A client connects; its session token is found and not expired (authenticate
\* and verify_session_token; a refused socket is closed and changes nothing).
Authenticate(s, u) ==
  /\ sock[s] = Free
  /\ deleted[u] = "no"
  /\ Cardinality(HeldBy(u)) < Devices
  /\ sock' = [sock EXCEPT ![s] = [pc |-> "auth", user |-> u]]
  /\ peer' = [peer EXCEPT ![s] = TRUE]
  /\ UNCHANGED <<conns, transfers, deleted, drops, panics>>

Register(s) ==
  /\ sock[s].pc = "auth"
  /\ LET u == sock[s].user
         c == ChannelFor(u)
     IN  /\ conns' = [conns EXCEPT ![u] = c]
         /\ sock' = [sock EXCEPT ![s] = [pc |-> "loop", user |-> u, chan |-> c,
                                         pending |-> 0]]
  /\ UNCHANGED <<peer, transfers, deleted, drops, panics>>

\* broadcast_rx.recv() = Ok: the message goes to the client.
Deliver(s) ==
  /\ sock[s].pc = "loop" /\ sock[s].pending > 0 /\ peer[s]
  /\ sock' = [sock EXCEPT ![s].pending = @ - 1]
  /\ UNCHANGED <<conns, peer, transfers, deleted, drops, panics>>

\* Mutant: a closed channel is ignored like a lagging one.
LeaveOnPeerOnly(s) ==
  /\ sock[s].pc = "loop"
  /\ ~peer[s]
  /\ sock' = [sock EXCEPT ![s].pc = "left"]
  /\ UNCHANGED <<conns, peer, transfers, deleted, drops, panics>>

\* The task leaves its loop: the client is gone (read or write fails), or its
\* channel is closed and drained (RecvError::Closed).
Leave(s) ==
  /\ sock[s].pc = "loop"
  /\ \/ ~peer[s]
     \/ sock[s].pending = 0 /\ conns[sock[s].user] # sock[s].chan
  /\ sock' = [sock EXCEPT ![s].pc = "left"]
  /\ UNCHANGED <<conns, peer, transfers, deleted, drops, panics>>

Unregister(s) ==
  /\ sock[s].pc = "left"
  /\ conns' = Unregistered(sock[s].user)
  /\ sock' = [sock EXCEPT ![s].pc = "relay"]
  /\ UNCHANGED <<peer, transfers, deleted, drops, panics>>

\* Mutant: unregister_by_sender is forgotten.
CloseKeepingTransfers(s) ==
  /\ sock[s].pc = "relay"
  /\ sock' = [sock EXCEPT ![s] = Free]
  /\ peer' = [peer EXCEPT ![s] = FALSE]
  /\ UNCHANGED <<conns, transfers, deleted, drops, panics>>

\* unregister_by_sender, then the socket is dropped, which the client sees.
Close(s) ==
  /\ sock[s].pc = "relay"
  /\ transfers' = [t \in Transfers |->
                     IF transfers[t] = sock[s].user THEN NoUser ELSE transfers[t]]
  /\ sock' = [sock EXCEPT ![s] = Free]
  /\ peer' = [peer EXCEPT ![s] = FALSE]
  /\ UNCHANGED <<conns, deleted, drops, panics>>

\* The task has read a request from its client and processes it.
Requesting(s) == sock[s].pc = "loop" /\ peer[s]

\* ws_file_available: insert overwrites.
FileAvailable(s, t) ==
  /\ Requesting(s)
  /\ transfers' = [transfers EXCEPT ![t] = sock[s].user]
  /\ UNCHANGED <<conns, sock, peer, deleted, drops, panics>>

\* ws_file_chunk_request: forwarded to the sender of a known transfer.
FileChunkRequest(s, t) ==
  /\ Requesting(s)
  /\ transfers[t] # NoUser
  /\ SendToUser(transfers[t])
  /\ UNCHANGED <<conns, peer, transfers, deleted, drops, panics>>

\* ws_file_chunk: forwarded to whomever the sender names.
FileChunk(s, u) ==
  /\ Requesting(s)
  /\ SendToUser(u)
  /\ UNCHANGED <<conns, peer, transfers, deleted, drops, panics>>

\* A request of the socket runs an HTTP handler, which panics: the task is
\* gone, its socket closed, nothing is unregistered.
Panic(s) ==
  /\ Requesting(s)
  /\ panics < MaxPanic
  /\ panics' = panics + 1
  /\ sock' = [sock EXCEPT ![s] = Free]
  /\ peer' = [peer EXCEPT ![s] = FALSE]
  /\ UNCHANGED <<conns, transfers, deleted, drops>>

-----------------------------------------------------------------------------
(* The rest of the server, and the network *)

\* A notification from another task: send_message, contact or
\* respond_friend_request.
Push(u) == /\ SendToUser(u)
           /\ UNCHANGED <<conns, peer, transfers, deleted, drops, panics>>

\* TRANSFER_TTL passes: get_sender hides the entry, cleanup_expired drops it.
Expire(t) == /\ transfers[t] # NoUser
             /\ transfers' = [transfers EXCEPT ![t] = NoUser]
             /\ UNCHANGED <<conns, sock, peer, deleted, drops, panics>>

\* The network loses a connection; the server notices later (Leave).
Drop(s) == /\ peer[s]
           /\ drops < MaxDrop
           /\ drops' = drops + 1
           /\ peer' = [peer EXCEPT ![s] = FALSE]
           /\ UNCHANGED <<conns, sock, transfers, deleted, panics>>

\* DELETE: delete_user_data removes the sessions ...
DeleteRows(u) == /\ deleted[u] = "no"
                 /\ deleted' = [deleted EXCEPT ![u] = "rows"]
                 /\ UNCHANGED <<conns, sock, peer, transfers, drops, panics>>

\* Mutant: delete_account returns without unregistering the user.
DeleteWithoutDisconnect(u) ==
  /\ deleted[u] = "rows"
  /\ deleted' = [deleted EXCEPT ![u] = "done"]
  /\ UNCHANGED <<conns, sock, peer, transfers, drops, panics>>

\* ... and then the handler unregisters the user.
DeleteDisconnect(u) ==
  /\ deleted[u] = "rows"
  /\ deleted' = [deleted EXCEPT ![u] = "done"]
  /\ conns' = Unregistered(u)
  /\ UNCHANGED <<sock, peer, transfers, drops, panics>>

-----------------------------------------------------------------------------
\* What a task does by itself once its socket is accepted.
Step(s) == Register(s) \/ Deliver(s) \/ Leave(s) \/ Unregister(s) \/ Close(s)

Next == \/ \E s \in Sockets :
             \/ \E u \in Users : Authenticate(s, u) \/ FileChunk(s, u)
             \/ Step(s)
             \/ \E t \in Transfers : FileAvailable(s, t) \/ FileChunkRequest(s, t)
             \/ Panic(s)
             \/ Drop(s)
        \/ \E u \in Users : Push(u) \/ DeleteRows(u) \/ DeleteDisconnect(u)
        \/ \E t \in Transfers : Expire(t)

Spec == Init /\ [][Next]_vars

\* The tokio runtime polls every task that can advance, select! is fair between
\* its branches, and a DELETE that removed the rows returns.
ServerFairness == /\ \A s \in Sockets : WF_vars(Step(s))
                  /\ \A u \in Users : WF_vars(DeleteDisconnect(u))

\* A user without a connection connects again, with one device or another.
ClientFairness == \A u \in Users :
  WF_vars(HeldBy(u) = {} /\ \E s \in Sockets : Authenticate(s, u))

FairSpec == Spec /\ ServerFairness /\ ClientFairness

-----------------------------------------------------------------------------
(* Properties *)

\* Tasks that still have their unregister (resp. unregister_by_sender) to run.
Serving(u) == {s \in Sockets : sock[s].pc \in {"loop", "left"} /\ sock[s].user = u}

\* The socket works: the client is there and pushes reach it.
Live(s) == /\ sock[s].pc = "loop" /\ peer[s]
           /\ conns[sock[s].user] = sock[s].chan

\* Without panics, an entry of the map has a task behind it that listens to
\* this very channel and will remove the entry: pushes are not queued for
\* nobody and the map does not grow, in any order of connects, losses,
\* unregisters and deletions.
EntryIsServed == panics = 0 => \A u \in Users : conns[u] # 0 =>
                   \E s \in Serving(u) : sock[s].chan = conns[u]

\* Without panics, a registered transfer has a task of its sender that will
\* still run unregister_by_sender: none outlives the sockets of its sender.
TransferIsServed == panics = 0 => \A t \in Transfers : transfers[t] # NoUser =>
                      \E s \in Sockets : /\ sock[s].pc \in {"loop", "left", "relay"}
                                         /\ sock[s].user = transfers[t]

\* A task whose channel was removed from the map (by another socket of the same
\* user or by DELETE) ends: it does not stay connected and deaf.
OrphanEnds == \A s \in Sockets :
  (sock[s].pc = "loop" /\ conns[sock[s].user] # sock[s].chan) ~> (sock[s] = Free)

\* DELETE ends every socket that is open when it removes the sessions, whatever
\* other sockets of the user do meanwhile.
DeleteEndsOpenSockets == \A s \in Sockets :
  (sock[s].pc = "loop" /\ deleted[sock[s].user] = "rows") ~> (sock[s] = Free)

\* Whatever was lost or panicked before, and however many devices have cut each
\* other off, once one client is left for an account that is not deleted it ends
\* up with a socket that pushes reach, and keeps it.
Settles == \A u \in Users :
  [](deleted[u] = "no") /\ <>[](Cardinality(HeldBy(u)) <= 1) =>
    <>[](\E s \in Sockets : Live(s) /\ sock[s].user = u)

\* README.md:113, "Le serveur émet des `WsNotification`": while an account is not
\* being deleted, what is sent to it reaches every open socket of its user.
PushReachesOpenSockets == \A u \in Users :
  deleted[u] = "no" => {s \in HeldBy(u) : sock[s].pc = "loop"} \subseteq Reached(u)
=============================================================================
