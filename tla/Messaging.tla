----------------------------- MODULE Messaging -----------------------------
(***************************************************************************)
(* The messages table: SEND_MESSAGE, FETCH_MESSAGES, the acknowledgement   *)
(* that removes a message, the hourly cleanup of expired rows, and the     *)
(* part of DELETE that reaches it.  The table has no foreign key.          *)
(*                                                                         *)
(* Statements autocommit and requests interleave between them.  Clients    *)
(* retry: an envelope may be sent, fetched and acknowledged several times. *)
(***************************************************************************)
EXTENDS Naturals, FiniteSets

CONSTANTS Users,              \* user_hash_id values
          MessageIds,         \* message_id values
          Envelope,           \* Envelope[m]: [from, to, ttl], ttl 0 = never expires
          Requests,           \* request slots: the requests in flight at once
          Limit,              \* page size of a fetch
          MaxTime,            \* bound on the clock
          MaxSend,            \* bound on the envelopes sent, retries included
          MaxDelete           \* bound on the deletions of accounts

ASSUME EnvelopeAssumption ==
  \A m \in MessageIds : Envelope[m].from \in Users /\ Envelope[m].to \in Users
                        /\ Envelope[m].ttl \in Nat
ASSUME BoundsAssumption == /\ Limit \in Nat \ {0}
                            /\ {MaxTime, MaxSend, MaxDelete} \subseteq Nat

VARIABLES
  users,     \* the accounts that exist
  messages,  \* table messages: rows [id, to, from, ts, expires], where ts is
             \*   server_timestamp
  req,       \* req[r]: the request in slot r, its position and its locals
  now,       \* the clock
  tries,     \* the envelopes sent so far, retries included
  stored,    \* history: rows whose sender was told "success"
  seen,      \* history: messages the client of their recipient has received
  removed    \* history: accounts a DELETE has been working on, and how many

vars == <<users, messages, req, now, tries, stored, seen, removed>>

Idle  == [pc |-> "idle"]
Never == MaxTime + 1                       \* year 9999

Row == [id : MessageIds, from : Users, to : Users, ts : 0..MaxTime, expires : 0..Never]

Request ==
       {Idle}
  \cup [pc : {"recipient"}, id : MessageIds]
  \cup [pc : {"insert"}, id : MessageIds, ts : 0..MaxTime, expires : 0..Never]
  \cup [pc : {"load"}, user : Users, since : 0..MaxTime, at : 0..MaxTime]
  \cup [pc : {"remove"}, user : Users, id : MessageIds]
  \cup [pc : {"delMessages", "delUser"}, user : Users]

TypeOK == /\ users \subseteq Users
          /\ messages \subseteq Row
          /\ req \in [Requests -> Request]
          /\ now \in 0..MaxTime
          /\ tries \in 0..MaxSend
          /\ stored \subseteq Row
          /\ seen \subseteq MessageIds
          /\ removed \in [who : SUBSET Users, times : 0..MaxDelete]

Init == /\ users = Users
        /\ messages = {}
        /\ req = [r \in Requests |-> Idle]
        /\ now = 0
        /\ tries = 0
        /\ stored = {}
        /\ seen = {}
        /\ removed = [who |-> {}, times |-> 0]

Continue(r, q) == req' = [req EXCEPT ![r] = q]
End(r)         == Continue(r, Idle)

-----------------------------------------------------------------------------
(* SEND_MESSAGE *)

\* SELECT the sender and verify its signature.
SendVerify(r, m) ==
  /\ req[r] = Idle
  /\ Envelope[m].from \in users
  /\ tries < MaxSend
  /\ tries' = tries + 1
  /\ Continue(r, [pc |-> "recipient", id |-> m])
  /\ UNCHANGED <<users, messages, now, stored, seen, removed>>

\* Mutant: a message that never expires gets the longest life, from now on.
ExpiryFromNow(m) == now + IF Envelope[m].ttl = 0 THEN Never ELSE Envelope[m].ttl

\* expires_at: sequence_number carries the wanted life, 0 = never (as is every
\* date after the last one the clock reaches).
Expiry(m) == IF Envelope[m].ttl = 0 \/ now + Envelope[m].ttl > MaxTime THEN Never
             ELSE now + Envelope[m].ttl

\* SELECT the recipient; the server timestamp is taken here, before the INSERT.
\* (The size tiers may also refuse the message here: Finish.)
SendRecipient(r) ==
  /\ req[r].pc = "recipient"
  /\ Envelope[req[r].id].to \in users
  /\ Continue(r, [pc |-> "insert", id |-> req[r].id, ts |-> now,
                  expires |-> Expiry(req[r].id)])
  /\ UNCHANGED <<users, messages, now, tries, stored, seen, removed>>

\* INSERT; UNIQUE (message_id) refuses a message that is already there.
SendInsert(r) ==
  /\ req[r].pc = "insert"
  /\ \A x \in messages : x.id # req[r].id
  /\ LET m   == req[r].id
         row == [id |-> m, from |-> Envelope[m].from, to |-> Envelope[m].to,
                 ts |-> req[r].ts, expires |-> req[r].expires]
     IN  /\ messages' = messages \cup {row}
         /\ stored' = stored \cup {row}
  /\ End(r)
  /\ UNCHANGED <<users, now, tries, seen, removed>>

-----------------------------------------------------------------------------
(* FETCH_MESSAGES *)

\* Rows the queries of a fetch select, with the clock value `at' it read.
Fetchable(u, since, at) ==
  {x \in messages : x.to = u /\ x.expires > at /\ (since > 0 => x.ts > since)}

\* ORDER BY server_timestamp LIMIT: the pages the database may answer with
\* (rows of one timestamp come in any order).
Pages(S) ==
  {P \in SUBSET S : /\ Cardinality(P) = IF Cardinality(S) < Limit
                                        THEN Cardinality(S) ELSE Limit
                    /\ \A x \in P, y \in S \ P : x.ts <= y.ts}

\* SELECT the user, verify its signature, read the clock.  (The COUNT for
\* remaining_count follows; it only reads.)
FetchVerify(r, u, since) ==
  /\ req[r] = Idle
  /\ u \in users
  /\ Continue(r, [pc |-> "load", user |-> u, since |-> since, at |-> now])
  /\ UNCHANGED <<users, messages, now, tries, stored, seen, removed>>

\* The page is loaded and reaches the client.
FetchLoad(r) ==
  /\ req[r].pc = "load"
  /\ \E P \in Pages(Fetchable(req[r].user, req[r].since, req[r].at)) :
       seen' = seen \cup {x.id : x \in P}
  /\ End(r)
  /\ UNCHANGED <<users, messages, now, tries, stored, removed>>

-----------------------------------------------------------------------------
(* The acknowledgement: sent once the client has stored the message. *)

AckVerify(r, m) ==
  /\ req[r] = Idle
  /\ m \in seen
  /\ Envelope[m].to \in users
  /\ Continue(r, [pc |-> "remove", user |-> Envelope[m].to, id |-> m])
  /\ UNCHANGED <<users, messages, now, tries, stored, seen, removed>>

\* Mutant: the acknowledgement confirms everything fetched so far.
AckAll(q) == {x \in messages : x.to = q.user}

\* Mutant: the acknowledgement removes nothing.
AckNone(q) == {}

\* The rows the DELETE of an acknowledgement removes.
Acked(q) == {x \in messages : x.id = q.id /\ x.to = q.user}

AckRemove(r) ==
  /\ req[r].pc = "remove"
  /\ messages' = messages \ Acked(req[r])
  /\ End(r)
  /\ UNCHANGED <<users, now, tries, stored, seen, removed>>

-----------------------------------------------------------------------------
(* Accounts, cleanup, time *)

Register(u) == /\ u \notin users
               /\ users' = users \cup {u}
               /\ UNCHANGED <<messages, req, now, tries, stored, seen, removed>>

\* DELETE: SELECT the user and verify ...
DeleteVerify(r, u) ==
  /\ req[r] = Idle
  /\ u \in users
  /\ removed.times < MaxDelete
  /\ removed' = [who |-> removed.who \cup {u}, times |-> removed.times + 1]
  /\ Continue(r, [pc |-> "delMessages", user |-> u])
  /\ UNCHANGED <<users, messages, now, tries, stored, seen>>

\* ... delete the messages sent and received ...
DelMessages(r) ==
  /\ req[r].pc = "delMessages"
  /\ messages' = {x \in messages : x.from # req[r].user /\ x.to # req[r].user}
  /\ Continue(r, [req[r] EXCEPT !.pc = "delUser"])
  /\ UNCHANGED <<users, now, tries, stored, seen, removed>>

\* ... and, after the sessions and challenges, the user.
DelUser(r) ==
  /\ req[r].pc = "delUser"
  /\ users' = users \ {req[r].user}
  /\ End(r)
  /\ UNCHANGED <<messages, now, tries, stored, seen, removed>>

\* expires_at < now.
ExpiredRows == {x \in messages : x.expires < now}

\* The hourly cleanup of main.
Cleanup == /\ ExpiredRows # {}
           /\ messages' = messages \ ExpiredRows
           /\ UNCHANGED <<users, req, now, tries, stored, seen, removed>>

\* A send or a deletion ends before its next statement: refused, failed, or the
\* server stopped.  (A fetch or an acknowledgement that ends so has changed
\* nothing: it is one that was not made.)
Finish(r) == /\ req[r].pc \in {"recipient", "insert", "delMessages", "delUser"}
             /\ End(r)
             /\ UNCHANGED <<users, messages, now, tries, stored, seen, removed>>

Tick == /\ now < MaxTime
        /\ now' = now + 1
        /\ UNCHANGED <<users, messages, req, tries, stored, seen, removed>>

\* What a request does once it has started.
Step(r) == \/ SendRecipient(r) \/ SendInsert(r)
           \/ FetchLoad(r)
           \/ AckRemove(r)
           \/ DelMessages(r) \/ DelUser(r)

Next == \/ \E r \in Requests :
             \/ \E m \in MessageIds : SendVerify(r, m) \/ AckVerify(r, m)
             \/ \E u \in Users, since \in 0..now : FetchVerify(r, u, since)
             \/ \E u \in Users : DeleteVerify(r, u)
             \/ Step(r)
             \/ Finish(r)
        \/ \E u \in Users : Register(u)
        \/ Cleanup
        \/ Tick

Spec == Init /\ [][Next]_vars

\* Requests run to their end; the client of every recipient keeps asking for all
\* its messages (since = 0) and acknowledging what it has received, and not
\* every one of these requests fails.
FairSpec ==
  /\ Spec
  /\ \A r \in Requests : WF_vars(Step(r) \/ Finish(r))
  /\ \A u \in {Envelope[m].to : m \in MessageIds} :
       SF_vars(\E r \in Requests : FetchVerify(r, u, 0))
  /\ \A m \in MessageIds : SF_vars(\E r \in Requests : AckVerify(r, m))

-----------------------------------------------------------------------------
(* Properties *)

\* Rows of the table and of `stored' whose sender and recipient no DELETE has
\* touched.
Untouched(S) == {x \in S : x.from \notin removed.who /\ x.to \notin removed.who}

\* A message whose sender was told "success" is not lost: until the recipient's
\* client has received it, it is in the table, or it has expired, whatever
\* fetches, retries, acknowledgements and cleanups run meanwhile.
NoSilentLoss == \A x \in Untouched(stored) :
                  x.id \in seen \/ x \in messages \/ x.expires <= now

\* A client that keeps fetching and acknowledging receives every message that
\* does not expire, also when its mailbox is longer than a page.
EventuallySeen == \A m \in MessageIds :
  (\E x \in Untouched(stored) : x.id = m /\ x.expires = Never)
     ~> (m \in seen \/ Envelope[m].from \in removed.who \/ Envelope[m].to \in removed.who)
=============================================================================
