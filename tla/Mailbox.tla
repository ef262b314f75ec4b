------------------------------ MODULE Mailbox ------------------------------
(***************************************************************************)
(* The mailboxes of devices: the queue of relay_messages (push, fetch by   *)
(* since_id, acknowledge by up_to_id) and the single sync blob per device  *)
(* (push, fetch, delete), with the hourly cleanup of both tables.          *)
(*                                                                         *)
(* A relay id comes from a sequence: the INSERT draws it before its row is *)
(* visible, so that rows may become visible out of the order of their ids. *)
(* The rate limits of both pushes are in RateLimiter; here a push may      *)
(* always end early (Finish).                                              *)
(***************************************************************************)
EXTENDS Naturals, FiniteSets

CONSTANTS Devices,            \* for_device_dilithium_pubkey values
          Requests,           \* request slots: the requests in flight at once
          Ttls,               \* ttl_secs values clients ask for
          MinTtl,             \* 60 s
          MaxTtl,             \* MAX_TTL of relay messages
          Limit,              \* page size of a fetch
          MaxId,              \* bound on the relay ids drawn
          MaxBlob,            \* bound on the blobs pushed
          MaxTime             \* bound on the clock

ASSUME TtlAssumption == /\ Ttls \subseteq Nat
                        /\ MinTtl \in Nat \ {0} /\ MaxTtl \in Nat
                        /\ MinTtl <= MaxTtl
ASSUME BoundsAssumption == /\ Limit \in Nat \ {0}
                           /\ {MaxId, MaxBlob, MaxTime} \subseteq Nat

VARIABLES
  relay,     \* table relay_messages: rows [id, device, expires], and the time
             \*   `born' at which the push was verified (history)
  lastId,    \* the sequence of relay_messages.id
  blobs,     \* table sync_blobs: rows [device, no, expires, born]; no numbers
             \*   the upserts, for the ciphertext
  lastBlob,  \* the number of upserts so far
  req,       \* req[r]: the request in slot r, its position and its locals
  now,       \* the clock
  stored,    \* history: relay rows whose sender was told "success"
  seen,      \* history: relay ids the device has received
  late,      \* history: relay ids that became visible after a higher one of
             \*   their device
  pushed,    \* history: blobs whose sender was told "success"
  read,      \* history: blobs the device has received
  erased     \* history: blobs pushed before a DELETE of their device

relayVars == <<relay, lastId, stored, seen, late>>
blobVars  == <<blobs, lastBlob, pushed, read, erased>>
vars      == <<relayVars, blobVars, req, now>>

Idle    == [pc |-> "idle"]
Ids     == 1..MaxId
Nos     == 1..MaxBlob
Expires == 0..(MaxTime + MaxTtl)

Row  == [id : Ids, device : Devices, expires : Expires, born : 0..MaxTime]
Blob == [no : Nos, device : Devices, expires : Expires, born : 0..MaxTime]

Request ==
       {Idle}
  \cup [pc : {"draw", "upsert"}, device : Devices, expires : Expires, born : 0..MaxTime]
  \cup [pc : {"commit"}, id : Ids, device : Devices, expires : Expires, born : 0..MaxTime]
  \cup [pc : {"load"}, device : Devices, since : 0..MaxId, at : 0..MaxTime]
  \cup [pc : {"remove"}, device : Devices, upTo : Ids]
  \cup [pc : {"delBlob"}, device : Devices]

TypeOK == /\ relay \subseteq Row /\ stored \subseteq Row
          /\ lastId \in 0..MaxId /\ seen \subseteq Ids /\ late \subseteq Ids
          /\ blobs \subseteq Blob /\ pushed \subseteq Blob
          /\ lastBlob \in 0..MaxBlob /\ read \subseteq Nos /\ erased \subseteq Nos
          /\ req \in [Requests -> Request]
          /\ now \in 0..MaxTime

Init == /\ relay = {} /\ stored = {} /\ seen = {} /\ late = {} /\ lastId = 0
        /\ blobs = {} /\ pushed = {} /\ read = {} /\ erased = {} /\ lastBlob = 0
        /\ req = [r \in Requests |-> Idle]
        /\ now = 0

Continue(r, q) == req' = [req EXCEPT ![r] = q]
End(r)         == Continue(r, Idle)

\* Mutant: the lower clamp is forgotten.
LifeUpToMax(ttl) == IF ttl > MaxTtl THEN MaxTtl ELSE ttl

\* Mutant: the upper clamp is forgotten.
LifeFromMin(ttl) == IF ttl < MinTtl THEN MinTtl ELSE ttl

\* ttl_secs.min(MAX_TTL).max(60)
Life(ttl) == IF ttl < MinTtl THEN MinTtl ELSE IF ttl > MaxTtl THEN MaxTtl ELSE ttl

-----------------------------------------------------------------------------
(* RELAY_PUSH *)

\* The checks, the signature, expires_at; then the wait for a connection.
PushVerify(r, d, ttl) ==
  /\ req[r] = Idle
  /\ Continue(r, [pc |-> "draw", device |-> d, expires |-> now + Life(ttl), born |-> now])
  /\ UNCHANGED <<relayVars, blobVars, now>>

\* INSERT: the id is drawn from the sequence ...
PushDraw(r) ==
  /\ req[r].pc = "draw"
  /\ lastId < MaxId
  /\ lastId' = lastId + 1
  /\ Continue(r, [pc |-> "commit", id |-> lastId + 1, device |-> req[r].device,
                  expires |-> req[r].expires, born |-> req[r].born])
  /\ UNCHANGED <<relay, stored, seen, late, blobVars, now>>

\* ... and the row becomes visible.
PushCommit(r) ==
  /\ req[r].pc = "commit"
  /\ LET q   == req[r]
         row == [id |-> q.id, device |-> q.device, expires |-> q.expires, born |-> q.born]
     IN  /\ relay' = relay \cup {row}
         /\ stored' = stored \cup {row}
         /\ late' = IF \E y \in stored : y.device = q.device /\ y.id > q.id
                    THEN late \cup {q.id} ELSE late
  /\ End(r)
  /\ UNCHANGED <<lastId, seen, blobVars, now>>

-----------------------------------------------------------------------------
(* RELAY_FETCH and RELAY_ACK.  A device pages by the ids it has received. *)

SeenBy(d) == {x.id : x \in {y \in stored : y.device = d /\ y.id \in seen}}

FetchVerify(r, d, since) ==
  /\ req[r] = Idle
  /\ Continue(r, [pc |-> "load", device |-> d, since |-> since, at |-> now])
  /\ UNCHANGED <<relayVars, blobVars, now>>

\* Rows the query of a fetch selects.
Fetchable(q) == {x \in relay : x.device = q.device /\ x.id > q.since /\ x.expires > q.at}

\* ORDER BY id ASC LIMIT
Page(q) == {x \in Fetchable(q) : Cardinality({y \in Fetchable(q) : y.id < x.id}) < Limit}

\* The page reaches the device (a page lost on its way: Finish).
FetchLoad(r) ==
  /\ req[r].pc = "load"
  /\ seen' = seen \cup {x.id : x \in Page(req[r])}
  /\ End(r)
  /\ UNCHANGED <<relay, lastId, stored, late, blobVars, now>>

\* The device confirms everything up to an id it has received.
AckVerify(r, d, upTo) ==
  /\ req[r] = Idle
  /\ Continue(r, [pc |-> "remove", device |-> d, upTo |-> upTo])
  /\ UNCHANGED <<relayVars, blobVars, now>>

\* Mutant: off by one, the row after up_to_id goes too.
AckedPast(q) == {x \in relay : x.device = q.device /\ x.id <= q.upTo + 1}

\* The rows the DELETE of an acknowledgement removes.
Acked(q) == {x \in relay : x.device = q.device /\ x.id <= q.upTo}

AckRemove(r) ==
  /\ req[r].pc = "remove"
  /\ relay' = relay \ Acked(req[r])
  /\ End(r)
  /\ UNCHANGED <<lastId, stored, seen, late, blobVars, now>>

-----------------------------------------------------------------------------
(* SYNC_PUSH_BLOB, SYNC_FETCH_BLOB, SYNC_DELETE_BLOB *)

BlobPushVerify(r, d, ttl) ==
  /\ req[r] = Idle
  /\ Continue(r, [pc |-> "upsert", device |-> d, expires |-> now + Life(ttl), born |-> now])
  /\ UNCHANGED <<relayVars, blobVars, now>>

\* Mutant: ON CONFLICT DO NOTHING.
UpsertKeeps(b) == IF \E x \in blobs : x.device = b.device THEN blobs ELSE blobs \cup {b}

\* ON CONFLICT (device) DO UPDATE: the last statement wins.
Upsert(b) == {x \in blobs : x.device # b.device} \cup {b}

BlobUpsert(r) ==
  /\ req[r].pc = "upsert"
  /\ lastBlob < MaxBlob
  /\ lastBlob' = lastBlob + 1
  /\ LET q == req[r]
         b == [no |-> lastBlob + 1, device |-> q.device, expires |-> q.expires, born |-> q.born]
     IN  /\ blobs' = Upsert(b)
         /\ pushed' = pushed \cup {b}
  /\ End(r)
  /\ UNCHANGED <<relayVars, read, erased, now>>

\* SYNC_FETCH_BLOB reads the clock and then the row; the device gets it.
BlobFetch(d) ==
  /\ \E b \in blobs : /\ b.device = d /\ b.expires > now
                      /\ read' = read \cup {b.no}
  /\ UNCHANGED <<relayVars, blobs, lastBlob, pushed, erased, req, now>>

\* A fresh DELETE signed by the device or by the key that pairs it.  Nothing ties
\* it to a fetch: it may be the first one, one sent again because its answer was
\* lost, or one that no fetch went before.
BlobDeleteVerify(r, d) ==
  /\ req[r] = Idle
  /\ Continue(r, [pc |-> "delBlob", device |-> d])
  /\ UNCHANGED <<relayVars, blobVars, now>>

\* DELETE by device: whichever blob is there now.
BlobDelete(r) ==
  /\ req[r].pc = "delBlob"
  /\ blobs' = {x \in blobs : x.device # req[r].device}
  /\ erased' = erased \cup {x.no : x \in {y \in pushed : y.device = req[r].device}}
  /\ End(r)
  /\ UNCHANGED <<relayVars, lastBlob, pushed, read, now>>

-----------------------------------------------------------------------------
(* Cleanup, failures, time *)

\* expires_at < now
Expired(S) == {x \in S : x.expires < now}

\* The hourly cleanup of main; each DELETE may fail, which is only logged.
CleanupRelay == /\ Expired(relay) # {}
                /\ relay' = relay \ Expired(relay)
                /\ UNCHANGED <<lastId, stored, seen, late, blobVars, req, now>>

CleanupBlobs == /\ Expired(blobs) # {}
                /\ blobs' = blobs \ Expired(blobs)
                /\ UNCHANGED <<relayVars, lastBlob, pushed, read, erased, req, now>>

\* A request ends before its next statement takes effect: refused, failed, or
\* the server stopped.  An id drawn for it is not used again.
Finish(r) == /\ req[r] # Idle
             /\ End(r)
             /\ UNCHANGED <<relayVars, blobVars, now>>

Tick == /\ now < MaxTime
        /\ now' = now + 1
        /\ UNCHANGED <<relayVars, blobVars, req>>

\* What a request does once it has started.
Step(r) == \/ PushDraw(r) \/ PushCommit(r) \/ FetchLoad(r) \/ AckRemove(r)
           \/ BlobUpsert(r) \/ BlobDelete(r)

Next == \/ \E r \in Requests, d \in Devices :
             \/ \E ttl \in Ttls : PushVerify(r, d, ttl) \/ BlobPushVerify(r, d, ttl)
             \/ \E since \in SeenBy(d) \cup {0} : FetchVerify(r, d, since)
             \/ \E upTo \in SeenBy(d) : AckVerify(r, d, upTo)
             \/ BlobDeleteVerify(r, d)
        \/ \E r \in Requests : Step(r) \/ Finish(r)
        \/ \E d \in Devices : BlobFetch(d)
        \/ CleanupRelay \/ CleanupBlobs
        \/ Tick

Spec == Init /\ [][Next]_vars

-----------------------------------------------------------------------------
(* Properties *)

\* A relay message whose sender was told "success" is not lost before the device
\* has received it, for at least the minimal life, whatever pages, resumed
\* fetches, retried and cumulative acknowledgements and cleanups run meanwhile.
\* The one exception is a message whose INSERT was overtaken by a later one of
\* the same mailbox: its id may lie below an up_to_id the device has sent.
RelayNotLost == \A x \in stored :
  x \in relay \/ x.id \in seen \/ x.id \in late \/ now >= x.born + MinTtl

\* A page never skips: below an id the device has received, every live message
\* that was not overtaken has been received too, so that up_to_id confirms
\* nothing unseen.
NoGapBelowSeen == \A x \in relay : \A i \in SeenBy(x.device) :
  x.id < i => x.id \in seen \/ x.id \in late \/ now >= x.born + MinTtl

\* A blob whose sender was told "success" stays, for at least the minimal life,
\* until the device has received it, a later push replaces it or a DELETE of its
\* own device runs, whichever pushes, cleanups and deletions of other devices come
\* in between.
BlobNotLost == \A b \in pushed :
  \/ b \in blobs \/ b.no \in read \/ b.no \in erased
  \/ now >= b.born + MinTtl
  \/ \E c \in pushed : c.device = b.device /\ c.no > b.no
=============================================================================
