---------------------------- MODULE MailboxProof ----------------------------
(***************************************************************************)
(* For any devices, page size, lives and number of requests in flight: the *)
(* types of Mailbox, and what a mailbox promises: an accepted relay        *)
(* message or blob is not lost before the device has received it, and a    *)
(* page of the queue skips nothing.                                        *)
(***************************************************************************)
EXTENDS Mailbox, FiniteSetTheorems, TLAPS

-----------------------------------------------------------------------------
(* The inductive invariant *)

\* Rows of the queue: finitely many, each accepted once, known by its id, alive
\* for at least the minimal life; what was received was accepted.
QueueRows == /\ IsFiniteSet(relay)
             /\ relay \subseteq stored
             /\ \A x, y \in stored : x.id = y.id => x = y
             /\ \A x \in stored : x.id <= lastId /\ x.born + MinTtl <= x.expires
             /\ \A i \in seen : \E x \in stored : x.id = i

\* An id that was drawn belongs to one request until its row is visible.
DrawnIds == \A r \in Requests : req[r].pc = "commit" =>
              /\ req[r].id <= lastId
              /\ \A x \in stored : x.id # req[r].id
              /\ \A s \in Requests : s # r /\ req[s].pc = "commit" => req[s].id # req[r].id

\* What a request knows from its check: the life it has given and the cursors of
\* the device.
Checked == \A r \in Requests :
  /\ req[r].pc \in {"draw", "upsert", "commit"} => req[r].born + MinTtl <= req[r].expires
  /\ req[r].pc = "load" => /\ req[r].since \in SeenBy(req[r].device) \cup {0}
                           /\ req[r].at <= now
  /\ req[r].pc = "remove" => req[r].upTo \in SeenBy(req[r].device)

\* Rows of the blobs: accepted ones, numbered, alive for at least the minimal
\* life.
BlobRows == /\ blobs \subseteq pushed
            /\ \A b \in pushed : b.no <= lastBlob /\ b.born + MinTtl <= b.expires

IInv == /\ TypeOK /\ QueueRows /\ DrawnIds /\ Checked /\ BlobRows
        /\ RelayNotLost /\ NoGapBelowSeen /\ BlobNotLost

-----------------------------------------------------------------------------
(* Facts about the operators *)

LEMMA Numbers ==
  /\ MinTtl \in Nat /\ MaxTtl \in Nat /\ MinTtl <= MaxTtl
  /\ Limit \in Nat /\ MaxId \in Nat /\ MaxBlob \in Nat /\ MaxTime \in Nat
  BY TtlAssumption, BoundsAssumption

\* The clamp keeps every wanted life between the two limits.
LEMMA LifeBounds ==
  ASSUME NEW ttl \in Ttls
  PROVE  Life(ttl) \in Nat /\ MinTtl <= Life(ttl) /\ Life(ttl) <= MaxTtl
  BY TtlAssumption DEF Life

\* The date of expiry of a push that is verified now.
LEMMA ExpiryBounds ==
  ASSUME NEW ttl \in Ttls, now \in 0..MaxTime
  PROVE  now + Life(ttl) \in Expires /\ now + MinTtl <= now + Life(ttl)
  BY LifeBounds, Numbers DEF Expires

\* The fields of a request at each of its positions.
LEMMA RequestShape ==
  ASSUME TypeOK, NEW r \in Requests
  PROVE  /\ req[r].pc \in {"draw", "upsert", "commit"} =>
              req[r].device \in Devices /\ req[r].expires \in Expires /\ req[r].born \in 0..MaxTime
         /\ req[r].pc = "commit" => req[r].id \in Ids
         /\ req[r].pc = "load" =>
              req[r].device \in Devices /\ req[r].since \in 0..MaxId /\ req[r].at \in 0..MaxTime
         /\ req[r].pc = "remove" => req[r].device \in Devices /\ req[r].upTo \in Ids
         /\ req[r].pc = "delBlob" => req[r].device \in Devices
  BY DEF TypeOK, Request, Idle

\* The fields of the rows, as numbers.
LEMMA RowShape ==
  ASSUME TypeOK
  PROVE  /\ \A x \in stored : x.id \in Nat /\ x.id > 0 /\ x.expires \in Nat /\ x.born \in Nat
         /\ \A b \in pushed : b.no \in Nat /\ b.expires \in Nat /\ b.born \in Nat
         /\ now \in Nat /\ lastId \in Nat /\ lastBlob \in Nat
  BY Numbers DEF TypeOK, Row, Blob, Ids, Nos, Expires

\* The ids a device has received are ids.
LEMMA SeenByType ==
  ASSUME TypeOK, NEW d
  PROVE  SeenBy(d) \subseteq Ids
  BY DEF TypeOK, SeenBy, Row

\* A page takes the rows with the lowest ids: with a row it has every fetchable
\* row before it.
LEMMA PageIsPrefix ==
  ASSUME TypeOK, QueueRows, NEW q, NEW z \in Page(q), NEW x \in Fetchable(q), x.id < z.id
  PROVE  x \in Page(q)
  <1> DEFINE Before(y) == {w \in Fetchable(q) : w.id < y.id}
  <1>1. Fetchable(q) \in SUBSET relay /\ z \in Fetchable(q)
    BY DEF Fetchable, Page
  <1>2. \A w \in Fetchable(q) : w.id \in Nat
    BY <1>1, RowShape DEF QueueRows
  <1>3. IsFiniteSet(Before(z))
    <2>1. Before(z) \in SUBSET relay
      BY <1>1
    <2>. QED
      BY <2>1, FS_Subset DEF QueueRows
  <1>4. Before(x) \in SUBSET Before(z)
    BY <1>1, <1>2
  <1>5. IsFiniteSet(Before(x)) /\ Cardinality(Before(x)) <= Cardinality(Before(z))
    BY <1>3, <1>4, FS_Subset
  <1>6. Cardinality(Before(x)) \in Nat /\ Cardinality(Before(z)) \in Nat
    BY <1>3, <1>5, FS_CardinalityType
  <1>7. Cardinality(Before(z)) < Limit
    BY DEF Page
  <1>8. Cardinality(Before(x)) < Limit
    BY <1>5, <1>6, <1>7, Numbers
  <1>. QED
    BY <1>8 DEF Page

-----------------------------------------------------------------------------
(* The steps *)

LEMMA TypeNext ==
  ASSUME TypeOK, [Next]_vars
  PROVE  TypeOK'
  <1> USE DEF relayVars, blobVars
  <1>1. ASSUME NEW r \in Requests, NEW d \in Devices, NEW ttl \in Ttls,
               PushVerify(r, d, ttl) \/ BlobPushVerify(r, d, ttl)
        PROVE  TypeOK'
    <2>1. now + Life(ttl) \in Expires
      BY ExpiryBounds DEF TypeOK
    <2>2. req' \in [Requests -> Request]
      BY <1>1, <2>1 DEF PushVerify, BlobPushVerify, Continue, Request, TypeOK
    <2>. QED
      BY <1>1, <2>2 DEF PushVerify, BlobPushVerify, TypeOK
  <1>2. ASSUME NEW r \in Requests, NEW d \in Devices, NEW since \in SeenBy(d) \cup {0},
               FetchVerify(r, d, since)
        PROVE  TypeOK'
    <2>1. since \in 0..MaxId
      BY SeenByType, Numbers DEF Ids
    <2>2. req' \in [Requests -> Request]
      BY <1>2, <2>1 DEF FetchVerify, Continue, Request, TypeOK
    <2>. QED
      BY <1>2, <2>2 DEF FetchVerify, TypeOK
  <1>3. ASSUME NEW r \in Requests, NEW d \in Devices, NEW upTo \in SeenBy(d),
               AckVerify(r, d, upTo)
        PROVE  TypeOK'
    <2>1. req' \in [Requests -> Request]
      BY <1>3, SeenByType DEF AckVerify, Continue, Request, TypeOK
    <2>. QED
      BY <1>3, <2>1 DEF AckVerify, TypeOK
  <1>4. ASSUME NEW r \in Requests, NEW d \in Devices, BlobDeleteVerify(r, d) PROVE TypeOK'
    <2>1. req' \in [Requests -> Request]
      BY <1>4 DEF BlobDeleteVerify, Continue, Request, TypeOK
    <2>. QED
      BY <1>4, <2>1 DEF BlobDeleteVerify, TypeOK
  <1>5. ASSUME NEW r \in Requests, PushDraw(r) PROVE TypeOK'
    <2>1. lastId + 1 \in Ids /\ lastId' \in 0..MaxId
      BY <1>5, Numbers DEF PushDraw, TypeOK, Ids
    <2>2. req' \in [Requests -> Request]
      BY <1>5, <2>1, RequestShape DEF PushDraw, Continue, Request, TypeOK
    <2>. QED
      BY <1>5, <2>1, <2>2 DEF PushDraw, TypeOK
  <1>6. ASSUME NEW r \in Requests, PushCommit(r) PROVE TypeOK'
    <2> DEFINE row == [id |-> req[r].id, device |-> req[r].device,
                       expires |-> req[r].expires, born |-> req[r].born]
    <2>1. row \in Row
      BY <1>6, RequestShape DEF PushCommit, Row
    <2>2. relay' = relay \cup {row} /\ stored' = stored \cup {row} /\ late' \subseteq late \cup {req[r].id}
      BY <1>6 DEF PushCommit
    <2>3. req[r].id \in Ids
      BY <1>6, RequestShape DEF PushCommit
    <2>4. req' \in [Requests -> Request]
      BY <1>6 DEF PushCommit, End, Continue, Request, TypeOK
    <2>. QED
      BY <1>6, <2>1, <2>2, <2>3, <2>4 DEF PushCommit, TypeOK
  <1>7. ASSUME NEW r \in Requests, FetchLoad(r) PROVE TypeOK'
    <2>1. {x.id : x \in Page(req[r])} \subseteq Ids
      BY DEF Page, Fetchable, TypeOK, Row
    <2>2. req' \in [Requests -> Request]
      BY <1>7 DEF FetchLoad, End, Continue, Request, TypeOK
    <2>. QED
      BY <1>7, <2>1, <2>2 DEF FetchLoad, TypeOK
  <1>8. ASSUME NEW r \in Requests, AckRemove(r) PROVE TypeOK'
    BY <1>8 DEF AckRemove, End, Continue, Request, TypeOK
  <1>9. ASSUME NEW r \in Requests, BlobUpsert(r) PROVE TypeOK'
    <2> DEFINE b == [no |-> lastBlob + 1, device |-> req[r].device,
                     expires |-> req[r].expires, born |-> req[r].born]
    <2>1. lastBlob + 1 \in Nos /\ lastBlob' \in 0..MaxBlob
      BY <1>9, Numbers DEF BlobUpsert, TypeOK, Nos
    <2>2. b \in Blob
      BY <1>9, <2>1, RequestShape DEF BlobUpsert, Blob
    <2>3. /\ blobs' \subseteq blobs \cup {b} /\ pushed' = pushed \cup {b}
      BY <1>9 DEF BlobUpsert, Upsert
    <2>4. req' \in [Requests -> Request]
      BY <1>9 DEF BlobUpsert, End, Continue, Request, TypeOK
    <2>. QED
      BY <1>9, <2>1, <2>2, <2>3, <2>4 DEF BlobUpsert, TypeOK
  <1>10. ASSUME NEW r \in Requests, BlobDelete(r) PROVE TypeOK'
    <2>1. req' \in [Requests -> Request]
      BY <1>10 DEF BlobDelete, End, Continue, Request, TypeOK
    <2>2. blobs' \subseteq blobs
      BY <1>10 DEF BlobDelete
    <2>3. erased' \subseteq Nos
      BY <1>10 DEF BlobDelete, TypeOK, Blob
    <2>. QED
      BY <1>10, <2>1, <2>2, <2>3 DEF BlobDelete, TypeOK
  <1>11. ASSUME NEW r \in Requests, Finish(r) PROVE TypeOK'
    BY <1>11 DEF Finish, End, Continue, Request, TypeOK
  <1>12. ASSUME NEW d \in Devices, BlobFetch(d) PROVE TypeOK'
    BY <1>12 DEF BlobFetch, TypeOK, Blob
  <1>13. CASE CleanupRelay
    BY <1>13 DEF CleanupRelay, TypeOK
  <1>14. CASE CleanupBlobs
    BY <1>14 DEF CleanupBlobs, TypeOK
  <1>15. CASE Tick
    BY <1>15, Numbers DEF Tick, TypeOK
  <1>16. CASE UNCHANGED vars
    BY <1>16 DEF vars, TypeOK
  <1>. QED
    BY <1>1, <1>2, <1>3, <1>4, <1>5, <1>6, <1>7, <1>8, <1>9, <1>10, <1>11, <1>12,
       <1>13, <1>14, <1>15, <1>16 DEF Next, Step

\* Of a step one thing concerns the queue ...
LEMMA QueueSteps ==
  ASSUME [Next]_vars
  PROVE  \/ UNCHANGED relayVars
         \/ \E r \in Requests : PushDraw(r) \/ PushCommit(r) \/ FetchLoad(r) \/ AckRemove(r)
         \/ CleanupRelay
  BY DEF Next, Step, PushVerify, BlobPushVerify, FetchVerify, AckVerify, BlobDeleteVerify,
         BlobUpsert, BlobDelete, Finish, BlobFetch, CleanupBlobs, Tick, vars

\* ... and one the blobs.
LEMMA BlobSteps ==
  ASSUME [Next]_vars
  PROVE  \/ UNCHANGED blobVars
         \/ \E r \in Requests : BlobUpsert(r) \/ BlobDelete(r)
         \/ \E d \in Devices : BlobFetch(d)
         \/ CleanupBlobs
  BY DEF Next, Step, PushVerify, BlobPushVerify, FetchVerify, AckVerify, BlobDeleteVerify,
         PushDraw, PushCommit, FetchLoad, AckRemove, Finish, CleanupRelay, Tick, vars

\* Time goes on.
LEMMA TimeGoesOn ==
  ASSUME TypeOK, [Next]_vars
  PROVE  now \in Nat /\ now' \in Nat /\ now <= now'
  <1>1. now \in Nat
    BY RowShape
  <1>2. now' = now \/ now' = now + 1
    BY DEF Next, Step, PushVerify, BlobPushVerify, FetchVerify, AckVerify, BlobDeleteVerify,
           PushDraw, PushCommit, FetchLoad, AckRemove, BlobUpsert, BlobDelete, Finish,
           BlobFetch, CleanupRelay, CleanupBlobs, Tick, vars
  <1>. QED
    BY <1>1, <1>2

\* What was accepted and received stays so, and with it the cursors.
LEMMA HistoryGrows ==
  ASSUME [Next]_vars
  PROVE  /\ stored \subseteq stored' /\ seen \subseteq seen' /\ late \subseteq late'
         /\ \A d : SeenBy(d) \subseteq SeenBy(d)'
  <1>1. stored \subseteq stored' /\ seen \subseteq seen' /\ late \subseteq late'
    BY QueueSteps DEF relayVars, PushDraw, PushCommit, FetchLoad, AckRemove, CleanupRelay
  <1>. QED
    BY <1>1 DEF SeenBy

LEMMA QueueRowsNext ==
  ASSUME IInv, [Next]_vars
  PROVE  QueueRows'
  <1> USE DEF IInv
  <1>1. CASE UNCHANGED relayVars
    BY <1>1 DEF relayVars, QueueRows
  <1>2. ASSUME NEW r \in Requests, PushDraw(r) PROVE QueueRows'
    <2>1. \A x \in stored : x.id <= lastId + 1
      BY RowShape DEF QueueRows
    <2>. QED
      BY <1>2, <2>1 DEF PushDraw, QueueRows
  <1>3. ASSUME NEW r \in Requests, PushCommit(r) PROVE QueueRows'
    <2> DEFINE row == [id |-> req[r].id, device |-> req[r].device,
                       expires |-> req[r].expires, born |-> req[r].born]
    <2>1. /\ relay' = relay \cup {row} /\ stored' = stored \cup {row}
          /\ seen' = seen /\ lastId' = lastId
      BY <1>3 DEF PushCommit
    <2>2. IsFiniteSet(relay')
      BY <2>1, FS_AddElement DEF QueueRows
    <2>3. row.id <= lastId /\ \A x \in stored : x.id # row.id
      BY <1>3 DEF PushCommit, DrawnIds
    <2>4. row.born + MinTtl <= row.expires
      BY <1>3 DEF PushCommit, Checked
    <2>. HIDE DEF row
    <2>. QED
      BY <2>1, <2>2, <2>3, <2>4 DEF QueueRows
  <1>4. ASSUME NEW r \in Requests, FetchLoad(r) PROVE QueueRows'
    <2>1. Page(req[r]) \subseteq stored
      BY DEF Page, Fetchable, QueueRows
    <2>2. seen' = seen \cup {x.id : x \in Page(req[r])}
      BY <1>4 DEF FetchLoad
    <2>3. \A i \in seen' : \E x \in stored : x.id = i
      BY <2>1, <2>2 DEF QueueRows
    <2>. QED
      BY <1>4, <2>3 DEF FetchLoad, QueueRows
  <1>5. ASSUME relay' \in SUBSET relay, UNCHANGED <<stored, seen, lastId>> PROVE QueueRows'
    <2>1. IsFiniteSet(relay')
      BY <1>5, FS_Subset DEF QueueRows
    <2>. QED
      BY <1>5, <2>1 DEF QueueRows
  <1>6. ASSUME NEW r \in Requests, AckRemove(r) PROVE QueueRows'
    BY <1>5, <1>6 DEF AckRemove
  <1>7. CASE CleanupRelay
    BY <1>5, <1>7 DEF CleanupRelay
  <1>. QED
    BY QueueSteps, <1>1, <1>2, <1>3, <1>4, <1>6, <1>7

LEMMA DrawnIdsNext ==
  ASSUME IInv, [Next]_vars
  PROVE  DrawnIds'
  <1> USE DEF IInv
  <1>1. ASSUME NEW r \in Requests, NEW q, q.pc # "commit", Continue(r, q),
               UNCHANGED <<stored, lastId>>
        PROVE  DrawnIds'
    BY <1>1 DEF Continue, DrawnIds, TypeOK
  <1>2. ASSUME UNCHANGED <<req, stored, lastId>> PROVE DrawnIds'
    BY <1>2 DEF DrawnIds
  <1>3. ASSUME NEW r \in Requests, PushDraw(r) PROVE DrawnIds'
    <2>1. lastId' = lastId + 1 /\ lastId \in Nat /\ stored' = stored
      BY <1>3, RowShape DEF PushDraw
    <2>2. \A s \in Requests : req[s].pc = "commit" => req[s].id \in Nat /\ req[s].id <= lastId
      BY RequestShape, Numbers DEF DrawnIds, Ids
    <2>3. \A x \in stored : x.id \in Nat /\ x.id <= lastId
      BY RowShape DEF QueueRows
    <2>4. /\ req'[r].pc = "commit" /\ req'[r].id = lastId + 1
          /\ \A s \in Requests : s # r => req'[s] = req[s]
      BY <1>3 DEF PushDraw, Continue, TypeOK
    <2>. QED
      BY <2>1, <2>2, <2>3, <2>4 DEF DrawnIds
  <1>4. ASSUME NEW r \in Requests, PushCommit(r) PROVE DrawnIds'
    <2>1. \A x \in stored' : x \in stored \/ x.id = req[r].id
      BY <1>4 DEF PushCommit
    <2>2. req'[r].pc = "idle" /\ \A s \in Requests : s # r => req'[s] = req[s]
      BY <1>4 DEF PushCommit, End, Continue, Idle, TypeOK
    <2>3. req[r].pc = "commit" /\ lastId' = lastId
      BY <1>4 DEF PushCommit
    <2>. QED
      BY <2>1, <2>2, <2>3 DEF DrawnIds
  <1>5. ASSUME NEW r \in Requests, NEW d \in Devices, NEW ttl \in Ttls,
               PushVerify(r, d, ttl) \/ BlobPushVerify(r, d, ttl)
        PROVE  DrawnIds'
    BY <1>1, <1>5 DEF PushVerify, BlobPushVerify, relayVars
  <1>6. ASSUME NEW r \in Requests, NEW d \in Devices, NEW i,
               FetchVerify(r, d, i) \/ AckVerify(r, d, i)
        PROVE  DrawnIds'
    BY <1>1, <1>6 DEF FetchVerify, AckVerify, relayVars
  <1>7. ASSUME NEW r \in Requests, NEW d \in Devices, BlobDeleteVerify(r, d) PROVE DrawnIds'
    BY <1>1, <1>7 DEF BlobDeleteVerify, relayVars
  <1>8. ASSUME NEW r \in Requests, FetchLoad(r) \/ AckRemove(r) \/ BlobUpsert(r)
                                   \/ BlobDelete(r) \/ Finish(r)
        PROVE  DrawnIds'
    BY <1>1, <1>8 DEF FetchLoad, AckRemove, BlobUpsert, BlobDelete, Finish, End, Idle, relayVars
  <1>9. CASE CleanupRelay \/ CleanupBlobs \/ Tick \/ UNCHANGED vars
             \/ \E d \in Devices : BlobFetch(d)
    BY <1>2, <1>9 DEF CleanupRelay, CleanupBlobs, Tick, BlobFetch, vars, relayVars
  <1>. QED
    BY <1>3, <1>4, <1>5, <1>6, <1>7, <1>8, <1>9 DEF Next, Step

LEMMA CheckedNext ==
  ASSUME IInv, [Next]_vars
  PROVE  Checked'
  <1> USE DEF IInv
  \* SeenBy(d), and what Checked says of a request q, after the step.
  <1> DEFINE After(d) == {x.id : x \in {y \in stored' : y.device = d /\ y.id \in seen'}}
             Sound(q) ==
        /\ q.pc \in {"draw", "upsert", "commit"} => q.born + MinTtl <= q.expires
        /\ q.pc = "load" => q.since \in After(q.device) \cup {0} /\ q.at <= now'
        /\ q.pc = "remove" => q.upTo \in After(q.device)
  <1>1. SUFFICES \A s \in Requests : Sound(req'[s])
    BY DEF Checked, SeenBy
  <1>2. \A d : SeenBy(d) \subseteq After(d)
    BY HistoryGrows DEF SeenBy
  <1> HIDE DEF After
  <1>3. now \in Nat /\ now' \in Nat /\ now <= now'
    BY TimeGoesOn
  <1>4. ASSUME NEW s \in Requests PROVE Sound(req[s])
    <2>1. req[s].pc = "load" => req[s].at <= now'
      <3>1. req[s].pc = "load" => req[s].at \in Nat /\ req[s].at <= now
        BY RequestShape, Numbers DEF Checked
      <3>. QED
        BY <3>1, <1>3
    <2>. QED
      BY <1>2, <2>1 DEF Checked
  <1>5. ASSUME NEW r \in Requests, NEW q, Continue(r, q), Sound(q)
        PROVE  \A s \in Requests : Sound(req'[s])
    <2>1. \A s \in Requests : s # r => Sound(req[s])
      BY <1>4
    <2>. HIDE DEF Sound
    <2>. QED
      BY <1>5, <2>1 DEF Continue, TypeOK
  <1>6. ASSUME req' = req
        PROVE  \A s \in Requests : Sound(req'[s])
    <2>1. \A s \in Requests : Sound(req[s])
      BY <1>4
    <2>. HIDE DEF Sound
    <2>. QED
      BY <1>6, <2>1
  <1> DEFINE Goal == \A s \in Requests : Sound(req'[s])
  <1>7. ASSUME NEW r \in Requests, NEW d \in Devices, NEW ttl \in Ttls,
               PushVerify(r, d, ttl) \/ BlobPushVerify(r, d, ttl)
        PROVE  Goal
    <2>1. now + MinTtl <= now + Life(ttl)
      BY ExpiryBounds DEF TypeOK
    <2>2. PICK l \in {"draw", "upsert"} :
            Continue(r, [pc |-> l, device |-> d, expires |-> now + Life(ttl), born |-> now])
      BY <1>7 DEF PushVerify, BlobPushVerify
    <2>3. Sound([pc |-> l, device |-> d, expires |-> now + Life(ttl), born |-> now])
      BY <2>1
    <2>. HIDE DEF Sound
    <2>. QED
      BY <1>5, <2>2, <2>3
  <1>8. ASSUME NEW r \in Requests, NEW d \in Devices, NEW since \in SeenBy(d) \cup {0},
               FetchVerify(r, d, since)
        PROVE  Goal
    <2> DEFINE q == [pc |-> "load", device |-> d, since |-> since, at |-> now]
    <2>1. Continue(r, q)
      BY <1>8 DEF FetchVerify
    <2>2. Sound(q)
      BY <1>2, <1>3
    <2>. HIDE DEF Sound, q
    <2>. QED
      BY <1>5, <2>1, <2>2
  <1>9. ASSUME NEW r \in Requests, NEW d \in Devices, NEW upTo \in SeenBy(d),
               AckVerify(r, d, upTo)
        PROVE  Goal
    <2> DEFINE q == [pc |-> "remove", device |-> d, upTo |-> upTo]
    <2>1. Continue(r, q)
      BY <1>9 DEF AckVerify
    <2>2. Sound(q)
      BY <1>2
    <2>. HIDE DEF Sound, q
    <2>. QED
      BY <1>5, <2>1, <2>2
  <1>10. ASSUME NEW r \in Requests, NEW d \in Devices, BlobDeleteVerify(r, d) PROVE Goal
    <2> DEFINE q == [pc |-> "delBlob", device |-> d]
    <2>1. Continue(r, q)
      BY <1>10 DEF BlobDeleteVerify
    <2>2. Sound(q)
      OBVIOUS
    <2>. HIDE DEF Sound, q
    <2>. QED
      BY <1>5, <2>1, <2>2
  <1>11. ASSUME NEW r \in Requests, PushDraw(r) PROVE Goal
    <2> DEFINE q == [pc |-> "commit", id |-> lastId + 1, device |-> req[r].device,
                     expires |-> req[r].expires, born |-> req[r].born]
    <2>1. Continue(r, q)
      BY <1>11 DEF PushDraw
    <2>2. Sound(q)
      BY <1>11 DEF PushDraw, Checked
    <2>. HIDE DEF Sound, q
    <2>. QED
      BY <1>5, <2>1, <2>2
  <1>12. ASSUME NEW r \in Requests, PushCommit(r) \/ FetchLoad(r) \/ AckRemove(r)
                                    \/ BlobUpsert(r) \/ BlobDelete(r) \/ Finish(r)
         PROVE  Goal
    <2>1. Continue(r, Idle)
      BY <1>12 DEF PushCommit, FetchLoad, AckRemove, BlobUpsert, BlobDelete, Finish, End
    <2>2. Sound(Idle)
      BY DEF Idle
    <2>. HIDE DEF Sound
    <2>. QED
      BY <1>5, <2>1, <2>2
  <1>13. ASSUME CleanupRelay \/ CleanupBlobs \/ Tick \/ UNCHANGED vars
                \/ \E d \in Devices : BlobFetch(d)
         PROVE  Goal
    <2>1. req' = req
      BY <1>13 DEF CleanupRelay, CleanupBlobs, Tick, BlobFetch, vars
    <2>. QED
      BY <1>6, <2>1
  <1>. HIDE DEF Goal
  <1>14. Goal
    BY <1>7, <1>8, <1>9, <1>10, <1>11, <1>12, <1>13 DEF Next, Step
  <1>. QED
    BY <1>14 DEF Goal

\* What the queue loses has been received, is overtaken or is old enough: an
\* acknowledgement removes below an id of the device (NoGapBelowSeen), the
\* cleanup only what has expired.
LEMMA RelayNext ==
  ASSUME IInv, [Next]_vars
  PROVE  RelayNotLost'
  <1> USE DEF IInv
  <1> DEFINE Kept(x) == x \in relay \/ x.id \in seen \/ x.id \in late \/ now >= x.born + MinTtl
  <1>1. now \in Nat /\ now' \in Nat /\ now <= now'
    BY TimeGoesOn
  <1>2. seen \subseteq seen' /\ late \subseteq late'
    BY HistoryGrows
  <1>3. \A x \in stored : x.id \in Nat /\ x.expires \in Nat /\ x.born \in Nat
    BY RowShape
  <1>4. \A x \in stored : Kept(x)
    BY DEF RelayNotLost
  <1>5. SUFFICES \A x \in stored' : Kept(x)'
    BY DEF RelayNotLost
  <1>6. ASSUME NEW x \in stored, x \in relay => x \in relay' \/ Kept(x)' PROVE Kept(x)'
    BY <1>1, <1>2, <1>3, <1>4, <1>6, Numbers
  <1>7. CASE stored' = stored /\ relay' = relay
    BY <1>6, <1>7
  <1>8. ASSUME NEW r \in Requests, PushCommit(r) PROVE \A x \in stored' : Kept(x)'
    <2>1. relay \subseteq relay' /\ \A x \in stored' : x \in stored \/ x \in relay'
      BY <1>8 DEF PushCommit
    <2>. QED
      BY <1>6, <2>1
  <1>9. ASSUME NEW r \in Requests, AckRemove(r) PROVE \A x \in stored' : Kept(x)'
    <2>1. stored' = stored /\ seen' = seen /\ late' = late /\ now' = now
      BY <1>9 DEF AckRemove
    <2>2. req[r].upTo \in SeenBy(req[r].device) /\ req[r].upTo \in Nat
      BY <1>9, RequestShape, Numbers DEF AckRemove, Checked, Ids
    <2>3. ASSUME NEW x \in stored, x \in relay, x \notin relay' PROVE Kept(x)'
      <3>1. x.device = req[r].device /\ x.id <= req[r].upTo
        BY <1>9, <2>3 DEF AckRemove, Acked
      <3>2. CASE x.id = req[r].upTo
        BY <2>1, <2>2, <3>2 DEF SeenBy
      <3>3. CASE x.id < req[r].upTo
        BY <2>1, <2>2, <2>3, <3>1, <3>3 DEF NoGapBelowSeen
      <3>. QED
        BY <1>3, <2>2, <3>1, <3>2, <3>3
    <2>. QED
      BY <1>6, <2>1, <2>3
  <1>10. CASE CleanupRelay
    <2>1. stored' = stored /\ now' = now
      BY <1>10 DEF CleanupRelay
    <2>2. ASSUME NEW x \in stored, x \in relay, x \notin relay' PROVE Kept(x)'
      <3>1. x.expires < now
        BY <1>10, <2>2 DEF CleanupRelay, Expired
      <3>2. x.born + MinTtl <= x.expires
        BY DEF QueueRows
      <3>. QED
        BY <3>1, <3>2, <2>1, <1>1, <1>3, Numbers
    <2>. QED
      BY <1>6, <2>1, <2>2
  <1>. HIDE DEF Kept
  <1>11. CASE UNCHANGED relayVars
    BY <1>7, <1>11 DEF relayVars
  <1>12. ASSUME NEW r \in Requests, PushDraw(r) \/ FetchLoad(r) PROVE \A x \in stored' : Kept(x)'
    BY <1>7, <1>12 DEF PushDraw, FetchLoad
  <1>. QED
    BY QueueSteps, <1>8, <1>9, <1>10, <1>11, <1>12

\* A row that becomes visible below a received id is overtaken; a page that
\* reaches a row has every live row between the cursor and it.
LEMMA GapNext ==
  ASSUME IInv, [Next]_vars
  PROVE  NoGapBelowSeen'
  <1> USE DEF IInv
  <1> DEFINE Fine(x) == x.id \in seen \/ x.id \in late \/ now >= x.born + MinTtl
  <1>1. now \in Nat /\ now' \in Nat /\ now <= now'
    BY TimeGoesOn
  <1>2. seen \subseteq seen' /\ late \subseteq late'
    BY HistoryGrows
  <1>3. \A x \in stored : x.id \in Nat /\ x.id > 0 /\ x.expires \in Nat /\ x.born \in Nat
    BY RowShape
  <1>4. \A x \in relay : \A i \in SeenBy(x.device) : x.id < i => Fine(x)
    BY DEF NoGapBelowSeen
  <1>5. ASSUME NEW x \in stored, Fine(x) PROVE Fine(x)'
    BY <1>1, <1>2, <1>3, <1>5, Numbers
  <1>6. ASSUME relay' \subseteq relay, UNCHANGED <<stored, seen>> PROVE NoGapBelowSeen'
    <2>1. \A x \in relay' : \A i \in SeenBy(x.device) : x.id < i => Fine(x)'
      BY <1>4, <1>5, <1>6 DEF QueueRows
    <2>. QED
      BY <1>6, <2>1 DEF NoGapBelowSeen, SeenBy
  <1>7. ASSUME NEW r \in Requests, PushCommit(r) PROVE NoGapBelowSeen'
    <2> DEFINE row == [id |-> req[r].id, device |-> req[r].device,
                       expires |-> req[r].expires, born |-> req[r].born]
    <2>1. /\ relay' = relay \cup {row} /\ stored' = stored \cup {row} /\ seen' = seen
          /\ late' = IF \E y \in stored : y.device = row.device /\ y.id > row.id
                     THEN late \cup {row.id} ELSE late
      BY <1>7 DEF PushCommit
    <2>2. row.id \notin seen /\ row.id \in Nat
      BY <1>7, RequestShape, Numbers DEF PushCommit, DrawnIds, QueueRows, Ids
    <2>. HIDE DEF row
    <2>3. \A d : SeenBy(d)' = SeenBy(d)
      BY <2>1, <2>2 DEF SeenBy
    <2>4. ASSUME NEW i \in SeenBy(row.device), row.id < i PROVE row.id \in late'
      <3>1. PICK y \in stored : y.device = row.device /\ y.id = i
        BY DEF SeenBy
      <3>. QED
        BY <2>1, <2>4, <3>1, <2>2, <1>3
    <2>5. \A x \in relay : \A i \in SeenBy(x.device) : x.id < i => Fine(x)'
      BY <1>4, <1>5 DEF QueueRows
    <2>6. ASSUME NEW x \in relay', NEW i \in SeenBy(x.device), x.id < i PROVE Fine(x)'
      BY <2>1, <2>4, <2>5, <2>6
    <2>. QED
      BY <2>3, <2>6 DEF NoGapBelowSeen
  <1>8. ASSUME NEW r \in Requests, FetchLoad(r) PROVE NoGapBelowSeen'
    <2> DEFINE q == req[r]
    <2>1. /\ seen' = seen \cup {z.id : z \in Page(q)}
          /\ relay' = relay /\ stored' = stored /\ late' = late /\ now' = now
      BY <1>8 DEF FetchLoad
    <2>2. /\ q.since \in SeenBy(q.device) \cup {0} /\ q.at <= now
          /\ q.at \in Nat /\ q.since \in Nat
      BY <1>8, RequestShape, Numbers DEF FetchLoad, Checked
    <2>3. SUFFICES ASSUME NEW x \in relay, NEW i \in SeenBy(x.device)', x.id < i
                   PROVE  Fine(x)'
      BY <2>1 DEF NoGapBelowSeen
    <2>4. PICK w \in stored : w.device = x.device /\ w.id = i /\ w.id \in seen'
      BY <2>1 DEF SeenBy
    <2>5. x \in stored
      BY DEF QueueRows
    <2>6. CASE w.id \in seen
      <3>1. i \in SeenBy(x.device)
        BY <2>4, <2>6 DEF SeenBy
      <3>. QED
        BY <1>4, <1>5, <2>3, <2>5, <3>1
    <2>7. CASE w.id \notin seen
      <3>1. PICK z \in Page(q) : z.id = w.id
        BY <2>1, <2>4, <2>7
      <3>2. z \in relay /\ z.device = q.device /\ z.id > q.since
        BY DEF Page, Fetchable
      <3>3. z = w
        BY <3>1, <3>2 DEF QueueRows
      <3>4. x.device = q.device /\ x.id < z.id
        BY <3>1, <3>2, <3>3, <2>3, <2>4
      <3>5. CASE x.id <= q.since
        <4>1. q.since \in SeenBy(q.device)
          BY <2>2, <2>5, <3>5, <1>3
        <4>2. CASE x.id = q.since
          BY <4>1, <4>2, <1>2 DEF SeenBy
        <4>3. CASE x.id < q.since
          BY <4>1, <4>3, <3>4, <1>4, <1>5, <2>5
        <4>. QED
          BY <4>2, <4>3, <3>5, <2>2, <2>5, <1>3
      <3>6. CASE x.id > q.since /\ x.expires > q.at
        <4>1. x \in Fetchable(q)
          BY <3>4, <3>6 DEF Fetchable
        <4>2. x \in Page(q)
          BY <4>1, <3>1, <3>4, PageIsPrefix
        <4>. QED
          BY <4>2, <2>1
      <3>7. CASE ~(x.expires > q.at)
        <4>1. x.born + MinTtl <= x.expires
          BY <2>5 DEF QueueRows
        <4>. QED
          BY <4>1, <3>7, <2>1, <2>2, <2>5, <1>1, <1>3, Numbers
      <3>. QED
        BY <3>5, <3>6, <3>7, <2>2, <2>5, <1>3
    <2>. QED
      BY <2>6, <2>7
  <1>. HIDE DEF Fine
  <1>9. CASE UNCHANGED relayVars
    BY <1>6, <1>9 DEF relayVars
  <1>10. ASSUME NEW r \in Requests, PushDraw(r) \/ AckRemove(r) PROVE NoGapBelowSeen'
    BY <1>6, <1>10 DEF PushDraw, AckRemove
  <1>11. CASE CleanupRelay
    BY <1>6, <1>11 DEF CleanupRelay
  <1>. QED
    BY QueueSteps, <1>7, <1>8, <1>9, <1>10, <1>11

\* Blobs: an upsert replaces the older blob of its device, a DELETE removes only
\* what its device was sent before.
LEMMA BlobNext ==
  ASSUME IInv, [Next]_vars
  PROVE  BlobRows' /\ BlobNotLost'
  <1> USE DEF IInv
  <1> DEFINE Newer(b) == \E c \in pushed : c.device = b.device /\ c.no > b.no
             Kept(b) == \/ b \in blobs \/ b.no \in read \/ b.no \in erased
                        \/ now >= b.born + MinTtl \/ Newer(b)
  <1>1. now \in Nat /\ now' \in Nat /\ now <= now'
    BY TimeGoesOn
  <1>2. \A b \in pushed : b.no \in Nat /\ b.expires \in Nat /\ b.born \in Nat
    BY RowShape
  <1>3. \A b \in pushed : Kept(b)
    BY DEF BlobNotLost
  <1>4. ASSUME pushed' = pushed, read \subseteq read', erased \subseteq erased',
               \A b \in blobs : b \in blobs' \/ Kept(b)'
        PROVE  BlobNotLost'
    <2>1. \A b \in pushed : now >= b.born + MinTtl => now' >= b.born + MinTtl
      BY <1>1, <1>2, Numbers
    <2>2. \A b \in pushed : Kept(b)'
      BY <1>3, <1>4, <2>1
    <2>. QED
      BY <1>4, <2>2 DEF BlobNotLost
  <1>5. CASE UNCHANGED blobVars
    <2>1. BlobRows'
      BY <1>5 DEF blobVars, BlobRows
    <2>2. BlobNotLost'
      BY <1>4, <1>5 DEF blobVars
    <2>. QED
      BY <2>1, <2>2
  <1>6. ASSUME NEW r \in Requests, BlobUpsert(r) PROVE BlobRows' /\ BlobNotLost'
    <2> DEFINE b == [no |-> lastBlob + 1, device |-> req[r].device,
                     expires |-> req[r].expires, born |-> req[r].born]
    <2>1. /\ lastBlob' = lastBlob + 1 /\ lastBlob \in Nat
          /\ blobs' = {x \in blobs : x.device # b.device} \cup {b}
          /\ pushed' = pushed \cup {b}
          /\ read' = read /\ erased' = erased /\ now' = now
      BY <1>6, RowShape DEF BlobUpsert, Upsert
    <2>2. b.born + MinTtl <= b.expires /\ b.no = lastBlob + 1
      BY <1>6 DEF BlobUpsert, Checked
    <2>. HIDE DEF b
    <2>3. \A c \in pushed : c.no <= lastBlob
      BY DEF BlobRows
    <2>4. BlobRows'
      <3>1. blobs' \subseteq pushed'
        BY <2>1 DEF BlobRows
      <3>2. \A x \in pushed' : x.no <= lastBlob' /\ x.born + MinTtl <= x.expires
        BY <2>1, <2>2, <2>3, <1>2 DEF BlobRows
      <3>. QED
        BY <3>1, <3>2 DEF BlobRows
    <2>5. ASSUME NEW c \in pushed PROVE Kept(c)'
      <3>1. CASE c \in blobs /\ c \notin blobs'
        <4>1. c.device = b.device /\ c.no < b.no
          BY <3>1, <2>1, <2>2, <2>3, <1>2
        <4>. QED
          BY <4>1, <2>1, <2>2, <1>2
      <3>2. CASE ~(c \in blobs /\ c \notin blobs')
        BY <3>2, <1>3, <2>1
      <3>. QED
        BY <3>1, <3>2
    <2>6. BlobNotLost'
      BY <2>1, <2>5 DEF BlobNotLost
    <2>. QED
      BY <2>4, <2>6
  <1>7. ASSUME NEW r \in Requests, BlobDelete(r) PROVE BlobRows' /\ BlobNotLost'
    <2>1. /\ blobs' = {x \in blobs : x.device # req[r].device}
          /\ erased' = erased \cup {x.no : x \in {y \in pushed : y.device = req[r].device}}
          /\ UNCHANGED <<lastBlob, pushed, read>>
      BY <1>7 DEF BlobDelete
    <2>2. BlobRows'
      BY <2>1 DEF BlobRows
    <2>3. \A b \in blobs : b \in blobs' \/ b.no \in erased'
      BY <2>1 DEF BlobRows
    <2>4. BlobNotLost'
      BY <1>4, <2>1, <2>3
    <2>. QED
      BY <2>2, <2>4
  <1>8. ASSUME NEW d \in Devices, BlobFetch(d) PROVE BlobRows' /\ BlobNotLost'
    <2>1. PICK b \in blobs : b.device = d /\ read' = read \cup {b.no}
      BY <1>8 DEF BlobFetch
    <2>2. UNCHANGED <<blobs, lastBlob, pushed, erased>>
      BY <1>8 DEF BlobFetch
    <2>3. BlobRows'
      BY <2>1, <2>2 DEF BlobRows
    <2>4. BlobNotLost'
      BY <1>4, <2>1, <2>2
    <2>. QED
      BY <2>3, <2>4
  <1>9. CASE CleanupBlobs
    <2>1. /\ blobs' = {b \in blobs : ~(b.expires < now)} /\ now' = now
          /\ UNCHANGED <<lastBlob, pushed, read, erased>>
      BY <1>9 DEF CleanupBlobs, Expired
    <2>2. BlobRows'
      BY <2>1 DEF BlobRows
    <2>3. \A b \in blobs : b \in blobs' \/ now >= b.born + MinTtl
      BY <2>1, <1>1, <1>2, Numbers DEF BlobRows
    <2>4. BlobNotLost'
      BY <1>4, <2>1, <2>3
    <2>. QED
      BY <2>2, <2>4
  <1>. QED
    BY BlobSteps, <1>5, <1>6, <1>7, <1>8, <1>9

LEMMA Invariance == Spec => []IInv
  <1>1. Init => IInv
    <2>1. ASSUME Init PROVE TypeOK
      BY <2>1, Numbers DEF Init, TypeOK, Request
    <2>2. ASSUME Init PROVE QueueRows /\ BlobRows
      BY <2>2, FS_EmptySet DEF Init, QueueRows, BlobRows
    <2>3. ASSUME Init PROVE DrawnIds /\ Checked
      BY <2>3 DEF Init, DrawnIds, Checked, Idle
    <2>4. ASSUME Init PROVE RelayNotLost /\ NoGapBelowSeen /\ BlobNotLost
      BY <2>4 DEF Init, RelayNotLost, NoGapBelowSeen, BlobNotLost
    <2>. QED
      BY <2>1, <2>2, <2>3, <2>4 DEF IInv
  <1>2. IInv /\ [Next]_vars => IInv'
    <2>1. IInv /\ [Next]_vars => TypeOK'
      BY TypeNext DEF IInv
    <2>. QED
      BY <2>1, QueueRowsNext, DrawnIdsNext, CheckedNext, RelayNext, GapNext, BlobNext DEF IInv
  <1>. QED
    BY <1>1, <1>2, PTL DEF Spec

-----------------------------------------------------------------------------
\* Both tables, the requests and the histories keep their types, whatever
\* requests interleave.
THEOREM TypeCorrect == Spec => []TypeOK
  BY Invariance, PTL DEF IInv

\* However pushes, pages, cumulative acknowledgements and cleanups of one mailbox
\* interleave, an accepted relay message that was not overtaken stays until the
\* device has received it or its minimal life is over, and a page skips nothing
\* (relay.rs: relay_push, relay_fetch, relay_ack).
THEOREM QueueIsReliable == Spec => [](RelayNotLost /\ NoGapBelowSeen)
  BY Invariance, PTL DEF IInv

\* A blob stays until it is read or replaced, its minimal life is over or a DELETE
\* of its own device runs, a retried or late one included (sync_blob.rs).
THEOREM BlobIsReliable == Spec => []BlobNotLost
  BY Invariance, PTL DEF IInv
=============================================================================
