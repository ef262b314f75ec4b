---------------------------- MODULE PrekeysProof ----------------------------
(***************************************************************************)
(* Proofs about Prekeys for any users, batches, number of requests in      *)
(* flight and bounds.                                                      *)
(***************************************************************************)
EXTENDS Prekeys, TLAPS

\* A row id the sequence has not reached was never handed out.
UndrawnNeverHanded == \A i \in RowIds : i > lastId =>
                         \A r \in Requests : handed[r][i] = 0

\* A slot that picked a row has not handed this row out before, and the
\* sequence has passed the row.
PickedNotHanded == \A r \in Requests : req[r].pc = "mark" =>
                      /\ req[r].row <= lastId
                      /\ handed[r][req[r].row] = 0

\* The inductive invariant.  OncePerSlot alone is not inductive: a slot about
\* to mark a row must not have handed it out, which follows at the pick from
\* UnusedNeverHanded, which an upload keeps because of UndrawnNeverHanded.
IInv == /\ TypeOK
        /\ UnusedNeverHanded
        /\ UndrawnNeverHanded
        /\ PickedNotHanded
        /\ OncePerSlot

\* The shape of a request at each position.
LEMMA RequestShape ==
  ASSUME TypeOK, NEW r \in Requests
  PROVE  /\ req[r] \in Request
         /\ req[r].pc = "insert" => /\ req[r].user \in Users
                                    /\ req[r].key \in Keys
                                    /\ req[r].batch \in Batches
         /\ req[r].pc = "target" => req[r].target \in Users
         /\ req[r].pc = "pick" => /\ req[r].target \in Users
                                  /\ req[r].bundle \in Keys
         /\ req[r].pc = "mark" => /\ req[r].target \in Users
                                  /\ req[r].bundle \in Keys
                                  /\ req[r].row \in RowIds
                                  /\ req[r].key \in Keys
  BY DEF TypeOK, Request, Idle

\* The INSERT keeps every row that was there and adds unused rows whose ids the
\* sequence had not reached.
LEMMA InsertAddsFreshRows ==
  ASSUME TypeOK, NEW r \in Requests, req[r].pc = "insert",
         lastId + Len(req[r].batch) <= MaxRow
  PROVE  LET t == InsertRows(req[r])
         IN  /\ t = [i \in DOMAIN t |-> t[i]]
             /\ DOMAIN otpk \subseteq DOMAIN t
             /\ DOMAIN t \subseteq 1..(lastId + Len(req[r].batch))
             /\ \A i \in DOMAIN otpk : t[i] = otpk[i]
             /\ \A i \in DOMAIN t \ DOMAIN otpk :
                   i > lastId /\ i \in RowIds /\ t[i] \in Row /\ ~t[i].used
  <1> DEFINE q == req[r]
             new == {lastId + n : n \in Fresh(q.user, q.batch)}
             t == InsertRows(q)
  <1>1. /\ q.user \in Users /\ q.key \in Keys
        /\ q.batch \in Seq(PrekeyIds) /\ lastId \in Nat /\ MaxRow \in Nat
    BY RequestShape, BatchesAssumption, BoundsAssumption DEF TypeOK
  <1>2. Fresh(q.user, q.batch) \subseteq 1..Len(q.batch)
    BY <1>1 DEF Fresh
  <1>3. \A i \in new : /\ i > lastId /\ i <= lastId + Len(q.batch)
                       /\ i \in RowIds /\ i - lastId \in 1..Len(q.batch)
    BY <1>1, <1>2 DEF RowIds
  <1>4. /\ DOMAIN t = DOMAIN otpk \cup new
        /\ t = [i \in DOMAIN t |-> t[i]]
        /\ \A i \in DOMAIN otpk : t[i] = otpk[i]
        /\ \A i \in new \ DOMAIN otpk :
             t[i] = [user |-> q.user, prekey |-> q.batch[i - lastId],
                     key |-> q.key, used |-> FALSE]
    BY DEF InsertRows
  <1>5. \A i \in new : q.batch[i - lastId] \in PrekeyIds
    BY <1>1, <1>3
  <1> HIDE DEF t, new, q
  <1>6. ASSUME NEW i \in new \ DOMAIN otpk PROVE t[i] \in Row /\ ~t[i].used
    <2>1. q.batch[i - lastId] \in PrekeyIds
      BY <1>5
    <2>2. t[i] = [user |-> q.user, prekey |-> q.batch[i - lastId],
                  key |-> q.key, used |-> FALSE]
      BY <1>4
    <2>. QED
      BY <1>1, <2>1, <2>2 DEF Row
  <1>7. DOMAIN t \subseteq 1..(lastId + Len(q.batch))
    <2>1. DOMAIN otpk \subseteq 1..lastId
      BY DEF TypeOK
    <2>2. Len(q.batch) \in Nat
      BY <1>1
    <2>. QED
      BY <1>1, <1>3, <1>4, <2>1, <2>2 DEF RowIds
  <1>. QED
    BY <1>3, <1>4, <1>6, <1>7 DEF t, q

\* The UPDATE changes the used column of one row and nothing else.
LEMMA MarkedChangesOneRow ==
  ASSUME TypeOK, NEW i \in RowIds
  PROVE  LET t == Marked(i)
         IN  /\ t = [j \in DOMAIN t |-> t[j]]
             /\ DOMAIN t = DOMAIN otpk
             /\ \A j \in DOMAIN t : t[j] \in Row
             /\ \A j \in DOMAIN t : j # i => t[j] = otpk[j]
             /\ i \in DOMAIN t => t[i].used
             /\ \A j \in DOMAIN t : /\ t[j].user = otpk[j].user
                                    /\ t[j].prekey = otpk[j].prekey
                                    /\ otpk[j].used => t[j].used
  BY DEF TypeOK, Marked, Row

\* The empty tables satisfy the inductive invariant.
LEMMA InitInv == Init => IInv
  BY BoundsAssumption DEF Init, IInv, TypeOK, UnusedNeverHanded,
     UndrawnNeverHanded, PickedNotHanded, OncePerSlot, Idle, Request, RowIds

\* Steps that leave the table, the sequence and the history alone, and leave
\* no slot at "mark" that was not there.
LEMMA QuietSteps ==
  ASSUME IInv, UNCHANGED <<otpk, lastId, handed>>, TypeOK',
         \A r \in Requests : req'[r].pc = "mark" => req'[r] = req[r]
  PROVE  IInv'
  BY DEF IInv, UnusedNeverHanded, UndrawnNeverHanded, PickedNotHanded,
     OncePerSlot

\* Every step preserves the inductive invariant.
LEMMA NextInv ==
  ASSUME IInv, [Next]_vars
  PROVE  IInv'
  <1> USE BoundsAssumption
  <1> TypeOK
    BY DEF IInv
  <1>1. ASSUME NEW u \in Users, Register(u) PROVE IInv'
    <2>1. TypeOK'
      BY <1>1 DEF Register, TypeOK
    <2>. QED
      BY <1>1, <2>1, QuietSteps DEF Register
  <1>2. ASSUME NEW u \in Users, RecoveryClaim(u) PROVE IInv'
    <2>1. TypeOK'
      BY <1>2 DEF RecoveryClaim, TypeOK
    <2>. QED
      BY <1>2, <2>1, QuietSteps DEF RecoveryClaim
  <1>3. ASSUME NEW u \in Users, DeleteUser(u) PROVE IInv'
    <2>1. TypeOK'
      BY <1>3 DEF DeleteUser, Cascade, TypeOK
    <2>2. UnusedNeverHanded'
      BY <1>3 DEF DeleteUser, Cascade, IInv, UnusedNeverHanded
    <2>. QED
      BY <1>3, <2>1, <2>2 DEF DeleteUser, IInv, UndrawnNeverHanded,
         PickedNotHanded, OncePerSlot
  <1>4. ASSUME NEW r \in Requests, NEW u \in Users, NEW b \in Batches,
               UploadVerify(r, u, b)
        PROVE  IInv'
    <2>1. users[u] \in Keys
      BY <1>4 DEF UploadVerify, TypeOK, Keys
    <2>2. TypeOK'
      BY <1>4, <2>1 DEF UploadVerify, TypeOK, Request
    <2>. QED
      BY <1>4, <2>2, QuietSteps DEF UploadVerify, TypeOK
  <1>5. ASSUME NEW r \in Requests, UploadInsert(r) PROVE IInv'
    <2> DEFINE t == InsertRows(req[r])
    <2>1. /\ t = [i \in DOMAIN t |-> t[i]]
          /\ DOMAIN t \subseteq 1..(lastId + Len(req[r].batch))
          /\ \A i \in DOMAIN otpk : t[i] = otpk[i]
          /\ \A i \in DOMAIN t \ DOMAIN otpk :
                i > lastId /\ i \in RowIds /\ t[i] \in Row /\ ~t[i].used
      BY <1>5, InsertAddsFreshRows DEF UploadInsert
    <2>2. Len(req[r].batch) \in Nat /\ lastId \in Nat
      BY <1>5, RequestShape, BatchesAssumption DEF UploadInsert, TypeOK
    <2>3. /\ otpk' = t /\ lastId' = lastId + Len(req[r].batch)
          /\ lastId' <= MaxRow
          /\ UNCHANGED <<users, lastKey, handed>>
          /\ req' = [req EXCEPT ![r] = Idle]
      BY <1>5 DEF UploadInsert
    <2> HIDE DEF t
    <2>4. TypeOK'
      BY <2>1, <2>2, <2>3 DEF TypeOK, Request
    <2>5. UnusedNeverHanded'
      BY <2>1, <2>3 DEF IInv, UnusedNeverHanded, UndrawnNeverHanded
    <2>6. UndrawnNeverHanded'
      BY <2>2, <2>3 DEF IInv, UndrawnNeverHanded, RowIds
    <2>7. PickedNotHanded'
      <3>1. ASSUME NEW s \in Requests, req'[s].pc = "mark"
            PROVE  req'[s] = req[s] /\ req[s].row \in Nat
        BY <2>3, <3>1, RequestShape DEF TypeOK, Idle, RowIds
      <3>. QED
        BY <2>2, <2>3, <3>1 DEF IInv, PickedNotHanded
    <2>8. OncePerSlot'
      BY <2>3 DEF IInv, OncePerSlot
    <2>. QED
      BY <2>4, <2>5, <2>6, <2>7, <2>8 DEF IInv
  <1>6. ASSUME NEW r \in Requests, NEW u \in Users, NEW t \in Users,
               FetchVerify(r, u, t)
        PROVE  IInv'
    <2>1. TypeOK'
      BY <1>6 DEF FetchVerify, TypeOK, Request
    <2>. QED
      BY <1>6, <2>1, QuietSteps DEF FetchVerify, TypeOK
  <1>7. ASSUME NEW r \in Requests, FetchTarget(r) PROVE IInv'
    <2>1. req[r].target \in Users /\ users[req[r].target] \in Keys
      BY <1>7, RequestShape DEF FetchTarget, TypeOK, Keys
    <2>2. TypeOK'
      BY <1>7, <2>1 DEF FetchTarget, TypeOK, Request
    <2>. QED
      BY <1>7, <2>2, QuietSteps DEF FetchTarget, TypeOK
  <1>8. ASSUME NEW r \in Requests, FetchPick(r) PROVE IInv'
    <2> DEFINE q == req[r]
    <2>1. q.target \in Users /\ q.bundle \in Keys
      BY <1>8, RequestShape DEF FetchPick
    <2>2. CASE req' = [req EXCEPT ![r] = [pc |-> "reply", bundle |-> q.bundle,
                                          row |-> NoRow, key |-> q.bundle]]
      <3>1. TypeOK'
        BY <1>8, <2>1, <2>2 DEF FetchPick, TypeOK, Request
      <3>. QED
        BY <1>8, <2>2, <3>1, QuietSteps DEF FetchPick, TypeOK
    <2>3. ASSUME NEW i \in Unused(q.target),
                 req' = [req EXCEPT ![r] =
                           [pc |-> "mark", target |-> q.target,
                            bundle |-> q.bundle, row |-> i, key |-> otpk[i].key]]
          PROVE  IInv'
      <3>1. /\ i \in DOMAIN otpk /\ ~otpk[i].used /\ otpk[i].key \in Keys
            /\ i \in RowIds /\ i <= lastId
        BY DEF Unused, TypeOK, Row, RowIds
      <3>2. TypeOK'
        BY <1>8, <2>1, <2>3, <3>1 DEF FetchPick, TypeOK, Request
      <3>3. PickedNotHanded'
        BY <1>8, <2>3, <3>1 DEF FetchPick, TypeOK, IInv, PickedNotHanded,
           UnusedNeverHanded
      <3>. QED
        BY <1>8, <3>2, <3>3 DEF FetchPick, IInv, UnusedNeverHanded,
           UndrawnNeverHanded, OncePerSlot
    <2>. QED
      BY <1>8, <2>2, <2>3 DEF FetchPick
  <1>9. ASSUME NEW r \in Requests, FetchMark(r) PROVE IInv'
    <2> DEFINE i == req[r].row
               t == Marked(i)
    <2>1. /\ i \in RowIds /\ req[r].bundle \in Keys /\ req[r].key \in Keys
          /\ i <= lastId /\ handed[r][i] = 0
      BY <1>9, RequestShape DEF FetchMark, IInv, PickedNotHanded
    <2>2. /\ t = [j \in DOMAIN t |-> t[j]]
          /\ DOMAIN t = DOMAIN otpk
          /\ \A j \in DOMAIN t : t[j] \in Row
          /\ \A j \in DOMAIN t : j # i => t[j] = otpk[j]
          /\ i \in DOMAIN t => t[i].used
      BY <2>1, MarkedChangesOneRow
    <2>3. /\ otpk' = t /\ UNCHANGED <<users, lastKey, lastId>>
          /\ req' = [req EXCEPT ![r] = [pc |-> "reply", bundle |-> req[r].bundle,
                                        row |-> i, key |-> req[r].key]]
          /\ handed' = [handed EXCEPT ![r][i] = @ + 1]
      BY <1>9 DEF FetchMark
    <2> HIDE DEF t
    <2>4. /\ handed' \in [Requests -> [RowIds -> Nat]]
          /\ handed'[r][i] = 1
          /\ \A s \in Requests, j \in RowIds :
                (s # r \/ j # i) => handed'[s][j] = handed[s][j]
      BY <2>1, <2>3 DEF TypeOK
    <2>5. TypeOK'
      BY <2>1, <2>2, <2>3, <2>4 DEF TypeOK, Request
    <2>6. UnusedNeverHanded'
      BY <2>1, <2>2, <2>3, <2>4 DEF IInv, UnusedNeverHanded, TypeOK, RowIds
    <2>7. UndrawnNeverHanded'
      BY <2>1, <2>3, <2>4 DEF IInv, UndrawnNeverHanded, TypeOK, RowIds
    <2>8. PickedNotHanded'
      <3>1. ASSUME NEW s \in Requests, req'[s].pc = "mark"
            PROVE  s # r /\ req'[s] = req[s] /\ req[s].row \in RowIds
        BY <2>3, <3>1, RequestShape DEF TypeOK
      <3>. QED
        BY <2>3, <2>4, <3>1 DEF IInv, PickedNotHanded
    <2>9. OncePerSlot'
      BY <2>4 DEF IInv, OncePerSlot
    <2>. QED
      BY <2>5, <2>6, <2>7, <2>8, <2>9 DEF IInv
  <1>10. ASSUME NEW r \in Requests, FetchMarkLost(r) PROVE IInv'
    <2> DEFINE i == req[r].row
               t == Marked(i)
    <2>1. i \in RowIds
      BY <1>10, RequestShape DEF FetchMarkLost
    <2>2. /\ t = [j \in DOMAIN t |-> t[j]]
          /\ DOMAIN t = DOMAIN otpk
          /\ \A j \in DOMAIN t : t[j] \in Row
          /\ \A j \in DOMAIN t : j # i => t[j] = otpk[j]
          /\ i \in DOMAIN t => t[i].used
      BY <2>1, MarkedChangesOneRow
    <2>3. /\ otpk' = t /\ UNCHANGED <<users, lastKey, lastId, handed>>
          /\ req' = [req EXCEPT ![r] = Idle]
      BY <1>10 DEF FetchMarkLost
    <2> HIDE DEF t
    <2>4. TypeOK'
      BY <2>2, <2>3 DEF TypeOK, Request
    <2>5. UnusedNeverHanded'
      BY <2>2, <2>3 DEF IInv, UnusedNeverHanded
    <2>. QED
      BY <2>3, <2>4, <2>5 DEF IInv, UndrawnNeverHanded, PickedNotHanded,
         OncePerSlot, TypeOK, Idle
  <1>11. ASSUME NEW r \in Requests, Finish(r) PROVE IInv'
    <2>1. TypeOK'
      BY <1>11 DEF Finish, TypeOK, Request
    <2>. QED
      BY <1>11, <2>1, QuietSteps DEF Finish, TypeOK, Idle
  <1>12. CASE UNCHANGED vars
    BY <1>12 DEF vars, IInv, TypeOK, UnusedNeverHanded, UndrawnNeverHanded,
       PickedNotHanded, OncePerSlot
  <1>. QED
    BY <1>1, <1>2, <1>3, <1>4, <1>5, <1>6, <1>7, <1>8, <1>9, <1>10, <1>11, <1>12
       DEF Next, ReplenishVerify

\* The inductive invariant holds in every reachable state.
THEOREM Invariance == Spec => []IInv
  BY InitInv, NextInv, PTL DEF Spec

\* Type correctness of the tables, the request slots and the history.
THEOREM TypeCorrect == Spec => []TypeOK
  <1>1. IInv => TypeOK
    BY DEF IInv
  <1>. QED
    BY Invariance, <1>1, PTL

\* However many fetches are in flight, and whichever statement fails, a row
\* fetch_prekey_bundle may still pick was never handed out, and one slot never
\* hands a row out twice.
THEOREM OneTimeUse == Spec => [](UnusedNeverHanded /\ OncePerSlot)
  <1>1. IInv => UnusedNeverHanded /\ OncePerSlot
    BY DEF IInv
  <1>. QED
    BY Invariance, <1>1, PTL
-----------------------------------------------------------------------------
\* The INSERT leaves at most one row for each prekey of an account: conflicts
\* with the table and within the batch are skipped.
LEMMA InsertKeepsUnique ==
  ASSUME TypeOK, PrekeyUnique, NEW r \in Requests, req[r].pc = "insert"
  PROVE  LET t == InsertRows(req[r])
         IN  \A i, j \in DOMAIN t :
                (t[i].user = t[j].user /\ t[i].prekey = t[j].prekey) => i = j
  <1> DEFINE q == req[r]
             new == {lastId + n : n \in Fresh(q.user, q.batch)}
             t == InsertRows(q)
  <1>1. q.batch \in Seq(PrekeyIds) /\ lastId \in Nat
    BY RequestShape, BatchesAssumption DEF TypeOK
  <1>2. Fresh(q.user, q.batch) \subseteq 1..Len(q.batch)
    BY <1>1 DEF Fresh
  <1>3. /\ DOMAIN t = DOMAIN otpk \cup new
        /\ \A i \in DOMAIN otpk : t[i] = otpk[i]
        /\ \A i \in new \ DOMAIN otpk :
             t[i].user = q.user /\ t[i].prekey = q.batch[i - lastId]
    BY DEF InsertRows
  <1>4. \A i \in new : i - lastId \in Fresh(q.user, q.batch) /\ i - lastId \in Nat
                       /\ i \in Nat
    BY <1>1, <1>2
  <1> HIDE DEF t, new, q
  <1>5. ASSUME NEW i \in DOMAIN otpk, NEW j \in new \ DOMAIN otpk,
               t[i].user = t[j].user
        PROVE  t[i].prekey # t[j].prekey
    <2>1. j - lastId \in Fresh(q.user, q.batch)
      BY <1>4
    <2>2. otpk[i].user = q.user => otpk[i].prekey # q.batch[j - lastId]
      BY <2>1 DEF Fresh
    <2>. QED
      BY <1>3, <1>5, <2>2
  <1>6. ASSUME NEW i \in new \ DOMAIN otpk, NEW j \in new \ DOMAIN otpk, i < j
        PROVE  t[i].prekey # t[j].prekey
    <2>1. /\ i - lastId \in 1..((j - lastId) - 1)
          /\ j - lastId \in Fresh(q.user, q.batch)
      BY <1>1, <1>2, <1>4, <1>6
    <2>2. q.batch[i - lastId] # q.batch[j - lastId]
      BY <2>1 DEF Fresh
    <2>. QED
      BY <1>3, <2>2
  <1>7. \A i, j \in new \ DOMAIN otpk : i = j \/ i < j \/ j < i
    BY <1>4
  <1>8. \A i, j \in DOMAIN otpk :
           (t[i].user = t[j].user /\ t[i].prekey = t[j].prekey) => i = j
    BY <1>3 DEF PrekeyUnique
  <1>. QED
    BY <1>3, <1>5, <1>6, <1>7, <1>8 DEF t, q

\* A retried or concurrent upload never leaves two rows for one prekey of one
\* account, whatever deletions, fetches and recoveries run meanwhile.
THEOREM UniquePrekeys == Spec => []PrekeyUnique
  <1>1. Init => PrekeyUnique
    BY DEF Init, PrekeyUnique
  <1>2. ASSUME TypeOK, PrekeyUnique, [Next]_vars PROVE PrekeyUnique'
    <2>1. CASE UNCHANGED otpk
      BY <1>2, <2>1 DEF PrekeyUnique
    <2>2. ASSUME NEW u \in Users, DeleteUser(u) PROVE PrekeyUnique'
      BY <1>2, <2>2 DEF DeleteUser, Cascade, PrekeyUnique
    <2>3. ASSUME NEW r \in Requests, UploadInsert(r) PROVE PrekeyUnique'
      BY <1>2, <2>3, InsertKeepsUnique DEF UploadInsert, PrekeyUnique
    <2>4. ASSUME NEW r \in Requests, FetchMark(r) \/ FetchMarkLost(r)
          PROVE  PrekeyUnique'
      <3>1. req[r].row \in RowIds /\ otpk' = Marked(req[r].row)
        BY <1>2, <2>4, RequestShape DEF FetchMark, FetchMarkLost
      <3>. QED
        BY <1>2, <3>1, MarkedChangesOneRow DEF PrekeyUnique
    <2>. QED
      BY <1>2, <2>1, <2>2, <2>3, <2>4 DEF Next, ReplenishVerify, vars, Register, RecoveryClaim,
         UploadVerify, FetchVerify, FetchTarget, FetchPick, Finish
  <1>. QED
    BY TypeCorrect, <1>1, <1>2, PTL DEF Spec

\* A consumed prekey stays consumed as long as its account is not deleted, even
\* when the client uploads the same prekey_id again.
THEOREM ConsumedStaysConsumed == Spec => NoRearm
  <1> DEFINE Keeps == \A u \in Users : users'[u] # 0 =>
                        UsedPrekeys(u) \subseteq UsedPrekeys(u)'
  <1>1. ASSUME TypeOK, [Next]_vars PROVE Keeps
    <2>1. CASE UNCHANGED otpk
      BY <2>1 DEF UsedPrekeys
    <2>2. ASSUME NEW v \in Users, DeleteUser(v) PROVE Keeps
      <3> SUFFICES ASSUME NEW u \in Users, users'[u] # 0
                   PROVE  UsedPrekeys(u) \subseteq UsedPrekeys(u)'
        OBVIOUS
      <3>1. u # v
        BY <1>1, <2>2 DEF DeleteUser, TypeOK
      <3>2. \A i \in DOMAIN otpk : otpk[i].user = u =>
               i \in DOMAIN otpk' /\ otpk'[i] = otpk[i]
        BY <2>2, <3>1 DEF DeleteUser, Cascade
      <3>. QED
        BY <3>2 DEF UsedPrekeys
    <2>3. ASSUME NEW r \in Requests, UploadInsert(r) PROVE Keeps
      <3>1. \A i \in DOMAIN otpk : i \in DOMAIN otpk' /\ otpk'[i] = otpk[i]
        BY <1>1, <2>3, InsertAddsFreshRows DEF UploadInsert
      <3>. QED
        BY <3>1 DEF UsedPrekeys
    <2>4. ASSUME NEW r \in Requests, FetchMark(r) \/ FetchMarkLost(r) PROVE Keeps
      <3>1. req[r].row \in RowIds /\ otpk' = Marked(req[r].row)
        BY <1>1, <2>4, RequestShape DEF FetchMark, FetchMarkLost
      <3>2. \A i \in DOMAIN otpk :
               /\ i \in DOMAIN otpk'
               /\ otpk'[i].user = otpk[i].user /\ otpk'[i].prekey = otpk[i].prekey
               /\ otpk[i].used => otpk'[i].used
        BY <1>1, <3>1, MarkedChangesOneRow
      <3>. QED
        BY <3>2 DEF UsedPrekeys
    <2>. QED
      BY <1>1, <2>1, <2>2, <2>3, <2>4 DEF Next, ReplenishVerify, vars, Register, RecoveryClaim,
         UploadVerify, FetchVerify, FetchTarget, FetchPick, Finish
  <1>. QED
    BY TypeCorrect, <1>1, PTL DEF Spec, NoRearm
-----------------------------------------------------------------------------
(* The one-time pool, with a single slot for requests. *)

\* The steps of the pool in terms of the mapping: a deposit of rows that were
\* never handed out, one row handed out, rows lost, or nothing.
PoolStep ==
  \/ /\ \E S \in SUBSET RowIds : /\ \A k \in S : Given[k] = 0
                                 /\ Available' = Available \cup S
     /\ Given' = Given
  \/ \E k \in Available : /\ Available' = Available \ {k}
                          /\ Given' = [Given EXCEPT ![k] = @ + 1]
  \/ Available' \in SUBSET Available /\ Given' = Given
  \/ UNCHANGED <<Available, Given>>

\* What a step of Prekeys is for the pool: a deposit for the INSERT, a row handed
\* out for the UPDATE of a fetch, a loss for a deletion or a failure.
LEMMA StepRefines ==
  ASSUME NEW CONSTANT one, Requests = {one}, IInv, IInv', [Next]_vars
  PROVE  PoolStep
  <1> DEFINE Free == {i \in DOMAIN otpk : ~otpk[i].used}
             Held == IF req[one].pc = "mark" THEN {req[one].row} ELSE {}
  <1>0. TypeOK /\ TypeOK'
    BY DEF IInv
  <1>1. /\ Given = [i \in RowIds |-> handed[one][i]] /\ Given' = [i \in RowIds |-> handed'[one][i]]
        /\ Available = Free \cup Held /\ Available' = Free' \cup Held'
    <2>1. TypeOK /\ Requests = {one}
      BY <1>0
    <2>2. Given = [i \in RowIds |-> handed[one][i]]
      BY <2>1 DEF Given
    <2>3. Given' = [i \in RowIds |-> handed'[one][i]]
      BY <2>1 DEF Given
    <2>4. Available = Free \cup Held
      BY <2>1 DEF Available
    <2>5. Available' = Free' \cup Held'
      BY <2>1 DEF Available
    <2>. QED
      BY <2>2, <2>3, <2>4, <2>5
  <1>2. ASSUME Free' \cup Held' \subseteq Free \cup Held, handed' = handed PROVE PoolStep
    BY <1>1, <1>2 DEF PoolStep
  <1>3. ASSUME UNCHANGED <<otpk, handed>>, Held' = {} \/ req' = req PROVE PoolStep
    BY <1>2, <1>3
  <1>4. ASSUME NEW u \in Users, DeleteUser(u) PROVE PoolStep
    <2>1. Free' \subseteq Free
      BY <1>4 DEF DeleteUser, Cascade
    <2>2. Held' = Held /\ handed' = handed
      BY <1>4 DEF DeleteUser
    <2>. QED
      BY <1>2, <2>1, <2>2
  <1>5. ASSUME UploadInsert(one) PROVE PoolStep
    <2> DEFINE t == InsertRows(req[one])
               S == DOMAIN t \ DOMAIN otpk
    <2>1. /\ otpk' = t /\ UNCHANGED handed /\ Held = {} /\ Held' = {}
      BY <1>0, <1>5 DEF UploadInsert, TypeOK, Idle
    <2>2. /\ DOMAIN otpk \subseteq DOMAIN t /\ \A i \in DOMAIN otpk : t[i] = otpk[i]
          /\ \A i \in S : i > lastId /\ i \in RowIds /\ ~t[i].used
      BY <1>0, <1>5, InsertAddsFreshRows DEF UploadInsert
    <2>. HIDE DEF t
    <2>3. Free' = Free \cup S
      BY <2>1, <2>2
    <2>4. \A i \in S : i \in RowIds /\ Given[i] = 0
      BY <1>1, <2>2 DEF IInv, UndrawnNeverHanded
    <2>. QED
      <3>. HIDE DEF Free, Held
      <3>1. S \in SUBSET RowIds /\ (\A k \in S : Given[k] = 0) /\ Available' = Available \cup S
        BY <1>1, <2>1, <2>3, <2>4
      <3>2. Given' = Given
        BY <1>1, <2>1
      <3>. QED
        BY <3>1, <3>2 DEF PoolStep
  <1>6. ASSUME FetchPick(one) PROVE PoolStep
    <2>1. Held' = {} \/ \E i \in Unused(req[one].target) : Held' = {i}
      BY <1>0, <1>6 DEF FetchPick, TypeOK
    <2>2. Held' \subseteq Free /\ Free' = Free /\ handed' = handed
      BY <1>6, <2>1 DEF FetchPick, Unused
    <2>. QED
      BY <1>2, <2>2
  <1>7. ASSUME FetchMark(one) PROVE PoolStep
    <2> DEFINE i == req[one].row
    <2>1. i \in RowIds /\ Held = {i}
      BY <1>0, <1>7, RequestShape DEF FetchMark
    <2>2. Held' = {} /\ Free' = Free \ {i}
      <3>1. Held' = {}
        BY <1>0, <1>7 DEF FetchMark, TypeOK
      <3>2. Free' = Free \ {i}
        BY <1>7 DEF FetchMark, Marked
      <3>. QED
        BY <3>1, <3>2
    <2>3. Given' = [Given EXCEPT ![i] = @ + 1]
      BY <1>0, <1>1, <1>7, <2>1 DEF FetchMark, TypeOK
    <2>4. i \in Available /\ Available' = Available \ {i}
      BY <1>1, <2>1, <2>2
    <2>. QED
      BY <2>3, <2>4 DEF PoolStep
  <1>8. ASSUME FetchMarkLost(one) PROVE PoolStep
    <2>1. Held' = {} /\ handed' = handed
      BY <1>0, <1>8 DEF FetchMarkLost, TypeOK, Idle
    <2>2. Free' \subseteq Free
      BY <1>8 DEF FetchMarkLost, Marked
    <2>. QED
      BY <1>2, <2>1, <2>2
  <1>9. ASSUME \/ \E u \in Users, b \in Batches : UploadVerify(one, u, b)
               \/ \E u, t \in Users : FetchVerify(one, u, t)
               \/ FetchTarget(one) \/ Finish(one)
        PROVE  PoolStep
    <2>1. UNCHANGED <<otpk, handed>> /\ Held' = {}
      BY <1>0, <1>9 DEF UploadVerify, FetchVerify, FetchTarget, Finish, TypeOK, Idle
    <2>. QED
      BY <1>3, <2>1
  <1>10. ASSUME (\E u \in Users : Register(u) \/ RecoveryClaim(u)) \/ UNCHANGED vars
         PROVE  PoolStep
    <2>1. UNCHANGED <<otpk, handed, req>>
      BY <1>10 DEF Register, RecoveryClaim, vars
    <2>. QED
      BY <1>3, <2>1
  <1>. QED
    BY <1>4, <1>5, <1>6, <1>7, <1>8, <1>9, <1>10 DEF Next, ReplenishVerify

\* With one request at a time, fetch_prekey_bundle and the uploads keep the
\* promise of a one-time pool, whichever statement fails and however accounts
\* come and go: every step of Prekeys is a step of OneTimePool or changes
\* nothing of the pool.
THEOREM SerialPool ==
  ASSUME NEW CONSTANT one, Requests = {one}
  PROVE  Spec => PoolSpec
  <1>1. Init => Pool!PoolInit
    <2>1. SUFFICES ASSUME Init PROVE Pool!PoolInit
      OBVIOUS
    <2>2. Available = {}
      BY <2>1 DEF Init, Available, Idle
    <2>3. Given = [k \in RowIds |-> 0]
      BY <2>1 DEF Init, Given
    <2>. QED
      BY <2>2, <2>3 DEF Pool!PoolInit
  <1>2. IInv /\ IInv' /\ [Next]_vars => [Pool!PoolNext]_(Pool!poolVars)
    <2>1. PoolStep => [Pool!PoolNext]_(Pool!poolVars)
      BY DEF PoolStep, Pool!PoolNext, Pool!Deposit, Pool!Give, Pool!Lose,
         Pool!poolVars
    <2>. QED
      BY <2>1, StepRefines
  <1>. QED
    BY <1>1, <1>2, Invariance, PTL DEF Spec, PoolSpec, Pool!PoolSpec
=============================================================================
