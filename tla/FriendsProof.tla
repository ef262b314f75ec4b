---------------------------- MODULE FriendsProof ----------------------------
(***************************************************************************)
(* For any users, pairs, number of requests in flight and bounds: the      *)
(* types of Friends, that requests and answers stay a graph over the       *)
(* accounts that exist, that what was reported stored is kept, and that    *)
(* the answers to a request are bounded.                                   *)
(***************************************************************************)
EXTENDS Friends, FiniteSetTheorems, FunctionTheorems, TLAPS

-----------------------------------------------------------------------------
(* The inductive invariant *)

Contacting == {"target", "count", "update", "insert", "notify"}
Answering  == {"countAnswers", "change", "store", "notifyAnswer"}
Deleting   == {"loadIds", "delResponses", "delRequests", "delUser"}

\* Ids of requests come from the sequence and are not drawn twice.
IdsDrawn == /\ \A x \in frequests : x.id <= lastId
            /\ \A x, y \in frequests : x.id = y.id => x = y

\* What a request knows from its earlier statements, and what a deletion may
\* have changed of it meanwhile.
Informed == \A r \in Requests :
  /\ req[r].pc \in Answering =>
       /\ req[r].request <= lastId
       /\ \A x \in frequests : x.id = req[r].request => x.pair = req[r].pair
  /\ req[r].pc = "update" /\ Untouched(req[r].pair) =>
       \E x \in frequests : x.pair = req[r].pair
  /\ req[r].pc = "change" /\ Untouched(req[r].pair) =>
       \E x \in frequests, a \in fresponses :
          x.pair = req[r].pair /\ x.id = req[r].request /\ a.request = x.id
  /\ req[r].pc \in Deleting => req[r].user \in removed.who
  /\ req[r].pc = "delResponses" =>
       /\ \A i \in req[r].ids : i <= lastId
       /\ \A x \in frequests : x.id \in req[r].ids => Involves(x.pair, req[r].user)

\* Requests that have counted no answer and are about to store one.
Storing(i) == {r \in Requests : req[r].pc = "store" /\ req[r].request = i}

\* An answer is stored by a request that has counted none, or whose COUNT failed.
Counted == \A i \in Ids :
  /\ IsFiniteSet(AnswersTo(i))
  /\ Cardinality(AnswersTo(i)) + Cardinality(Storing(i)) <= Cardinality(Requests) + faults

IInv == TypeOK /\ IdsDrawn /\ Informed /\ FriendGraph /\ Kept

-----------------------------------------------------------------------------
LEMMA Numbers ==
  /\ MaxRequest \in Nat /\ MaxRow \in Nat /\ MaxAnswer \in Nat /\ MaxDelete \in Nat
  /\ MaxFault \in Nat
  BY BoundsAssumption

\* The members of a pair are users.
LEMMA PairShape ==
  ASSUME NEW p \in Pairs
  PROVE  Requester(p) \in Users /\ Target(p) \in Users
  BY PairsAssumption DEF Requester, Target

\* The fields of a request at each of its positions.
LEMMA RequestShape ==
  ASSUME TypeOK, NEW r \in Requests
  PROVE  /\ req[r].pc \in Contacting =>
              req[r].pair \in Pairs /\ req[r] = [pc |-> req[r].pc, pair |-> req[r].pair]
         /\ req[r].pc = "find" => req[r].pair \in Pairs /\ req[r].accepted \in Verdicts
         /\ req[r].pc \in Answering =>
              /\ req[r].pair \in Pairs /\ req[r].accepted \in Verdicts /\ req[r].request \in Ids
              /\ req[r] = [pc |-> req[r].pc, pair |-> req[r].pair,
                           accepted |-> req[r].accepted, request |-> req[r].request]
         /\ req[r].pc \in {"loadIds", "delRequests", "delUser"} =>
              req[r].user \in Users /\ req[r] = [pc |-> req[r].pc, user |-> req[r].user]
         /\ req[r].pc = "delResponses" => req[r].user \in Users /\ req[r].ids \subseteq Ids
  BY DEF TypeOK, Request, Idle, Contacting, Answering

\* A request that only moves on keeps its fields.
LEMMA Moved ==
  ASSUME TypeOK, NEW r \in Requests, NEW l, GoTo(r, l)
  PROVE  /\ req[r].pc \in Contacting => req'[r] = [pc |-> l, pair |-> req[r].pair]
         /\ req[r].pc \in Answering =>
              req'[r] = [pc |-> l, pair |-> req[r].pair,
                         accepted |-> req[r].accepted, request |-> req[r].request]
         /\ req[r].pc \in {"loadIds", "delRequests", "delUser"} =>
              req'[r] = [pc |-> l, user |-> req[r].user]
         /\ \A s \in Requests : s # r => req'[s] = req[s]
         /\ req' = [req EXCEPT ![r] = req'[r]]
  <1>1. /\ req'[r] = [req[r] EXCEPT !.pc = l]
        /\ \A s \in Requests : s # r => req'[s] = req[s]
        /\ req' = [req EXCEPT ![r] = req'[r]]
    BY DEF GoTo, TypeOK
  <1>2. CASE req[r].pc \in Contacting
    <2>1. req[r] = [pc |-> req[r].pc, pair |-> req[r].pair]
      BY <1>2, RequestShape
    <2>. QED
      BY <1>1, <1>2, <2>1 DEF Contacting, Answering
  <1>3. CASE req[r].pc \in Answering
    <2>1. req[r] = [pc |-> req[r].pc, pair |-> req[r].pair,
                    accepted |-> req[r].accepted, request |-> req[r].request]
      BY <1>3, RequestShape
    <2>. QED
      BY <1>1, <1>3, <2>1 DEF Contacting, Answering
  <1>4. CASE req[r].pc \in {"loadIds", "delRequests", "delUser"}
    <2>1. req[r] = [pc |-> req[r].pc, user |-> req[r].user]
      BY <1>4, RequestShape
    <2>. QED
      BY <1>1, <1>4, <2>1 DEF Contacting, Answering
  <1>. QED
    BY <1>1, <1>2, <1>3, <1>4

\* A request that moves on along its own positions is still one.
LEMMA MovedType ==
  ASSUME TypeOK, NEW r \in Requests, NEW l, GoTo(r, l),
         \/ req[r].pc \in Contacting /\ l \in Contacting
         \/ req[r].pc \in Answering /\ l \in Answering
         \/ req[r].pc = "delRequests" /\ l = "delUser"
  PROVE  req' \in [Requests -> Request]
  <1>a. SUFFICES req'[r] \in Request
    <2>1. req' = [req EXCEPT ![r] = req'[r]]
      BY Moved
    <2>. QED
      BY <2>1 DEF TypeOK
  <1>1. CASE req[r].pc \in Contacting /\ l \in Contacting
    <2>1. [pc |-> l, pair |-> req[r].pair] \in Request
      BY <1>1, RequestShape DEF Request, Contacting
    <2>. QED
      BY <1>1, <2>1, Moved
  <1>2. CASE req[r].pc \in Answering /\ l \in Answering
    <2>1. [pc |-> l, pair |-> req[r].pair, accepted |-> req[r].accepted,
           request |-> req[r].request] \in Request
      BY <1>2, RequestShape DEF Request, Answering
    <2>. QED
      BY <1>2, <2>1, Moved
  <1>3. CASE req[r].pc = "delRequests" /\ l = "delUser"
    <2>1. [pc |-> l, user |-> req[r].user] \in Request
      BY <1>3, RequestShape DEF Request
    <2>. QED
      BY <1>3, <2>1, Moved
  <1>. QED
    BY <1>1, <1>2, <1>3

LEMMA TypeNext ==
  ASSUME TypeOK, [Next]_vars
  PROVE  TypeOK'
  <1> USE Numbers DEF tables, client, past
  <1>1. ASSUME NEW r \in Requests, NEW p \in Pairs, ContactVerify(r, p) PROVE TypeOK'
    <2>1. [pc |-> "target", pair |-> p] \in Request
      BY DEF Request
    <2>. QED
      BY <1>1, <2>1 DEF ContactVerify, Continue, TypeOK
  <1>2. ASSUME NEW r \in Requests, NEW p \in Pairs, NEW v \in Verdicts, RespondVerify(r, p, v)
        PROVE  TypeOK'
    <2>1. [pc |-> "find", pair |-> p, accepted |-> v] \in Request
      BY DEF Request
    <2>. QED
      BY <1>2, <2>1 DEF RespondVerify, Continue, TypeOK
  <1>3. ASSUME NEW r \in Requests, NEW u \in Users, DeleteVerify(r, u) PROVE TypeOK'
    <2>1. [pc |-> "loadIds", user |-> u] \in Request
      BY DEF Request
    <2>. QED
      BY <1>3, <2>1 DEF DeleteVerify, Continue, TypeOK
  <1>4. ASSUME NEW r \in Requests, ContactTarget(r) \/ ContactCount(r) \/ RespondCount(r)
        PROVE  TypeOK'
    <2>1. req' \in [Requests -> Request]
      BY <1>4, MovedType DEF ContactTarget, ContactCount, RespondCount, Contacting, Answering
    <2>. QED
      BY <1>4, <2>1 DEF ContactTarget, ContactCount, RespondCount, TypeOK
  <1>5. ASSUME NEW r \in Requests, CountFails(r) PROVE TypeOK'
    <2>1. req' \in [Requests -> Request]
      BY <1>5, MovedType DEF CountFails, Contacting, Answering
    <2>. QED
      BY <1>5, <2>1 DEF CountFails, TypeOK
  <1>6. ASSUME NEW r \in Requests, ContactUpdate(r) PROVE TypeOK'
    <2>1. req[r].pair \in Pairs
      BY <1>6, RequestShape DEF ContactUpdate, Contacting
    <2>. QED
      BY <1>6, <2>1 DEF ContactUpdate, End, Continue, Request, TypeOK
  <1>7. ASSUME NEW r \in Requests, ContactInsert(r) PROVE TypeOK'
    <2>1. req' \in [Requests -> Request]
      BY <1>7, MovedType DEF ContactInsert, Contacting
    <2>2. req[r].pair \in Pairs
      BY <1>7, RequestShape DEF ContactInsert, Contacting
    <2>3. lastId + 1 \in Ids /\ lastId + 1 \in 0..MaxRequest
      BY <1>7 DEF ContactInsert, TypeOK, Ids
    <2>4. [id |-> lastId + 1, pair |-> req[r].pair] \in RequestRow
      BY <2>2, <2>3 DEF RequestRow
    <2>. QED
      BY <1>7, <2>1, <2>2, <2>3, <2>4 DEF ContactInsert, TypeOK
  <1>8. ASSUME NEW r \in Requests, ContactNotify(r) PROVE TypeOK'
    <2>1. req[r].pair \in Pairs
      BY <1>8, RequestShape DEF ContactNotify, Contacting
    <2>. QED
      BY <1>8, <2>1 DEF ContactNotify, End, Continue, Request, TypeOK
  <1>9. ASSUME NEW r \in Requests, RespondFind(r) PROVE TypeOK'
    <2>1. PICK x \in frequests :
            Continue(r, [pc |-> "countAnswers", pair |-> x.pair,
                         accepted |-> req[r].accepted, request |-> x.id])
      BY <1>9 DEF RespondFind
    <2>2. x.pair \in Pairs /\ x.id \in Ids /\ req[r].accepted \in Verdicts
      BY <1>9, RequestShape DEF RespondFind, TypeOK, RequestRow
    <2>3. [pc |-> "countAnswers", pair |-> x.pair, accepted |-> req[r].accepted,
           request |-> x.id] \in Request
      BY <2>2 DEF Request
    <2>. QED
      BY <1>9, <2>1, <2>3 DEF RespondFind, Continue, TypeOK
  <1>10. ASSUME NEW r \in Requests, RespondChange(r) PROVE TypeOK'
    <2>1. req[r].pair \in Pairs /\ req[r].accepted \in Verdicts
      BY <1>10, RequestShape DEF RespondChange, Answering
    <2>2. ASSUME NEW x \in fresponses PROVE [x EXCEPT !.accepted = req[r].accepted] \in ResponseRow
      BY <2>1 DEF TypeOK, ResponseRow
    <2>3. fresponses' \subseteq ResponseRow
      BY <1>10, <2>2 DEF RespondChange, TypeOK
    <2>4. req' \in [Requests -> Request]
      BY <1>10 DEF RespondChange, End, Continue, Request, TypeOK
    <2>. QED
      BY <1>10, <2>1, <2>3, <2>4 DEF RespondChange, TypeOK
  <1>11. ASSUME NEW r \in Requests, RespondStore(r) PROVE TypeOK'
    <2>1. req' \in [Requests -> Request]
      BY <1>11, MovedType DEF RespondStore, Answering
    <2>2. req[r].pair \in Pairs /\ req[r].accepted \in Verdicts /\ req[r].request \in Ids
      BY <1>11, RequestShape DEF RespondStore, Answering
    <2>3. PICK no \in 1..MaxRow :
            fresponses' = fresponses \cup {[no |-> no, request |-> req[r].request,
                                            pair |-> req[r].pair, accepted |-> req[r].accepted]}
      BY <1>11 DEF RespondStore
    <2>4. fresponses' \subseteq ResponseRow
      BY <2>2, <2>3 DEF TypeOK, ResponseRow
    <2>. QED
      BY <1>11, <2>1, <2>2, <2>4 DEF RespondStore, TypeOK
  <1>12. ASSUME NEW r \in Requests, RespondNotify(r) PROVE TypeOK'
    <2>1. req[r].pair \in Pairs /\ req[r].accepted \in Verdicts
      BY <1>12, RequestShape DEF RespondNotify, Answering
    <2>. QED
      BY <1>12, <2>1 DEF RespondNotify, End, Continue, Request, TypeOK
  <1>13. ASSUME NEW u \in Users, FetchFriendRequests(u) PROVE TypeOK'
    BY <1>13 DEF FetchFriendRequests, TypeOK, RequestRow
  <1>14. ASSUME NEW u \in Users, FetchFriendResponses(u) PROVE TypeOK'
    BY <1>14 DEF FetchFriendResponses, TypeOK
  <1>15. ASSUME NEW u \in Users, FetchMyAccepted(u) PROVE TypeOK'
    <2> DEFINE S == {Requester(x.pair) : x \in {y \in frequests :
                       \E a \in AnswersTo(y.id) : Target(a.pair) = u /\ a.accepted = "accepted"}}
    <2>1. S \subseteq Users
      BY PairShape DEF TypeOK, RequestRow
    <2>2. contacts' = [contacts EXCEPT ![u] = S]
      BY <1>15 DEF FetchMyAccepted
    <2>. HIDE DEF S
    <2>. QED
      BY <1>15, <2>1, <2>2 DEF FetchMyAccepted, TypeOK
  <1>16. ASSUME NEW u \in Users, Register(u) PROVE TypeOK'
    BY <1>16 DEF Register, TypeOK
  <1>17. ASSUME NEW r \in Requests, DelLoadIds(r) PROVE TypeOK'
    <2> DEFINE u   == req[r].user
               ids == {x.id : x \in {y \in frequests : Involves(y.pair, u)}}
    <2>1. u \in Users /\ ids \subseteq Ids
      BY <1>17, RequestShape DEF DelLoadIds, TypeOK, RequestRow
    <2>2. /\ [pc |-> "delRequests", user |-> u] \in Request
          /\ [pc |-> "delResponses", user |-> u, ids |-> ids] \in Request
      BY <2>1 DEF Request
    <2>3. req' \in [Requests -> Request]
      BY <1>17, <2>2 DEF DelLoadIds, Continue, TypeOK
    <2>. QED
      BY <1>17, <2>3 DEF DelLoadIds, TypeOK
  <1>18. ASSUME NEW r \in Requests, DelResponses(r) PROVE TypeOK'
    <2>1. [pc |-> "delRequests", user |-> req[r].user] \in Request
      BY <1>18, RequestShape DEF DelResponses, Request
    <2>. QED
      BY <1>18, <2>1 DEF DelResponses, Continue, TypeOK
  <1>19. ASSUME NEW r \in Requests, DelRequests(r) PROVE TypeOK'
    <2>1. req' \in [Requests -> Request]
      BY <1>19, MovedType DEF DelRequests
    <2>. QED
      BY <1>19, <2>1 DEF DelRequests, RemoveRequests, TypeOK
  <1>20. ASSUME NEW r \in Requests, DelUser(r) PROVE TypeOK'
    BY <1>20 DEF DelUser, RemoveRequests, End, Continue, Request, TypeOK
  <1>21. ASSUME NEW r \in Requests, Finish(r) PROVE TypeOK'
    BY <1>21 DEF Finish, End, Continue, Request, TypeOK
  <1>22. CASE UNCHANGED vars
    BY <1>22 DEF vars, TypeOK
  <1>. QED
    BY <1>1, <1>2, <1>3, <1>4, <1>5, <1>6, <1>7, <1>8, <1>9, <1>10, <1>11, <1>12, <1>13,
       <1>14, <1>15, <1>16, <1>17, <1>18, <1>19, <1>20, <1>21, <1>22 DEF Next, Step

\* The steps that change the tables or start a deletion.
LEMMA TableKinds ==
  ASSUME [Next]_vars
  PROVE  \/ UNCHANGED <<users, frequests, fresponses, lastId, removed>>
         \/ \E r \in Requests : \/ ContactInsert(r) \/ RespondChange(r) \/ RespondStore(r)
                                \/ DelResponses(r) \/ DelRequests(r) \/ DelUser(r)
                                \/ \E u \in Users : DeleteVerify(r, u)
         \/ \E u \in Users : Register(u)
  BY DEF Next, Step, ContactVerify, ContactTarget, ContactCount, CountFails, ContactUpdate,
         ContactNotify, RespondVerify, RespondFind, RespondCount, RespondNotify,
         FetchFriendRequests, FetchFriendResponses, FetchMyAccepted, DelLoadIds, Finish,
         tables, client, past, vars

\* The rows have fields of their types.
LEMMA RowShape ==
  ASSUME TypeOK
  PROVE  /\ lastId \in Nat
         /\ \A x \in frequests : x.id \in Nat /\ x.id \in Ids /\ x.pair \in Pairs
         /\ \A a \in fresponses : a.request \in Ids /\ a.pair \in Pairs
  BY Numbers DEF TypeOK, RequestRow, ResponseRow, Ids

\* New rows have new ids; a request, and the last answer to it, goes only for a
\* user on whose account a DELETE works.
LEMMA TableSteps ==
  ASSUME IInv, [Next]_vars
  PROVE  /\ lastId' \in Nat /\ lastId <= lastId' /\ removed.who \subseteq removed'.who
         /\ \A x \in frequests' : x \in frequests \/ (x.id = lastId + 1 /\ lastId' = lastId + 1)
         /\ \A x \in frequests : x \in frequests' \/ ~Untouched(x.pair)'
         /\ \A x \in frequests, a \in fresponses : a.request = x.id /\ Untouched(x.pair)' =>
              \E b \in fresponses' : b.request = x.id
  <1> USE DEF IInv
  <1> DEFINE A == lastId' \in Nat /\ lastId <= lastId' /\ removed.who \subseteq removed'.who
             B == \A x \in frequests' :
                    x \in frequests \/ (x.id = lastId + 1 /\ lastId' = lastId + 1)
             C == \A x \in frequests : x \in frequests' \/ ~Untouched(x.pair)'
             D == \A x \in frequests, a \in fresponses : a.request = x.id /\ Untouched(x.pair)' =>
                    \E b \in fresponses' : b.request = x.id
             Goal == A /\ B /\ C /\ D
  <1>1. lastId \in Nat
    BY RowShape
  <1>2. ASSUME UNCHANGED <<frequests, fresponses, lastId>>, removed.who \subseteq removed'.who
        PROVE  Goal
    BY <1>1, <1>2
  <1>3. ASSUME NEW r \in Requests, ContactInsert(r) PROVE Goal
    <2>1. /\ lastId' = lastId + 1 /\ UNCHANGED <<fresponses, removed>>
          /\ frequests' = frequests \cup {[id |-> lastId + 1, pair |-> req[r].pair]}
      BY <1>3 DEF ContactInsert
    <2>. QED
      BY <1>1, <2>1
  <1>4. ASSUME NEW r \in Requests, RespondChange(r) PROVE Goal
    <2>1. /\ UNCHANGED <<frequests, lastId, removed>>
          /\ fresponses' = {IF x.request = req[r].request
                            THEN [x EXCEPT !.accepted = req[r].accepted] ELSE x : x \in fresponses}
      BY <1>4 DEF RespondChange
    <2>2. ASSUME NEW x \in fresponses PROVE \E b \in fresponses' : b.request = x.request
      <3>1. [x EXCEPT !.accepted = req[r].accepted].request = x.request
        BY DEF TypeOK, ResponseRow
      <3>. QED
        BY <2>1, <3>1
    <2>3. UNCHANGED <<frequests, lastId, removed>>
      BY <2>1
    <2>4. D
      BY <2>2
    <2>. HIDE DEF D
    <2>. QED
      BY <1>1, <2>3, <2>4
  <1>5. ASSUME NEW r \in Requests, RespondStore(r) PROVE Goal
    <2>1. UNCHANGED <<frequests, lastId, removed>> /\ fresponses \subseteq fresponses'
      BY <1>5 DEF RespondStore
    <2>. QED
      BY <1>1, <2>1
  <1>6. ASSUME NEW r \in Requests, DelResponses(r) PROVE Goal
    <2>1. /\ UNCHANGED <<frequests, lastId, removed>>
          /\ fresponses' = {x \in fresponses : x.request \notin req[r].ids}
      BY <1>6 DEF DelResponses, past
    <2>2. /\ req[r].user \in removed.who
          /\ \A x \in frequests : x.id \in req[r].ids => Involves(x.pair, req[r].user)
      BY <1>6 DEF DelResponses, Informed, Deleting
    <2>3. D
      BY <2>1, <2>2 DEF Untouched, Involves, Requester, Target
    <2>. QED
      BY <1>1, <2>1, <2>3
  <1>7. ASSUME NEW r \in Requests, DelRequests(r) \/ DelUser(r) PROVE Goal
    <2> DEFINE gone == {x \in frequests : Involves(x.pair, req[r].user)}
    <2>1. UNCHANGED <<lastId, removed>> /\ RemoveRequests(gone)
      BY <1>7 DEF DelRequests, DelUser, past
    <2>2. req[r].user \in removed.who
      BY <1>7 DEF DelRequests, DelUser, Informed, Deleting
    <2>3. \A x \in gone : ~Untouched(x.pair)'
      BY <2>1, <2>2 DEF Untouched, Involves, Requester, Target
    <2>4. /\ frequests' = frequests \ gone
          /\ fresponses' = {x \in fresponses : \A y \in gone : y.id # x.request}
      BY <2>1 DEF RemoveRequests
    <2>5. gone \subseteq frequests
      OBVIOUS
    <2>. HIDE DEF gone
    <2>6. D
      BY <2>3, <2>4, <2>5 DEF IdsDrawn
    <2>. QED
      BY <1>1, <2>1, <2>3, <2>4, <2>6
  <1>8. ASSUME NEW r \in Requests, NEW u \in Users, DeleteVerify(r, u) PROVE Goal
    <2>1. removed.who \subseteq removed'.who
      BY <1>8 DEF DeleteVerify
    <2>. QED
      BY <1>2, <1>8, <2>1 DEF DeleteVerify, tables
  <1>9. ASSUME NEW u \in Users, Register(u) PROVE Goal
    BY <1>2, <1>9 DEF Register, past
  <1>10. ASSUME UNCHANGED <<users, frequests, fresponses, lastId, removed>> PROVE Goal
    BY <1>2, <1>10
  <1>. HIDE DEF Goal
  <1>11. Goal
    BY TableKinds, <1>3, <1>4, <1>5, <1>6, <1>7, <1>8, <1>9, <1>10
  <1>. QED
    BY <1>11 DEF Goal

LEMMA GraphNext ==
  ASSUME IInv, [Next]_vars
  PROVE  IdsDrawn' /\ FriendGraph'
  <1> USE DEF IInv
  <1>1. ASSUME frequests' \subseteq frequests, lastId' = lastId PROVE IdsDrawn'
    BY <1>1 DEF IdsDrawn
  <1>2. ASSUME UNCHANGED <<frequests, lastId>>, users \subseteq users',
               \A b \in fresponses' : \E a \in fresponses : a.request = b.request /\ a.pair = b.pair
        PROVE  IdsDrawn' /\ FriendGraph'
    BY <1>1, <1>2 DEF FriendGraph
  <1>3. ASSUME NEW r \in Requests, ContactInsert(r) PROVE IdsDrawn' /\ FriendGraph'
    <2> DEFINE row == [id |-> lastId + 1, pair |-> req[r].pair]
    <2>1. /\ lastId' = lastId + 1 /\ UNCHANGED <<fresponses, users>>
          /\ frequests' = frequests \cup {row}
          /\ Insertable(row.pair) /\ row.id = lastId + 1
      BY <1>3 DEF ContactInsert
    <2>. HIDE DEF row
    <2>2. IdsDrawn'
      <3>1. \A x \in frequests : x.id <= lastId + 1 /\ x.id # lastId + 1
        BY RowShape DEF IdsDrawn
      <3>. QED
        BY <2>1, <3>1, RowShape DEF IdsDrawn
    <2>3. FriendGraph'
      BY <2>1 DEF FriendGraph, Insertable
    <2>. QED
      BY <2>2, <2>3
  <1>4. ASSUME NEW r \in Requests, RespondChange(r) PROVE IdsDrawn' /\ FriendGraph'
    <2>1. \A x \in fresponses :
            /\ [x EXCEPT !.accepted = req[r].accepted].request = x.request
            /\ [x EXCEPT !.accepted = req[r].accepted].pair = x.pair
      BY DEF TypeOK, ResponseRow
    <2>2. \A b \in fresponses' : \E a \in fresponses : a.request = b.request /\ a.pair = b.pair
      BY <1>4, <2>1 DEF RespondChange
    <2>. QED
      BY <1>2, <1>4, <2>2 DEF RespondChange
  <1>5. ASSUME NEW r \in Requests, RespondStore(r) PROVE IdsDrawn' /\ FriendGraph'
    <2>1. /\ UNCHANGED <<frequests, lastId, users>>
          /\ \A b \in fresponses' : \/ b \in fresponses
                                    \/ b.request = req[r].request /\ b.pair = req[r].pair
      BY <1>5 DEF RespondStore
    <2>2. \E x \in frequests : x.id = req[r].request /\ x.pair = req[r].pair
      BY <1>5 DEF RespondStore, References, Informed, Answering
    <2>. QED
      BY <1>1, <2>1, <2>2 DEF FriendGraph
  <1>6. ASSUME NEW r \in Requests, DelResponses(r) PROVE IdsDrawn' /\ FriendGraph'
    BY <1>2, <1>6 DEF DelResponses
  <1>7. ASSUME NEW r \in Requests, DelRequests(r) \/ DelUser(r) PROVE IdsDrawn' /\ FriendGraph'
    <2> DEFINE gone == {x \in frequests : Involves(x.pair, req[r].user)}
    <2>1. lastId' = lastId /\ RemoveRequests(gone) /\ users \ {req[r].user} \subseteq users'
      BY <1>7 DEF DelRequests, DelUser
    <2>2. /\ frequests' = frequests \ gone
          /\ fresponses' = {x \in fresponses : \A y \in gone : y.id # x.request}
      BY <2>1 DEF RemoveRequests
    <2>3. \A x \in frequests' : Requester(x.pair) # req[r].user /\ Target(x.pair) # req[r].user
      BY <2>2 DEF Involves, Requester, Target
    <2>. HIDE DEF gone
    <2>. QED
      BY <1>1, <2>1, <2>2, <2>3 DEF FriendGraph
  <1>8. ASSUME NEW r \in Requests, NEW u \in Users, DeleteVerify(r, u) PROVE IdsDrawn' /\ FriendGraph'
    BY <1>2, <1>8 DEF DeleteVerify, tables
  <1>9. ASSUME NEW u \in Users, Register(u) PROVE IdsDrawn' /\ FriendGraph'
    BY <1>2, <1>9 DEF Register
  <1>10. ASSUME UNCHANGED <<users, frequests, fresponses, lastId, removed>>
         PROVE  IdsDrawn' /\ FriendGraph'
    BY <1>2, <1>10
  <1>. QED
    BY TableKinds, <1>3, <1>4, <1>5, <1>6, <1>7, <1>8, <1>9, <1>10

\* A pair becomes `sent' with its row in the table or counted before, `answered'
\* with an answer stored or counted before.
LEMMA KeptNext ==
  ASSUME IInv, [Next]_vars
  PROVE  Kept'
  <1> USE DEF IInv
  <1> DEFINE S(p) == \E x \in frequests' : x.pair = p
             Q(p) == \E x \in frequests', a \in fresponses' : x.pair = p /\ a.request = x.id
  <1>1. SUFFICES /\ \A p \in sent' : Untouched(p)' => S(p)
                 /\ \A p \in answered' : Untouched(p)' => Q(p)
    BY DEF Kept, AnswersTo
  <1>2. \A p : Untouched(p)' => Untouched(p)
    BY TableSteps DEF Untouched
  <1>3. /\ \A p \in sent : Untouched(p)' => S(p)
        /\ \A p \in answered : Untouched(p)' => Q(p)
    <2>1. /\ \A p \in sent : Untouched(p) => \E x \in frequests : x.pair = p
          /\ \A p \in answered : Untouched(p) =>
               \E x \in frequests, a \in fresponses : x.pair = p /\ a.request = x.id
      BY DEF Kept, AnswersTo
    <2>. QED
      BY <1>2, <2>1, TableSteps
  <1>4. ASSUME NEW r \in Requests, ContactUpdate(r) PROVE \A p \in sent' : Untouched(p)' => S(p)
    <2>1. ASSUME NEW p, p = req[r].pair, Untouched(p)' PROVE S(p)
      <3>1. \E x \in frequests : x.pair = p
        BY <1>2, <1>4, <2>1 DEF ContactUpdate, Informed
      <3>. QED
        BY <2>1, <3>1, TableSteps
    <2>2. sent' = sent \cup {req[r].pair}
      BY <1>4 DEF ContactUpdate
    <2>. QED
      BY <1>3, <2>1, <2>2
  <1>5. ASSUME NEW r \in Requests, ContactInsert(r) PROVE \A p \in sent' : Untouched(p)' => S(p)
    <2>1. /\ [id |-> lastId + 1, pair |-> req[r].pair] \in frequests'
          /\ sent' = sent \cup {req[r].pair}
      BY <1>5 DEF ContactInsert
    <2>2. S(req[r].pair)
      BY <2>1
    <2>. HIDE DEF S
    <2>. QED
      BY <1>3, <2>1, <2>2
  <1>6. ASSUME NEW r \in Requests, RespondChange(r)
        PROVE  \A p \in answered' : Untouched(p)' => Q(p)
    <2>1. ASSUME NEW p, p = req[r].pair, Untouched(p)' PROVE Q(p)
      <3>1. PICK x \in frequests, a \in fresponses : x.pair = p /\ a.request = x.id
        BY <1>2, <1>6, <2>1 DEF RespondChange, Informed
      <3>. QED
        BY <2>1, <3>1, TableSteps
    <2>2. answered' = answered \cup {req[r].pair}
      BY <1>6 DEF RespondChange
    <2>. QED
      BY <1>3, <2>1, <2>2
  <1>7. ASSUME NEW r \in Requests, RespondStore(r)
        PROVE  \A p \in answered' : Untouched(p)' => Q(p)
    <2>1. PICK x \in frequests : x.id = req[r].request /\ x.pair = req[r].pair
      BY <1>7 DEF RespondStore, References, Informed, Answering
    <2>2. /\ frequests' = frequests /\ answered' = answered \cup {req[r].pair}
          /\ \E a \in fresponses' : a.request = req[r].request
      BY <1>7 DEF RespondStore
    <2>3. Q(req[r].pair)
      BY <2>1, <2>2
    <2>. HIDE DEF Q
    <2>. QED
      BY <1>3, <2>2, <2>3
  <1>8. sent' = sent \/ \E r \in Requests : ContactUpdate(r) \/ ContactInsert(r)
    BY DEF Next, Step, ContactVerify, ContactTarget, ContactCount, CountFails, ContactNotify,
         RespondVerify, RespondFind, RespondCount, RespondChange, RespondStore, RespondNotify,
         FetchFriendRequests, FetchFriendResponses, FetchMyAccepted, DelLoadIds, DelResponses,
         DelRequests, DelUser, DeleteVerify, Register, Finish, past, vars
  <1>9. answered' = answered \/ \E r \in Requests : RespondChange(r) \/ RespondStore(r)
    BY DEF Next, Step, ContactVerify, ContactTarget, ContactCount, CountFails, ContactNotify,
         ContactUpdate, ContactInsert, RespondVerify, RespondFind, RespondCount, RespondNotify,
         FetchFriendRequests, FetchFriendResponses, FetchMyAccepted, DelLoadIds, DelResponses,
         DelRequests, DelUser, DeleteVerify, Register, Finish, past, vars
  <1>. HIDE DEF S, Q
  <1>. QED
    BY <1>3, <1>4, <1>5, <1>6, <1>7, <1>8, <1>9

\* What a request has read stays true of the rows that are left, or a DELETE
\* works on one of the accounts.
LEMMA InformedNext ==
  ASSUME IInv, [Next]_vars
  PROVE  Informed'
  <1> USE DEF IInv
  <1> DEFINE Free(p) == Requester(p) \notin removed'.who /\ Target(p) \notin removed'.who
             Right(q) == /\ q.request <= lastId'
                         /\ \A x \in frequests' : x.id = q.request => x.pair = q.pair
             There(q) == Free(q.pair) => \E x \in frequests' : x.pair = q.pair
             Answered(q) == Free(q.pair) => \E x \in frequests', a \in fresponses' :
                              x.pair = q.pair /\ x.id = q.request /\ a.request = x.id
             Own(q) == /\ \A i \in q.ids : i <= lastId'
                       /\ \A x \in frequests' : x.id \in q.ids => Involves(x.pair, q.user)
             Sound(q) == /\ q.pc \in Answering => Right(q)
                         /\ q.pc = "update" => There(q)
                         /\ q.pc = "change" => Answered(q)
                         /\ q.pc \in Deleting => q.user \in removed'.who
                         /\ q.pc = "delResponses" => Own(q)
             Others(r) == \A t \in Requests : t # r => req'[t] = req[t]
  <1>1. \A p : Untouched(p)' <=> Free(p)
    BY DEF Untouched
  <1>2. SUFFICES \A t \in Requests : Sound(req'[t])
    BY <1>1 DEF Informed
  <1>3. ASSUME NEW t \in Requests PROVE Sound(req[t])
    <2>1. \A p : Free(p) => Untouched(p)
      BY TableSteps DEF Untouched
    <2>2. lastId \in Nat /\ lastId' \in Nat /\ lastId <= lastId'
      BY TableSteps, RowShape
    <2>3. \A x \in frequests' : x \in frequests \/ x.id = lastId + 1
      BY TableSteps
    <2>4. \A x \in frequests : x \in frequests' \/ ~Free(x.pair)
      BY <1>1, TableSteps
    <2>5. ASSUME req[t].pc \in Answering PROVE Right(req[t])
      <3>a. TypeOK
        OBVIOUS
      <3>b. req[t].request \in Ids
        BY <2>5, <3>a, RequestShape
      <3>1. req[t].request \in Nat
        BY <3>b, Numbers DEF Ids
      <3>2. /\ req[t].request <= lastId
            /\ \A x \in frequests : x.id = req[t].request => x.pair = req[t].pair
        BY <2>5 DEF Informed
      <3>. QED
        BY <2>2, <2>3, <3>1, <3>2
    <2>6. ASSUME req[t].pc = "update" PROVE There(req[t])
      BY <2>1, <2>4, <2>6 DEF Informed
    <2>7. ASSUME req[t].pc = "change", Free(req[t].pair)
          PROVE  \E x \in frequests', a \in fresponses' :
                   x.pair = req[t].pair /\ x.id = req[t].request /\ a.request = x.id
      <3>1. PICK x \in frequests, a \in fresponses :
              x.pair = req[t].pair /\ x.id = req[t].request /\ a.request = x.id
        BY <2>1, <2>7 DEF Informed
      <3>2. x \in frequests'
        BY <2>4, <2>7, <3>1
      <3>3. \E b \in fresponses' : b.request = x.id
        BY <1>1, <2>7, <3>1, TableSteps
      <3>. QED
        BY <3>1, <3>2, <3>3
    <2>8. ASSUME req[t].pc \in Deleting PROVE req[t].user \in removed'.who
      BY <2>8, TableSteps DEF Informed
    <2>9. ASSUME req[t].pc = "delResponses" PROVE Own(req[t])
      <3>a. TypeOK
        OBVIOUS
      <3>b. req[t].ids \subseteq Ids
        BY <2>9, <3>a, RequestShape
      <3>1. req[t].ids \subseteq Nat
        BY <3>b, Numbers DEF Ids
      <3>2. /\ \A i \in req[t].ids : i <= lastId
            /\ \A x \in frequests : x.id \in req[t].ids => Involves(x.pair, req[t].user)
        BY <2>9 DEF Informed
      <3>. QED
        BY <2>2, <2>3, <3>1, <3>2
    <2>. HIDE DEF Free, Right, There, Own
    <2>. QED
      BY <2>5, <2>6, <2>7, <2>8, <2>9
  <1>4. ASSUME NEW r \in Requests, Others(r), Sound(req'[r]) PROVE \A t \in Requests : Sound(req'[t])
    <2>. HIDE DEF Sound
    <2>. QED
      BY <1>3, <1>4
  <1>5. ASSUME req' = req PROVE \A t \in Requests : Sound(req'[t])
    BY <1>3, <1>5
  <1>6. ASSUME NEW r \in Requests, Others(r),
               req'[r].pc \notin Answering \cup Deleting \cup {"update", "change"}
        PROVE  Others(r) /\ Sound(req'[r])
    <2>1. req'[r].pc # "delResponses"
      BY <1>6 DEF Deleting
    <2>. QED
      BY <1>6, <2>1
  <1>7. ASSUME NEW r \in Requests, NEW q, Continue(r, q)
        PROVE  Others(r) /\ req'[r] = q
    BY <1>7 DEF Continue, TypeOK
  <1>8. ASSUME NEW r \in Requests,
               \/ \E p \in Pairs : ContactVerify(r, p) \/ \E v \in Verdicts : RespondVerify(r, p, v)
               \/ ContactUpdate(r) \/ ContactNotify(r) \/ RespondChange(r) \/ RespondNotify(r)
               \/ DelUser(r) \/ Finish(r)
        PROVE  Others(r) /\ Sound(req'[r])
    <2>1. ASSUME NEW p \in Pairs, ContactVerify(r, p) PROVE Others(r) /\ Sound(req'[r])
      <3>1. Others(r) /\ req'[r] = [pc |-> "target", pair |-> p]
        BY <1>7, <2>1 DEF ContactVerify
      <3>. HIDE DEF Others, Sound
      <3>. QED
        BY <1>6, <3>1 DEF Answering, Deleting
    <2>2. ASSUME NEW p \in Pairs, NEW v \in Verdicts, RespondVerify(r, p, v)
          PROVE  Others(r) /\ Sound(req'[r])
      <3>1. Others(r) /\ req'[r] = [pc |-> "find", pair |-> p, accepted |-> v]
        BY <1>7, <2>2 DEF RespondVerify
      <3>. HIDE DEF Others, Sound
      <3>. QED
        BY <1>6, <3>1 DEF Answering, Deleting
    <2>3. ASSUME End(r) PROVE Others(r) /\ Sound(req'[r])
      <3>1. Others(r) /\ req'[r] = Idle
        BY <1>7, <2>3 DEF End
      <3>. HIDE DEF Others, Sound
      <3>. QED
        BY <1>6, <3>1 DEF Answering, Deleting, Idle
    <2>. HIDE DEF Others, Sound
    <2>. QED
      BY <1>8, <2>1, <2>2, <2>3 DEF ContactUpdate, ContactNotify, RespondChange, RespondNotify,
         DelUser, Finish
  <1>9. ASSUME NEW r \in Requests, NEW l, GoTo(r, l)
        PROVE  /\ Others(r)
               /\ req[r].pc \in Contacting => req'[r].pc = l /\ req'[r].pair = req[r].pair
               /\ req[r].pc \in Answering =>
                    /\ req'[r].pc = l /\ req'[r].pair = req[r].pair
                    /\ req'[r].request = req[r].request
               /\ req[r].pc = "delRequests" => req'[r].pc = l /\ req'[r].user = req[r].user
    <2>1. TypeOK
      OBVIOUS
    <2>2. /\ req[r].pc \in Contacting => req'[r] = [pc |-> l, pair |-> req[r].pair]
          /\ req[r].pc \in Answering =>
               req'[r] = [pc |-> l, pair |-> req[r].pair,
                          accepted |-> req[r].accepted, request |-> req[r].request]
          /\ req[r].pc = "delRequests" => req'[r] = [pc |-> l, user |-> req[r].user]
          /\ Others(r)
      BY <1>9, <2>1, Moved
    <2>. QED
      BY <2>2
  <1>10. ASSUME NEW r \in Requests, ContactTarget(r) \/ ContactInsert(r)
         PROVE  Others(r) /\ Sound(req'[r])
    <2>1. Others(r) /\ req'[r].pc \in {"count", "notify"}
      BY <1>9, <1>10 DEF ContactTarget, ContactInsert, Contacting
    <2>. HIDE DEF Others, Sound
    <2>. QED
      BY <1>6, <2>1 DEF Answering, Deleting
  <1>11. ASSUME NEW r \in Requests, ContactCount(r) PROVE Others(r) /\ Sound(req'[r])
    <2>1. CASE \E x \in frequests : x.pair = req[r].pair
      <3>1. Others(r) /\ req'[r].pc = "update" /\ req'[r].pair = req[r].pair
        BY <1>9, <1>11, <2>1 DEF ContactCount, Contacting
      <3>2. frequests' = frequests
        BY <1>11 DEF ContactCount, tables
      <3>3. There(req'[r])
        BY <2>1, <3>1, <3>2
      <3>. HIDE DEF There, Right, Answered, Own, Others
      <3>. QED
        BY <3>1, <3>3 DEF Answering, Deleting
    <2>2. CASE ~ \E x \in frequests : x.pair = req[r].pair
      <3>1. Others(r) /\ req'[r].pc = "insert"
        BY <1>9, <1>11, <2>2 DEF ContactCount, Contacting
      <3>. HIDE DEF Others, Sound
      <3>. QED
        BY <1>6, <3>1 DEF Answering, Deleting
    <2>. QED
      BY <2>1, <2>2
  <1>12. ASSUME NEW r \in Requests, req[r].pc \in Answering, NEW l \in Answering, GoTo(r, l),
                l = "change" => Answered(req'[r])
         PROVE  Others(r) /\ Sound(req'[r])
    <2>1. /\ Others(r) /\ req'[r].pc = l
          /\ req'[r].pair = req[r].pair /\ req'[r].request = req[r].request
      BY <1>9, <1>12
    <2>2. Right(req[r])
      BY <1>3, <1>12
    <2>3. Right(req'[r])
      BY <2>1, <2>2
    <2>. HIDE DEF There, Right, Answered, Own, Others
    <2>. QED
      BY <1>12, <2>1, <2>3 DEF Answering, Deleting
  <1>13. ASSUME NEW r \in Requests, CountFails(r) \/ RespondStore(r) PROVE Others(r) /\ Sound(req'[r])
    <2>1. CASE CountFails(r) /\ req[r].pc = "count"
      <3>1. Others(r) /\ req'[r].pc = "insert"
        BY <1>9, <2>1 DEF CountFails, Contacting
      <3>. HIDE DEF Others, Sound
      <3>. QED
        BY <1>6, <3>1 DEF Answering, Deleting
    <2>2. CASE CountFails(r) /\ req[r].pc # "count"
      <3>1. req[r].pc \in Answering /\ GoTo(r, "store") /\ "store" \in Answering
        BY <2>2 DEF CountFails, Answering
      <3>. HIDE DEF Others, Sound, Answered
      <3>. QED
        BY <1>12, <3>1
    <2>3. CASE RespondStore(r)
      <3>1. req[r].pc \in Answering /\ GoTo(r, "notifyAnswer") /\ "notifyAnswer" \in Answering
        BY <2>3 DEF RespondStore, Answering
      <3>. HIDE DEF Others, Sound, Answered
      <3>. QED
        BY <1>12, <3>1
    <2>. QED
      BY <1>13, <2>1, <2>2, <2>3
  <1>14. ASSUME NEW r \in Requests, RespondFind(r) PROVE Others(r) /\ Sound(req'[r])
    <2>1. PICK x \in frequests : Continue(r, [pc |-> "countAnswers", pair |-> x.pair,
                                              accepted |-> req[r].accepted, request |-> x.id])
      BY <1>14 DEF RespondFind
    <2>2. Others(r) /\ req'[r] = [pc |-> "countAnswers", pair |-> x.pair,
                                  accepted |-> req[r].accepted, request |-> x.id]
      BY <1>7, <2>1
    <2>3. UNCHANGED <<frequests, lastId>>
      BY <1>14 DEF RespondFind, tables
    <2>4. Right(req'[r]) /\ req'[r].pc = "countAnswers"
      BY <2>2, <2>3 DEF IdsDrawn
    <2>. HIDE DEF There, Right, Answered, Own, Others
    <2>. QED
      BY <2>2, <2>4 DEF Deleting
  <1>15. ASSUME NEW r \in Requests, RespondCount(r) PROVE Others(r) /\ Sound(req'[r])
    <2>1. UNCHANGED <<frequests, fresponses>> /\ req[r].pc \in Answering
      BY <1>15 DEF RespondCount, tables, Answering
    <2>2. CASE AnswersTo(req[r].request) = {}
      <3>1. GoTo(r, "store") /\ "store" \in Answering
        BY <1>15, <2>2 DEF RespondCount, Answering
      <3>. HIDE DEF Others, Sound, Answered
      <3>. QED
        BY <1>12, <2>1, <3>1
    <2>3. CASE AnswersTo(req[r].request) # {}
      <3>1. GoTo(r, "change") /\ "change" \in Answering
        BY <1>15, <2>3 DEF RespondCount, Answering
      <3>2. req'[r].pair = req[r].pair /\ req'[r].request = req[r].request
        BY <1>9, <2>1, <3>1
      <3>3. PICK a \in fresponses : a.request = req[r].request
        BY <2>3 DEF AnswersTo
      <3>4. PICK x \in frequests : x.id = a.request
        BY DEF FriendGraph
      <3>5. x.pair = req[r].pair
        BY <2>1, <3>3, <3>4 DEF Informed
      <3>6. Answered(req'[r])
        BY <2>1, <3>2, <3>3, <3>4, <3>5
      <3>. HIDE DEF Others, Sound, Answered
      <3>. QED
        BY <1>12, <2>1, <3>1, <3>6
    <2>. QED
      BY <2>2, <2>3
  <1>16. ASSUME NEW r \in Requests, Others(r), req'[r].pc \in Deleting \ {"delResponses"},
                req'[r].user \in removed'.who
         PROVE  Sound(req'[r])
    <2>. HIDE DEF There, Right, Answered, Own
    <2>. QED
      BY <1>16 DEF Answering, Deleting
  <1>17. ASSUME NEW r \in Requests, NEW u \in Users, DeleteVerify(r, u)
         PROVE  Others(r) /\ Sound(req'[r])
    <2>1. Others(r) /\ req'[r] = [pc |-> "loadIds", user |-> u]
      BY <1>7, <1>17 DEF DeleteVerify
    <2>2. u \in removed'.who
      BY <1>17 DEF DeleteVerify
    <2>. HIDE DEF Others, Sound
    <2>. QED
      BY <1>16, <2>1, <2>2 DEF Deleting
  <1>18. ASSUME NEW r \in Requests, DelLoadIds(r) PROVE Others(r) /\ Sound(req'[r])
    <2> DEFINE u   == req[r].user
               ids == {x.id : x \in {y \in frequests : Involves(y.pair, u)}}
    <2>1. u \in removed'.who /\ UNCHANGED <<frequests, lastId>>
      BY <1>18 DEF DelLoadIds, Informed, Deleting, tables, past
    <2>2. /\ \A i \in ids : i <= lastId'
          /\ \A x \in frequests' : x.id \in ids => Involves(x.pair, u)
      BY <2>1 DEF IdsDrawn
    <2>3. Continue(r, IF ids = {} THEN [pc |-> "delRequests", user |-> u]
                      ELSE [pc |-> "delResponses", user |-> u, ids |-> ids])
      BY <1>18 DEF DelLoadIds
    <2>. HIDE DEF u, ids
    <2>4. /\ Others(r)
          /\ \/ req'[r] = [pc |-> "delRequests", user |-> u]
             \/ req'[r] = [pc |-> "delResponses", user |-> u, ids |-> ids]
      BY <1>7, <2>3
    <2>5. CASE req'[r] = [pc |-> "delRequests", user |-> u]
      <3>. HIDE DEF Others, Sound
      <3>. QED
        BY <1>16, <2>1, <2>4, <2>5 DEF Deleting
    <2>6. CASE req'[r] = [pc |-> "delResponses", user |-> u, ids |-> ids]
      <3>1. Own(req'[r]) /\ req'[r].pc = "delResponses" /\ req'[r].user = u
        BY <2>2, <2>6
      <3>. HIDE DEF There, Right, Answered, Own, Others
      <3>. QED
        BY <2>1, <2>4, <3>1 DEF Answering, Deleting
    <2>. QED
      BY <2>4, <2>5, <2>6
  <1>19. ASSUME NEW r \in Requests, DelResponses(r) \/ DelRequests(r)
         PROVE  Others(r) /\ Sound(req'[r])
    <2>1. Others(r) /\ req'[r].user = req[r].user /\ req'[r].pc \in {"delRequests", "delUser"}
      BY <1>7, <1>9, <1>19 DEF DelResponses, DelRequests
    <2>2. req[r].user \in removed'.who
      BY <1>19 DEF DelResponses, DelRequests, Informed, Deleting, past
    <2>. HIDE DEF Others, Sound
    <2>. QED
      BY <1>16, <2>1, <2>2 DEF Deleting
  <1>20. req' = req \/ \E r \in Requests : Others(r) /\ Sound(req'[r])
    <2>. HIDE DEF Others, Sound
    <2>. QED
      BY <1>8, <1>10, <1>11, <1>13, <1>14, <1>15, <1>17, <1>18, <1>19
         DEF Next, Step, FetchFriendRequests, FetchFriendResponses, FetchMyAccepted, Register, vars
  <1>. HIDE DEF Others, Sound
  <1>. QED
    BY <1>4, <1>5, <1>20


-----------------------------------------------------------------------------
\* A set with at most one element more, or without one of its elements.
LEMMA OneMore ==
  ASSUME NEW S, IsFiniteSet(S), NEW e, NEW T \in SUBSET (S \cup {e})
  PROVE  IsFiniteSet(T) /\ Cardinality(T) \in Nat /\ Cardinality(T) <= Cardinality(S) + 1
  <1>1. /\ IsFiniteSet(S \cup {e}) /\ Cardinality(S) \in Nat
        /\ Cardinality(S \cup {e}) <= Cardinality(S) + 1 /\ Cardinality(S \cup {e}) \in Nat
    BY FS_AddElement, FS_CardinalityType
  <1>2. IsFiniteSet(T) /\ Cardinality(T) <= Cardinality(S \cup {e})
    BY <1>1, FS_Subset
  <1>3. Cardinality(T) \in Nat
    BY <1>2, FS_CardinalityType
  <1>. QED
    BY <1>1, <1>2, <1>3

LEMMA OneLess ==
  ASSUME NEW S, IsFiniteSet(S), NEW e \in S, NEW T \in SUBSET (S \ {e})
  PROVE  Cardinality(T) \in Nat /\ Cardinality(T) + 1 <= Cardinality(S)
  <1>1. /\ IsFiniteSet(S \ {e}) /\ Cardinality(S) \in Nat
        /\ Cardinality(S \ {e}) = Cardinality(S) - 1 /\ Cardinality(S \ {e}) \in Nat
    BY FS_RemoveElement, FS_CardinalityType
  <1>2. IsFiniteSet(T) /\ Cardinality(T) <= Cardinality(S \ {e})
    BY <1>1, FS_Subset
  <1>3. Cardinality(T) \in Nat
    BY <1>2, FS_CardinalityType
  <1>. QED
    BY <1>1, <1>2, <1>3

\* Each answer is paid for by a request that counted none, or by a fault.
LEMMA CountedNext ==
  ASSUME IInv, Counted, [Next]_vars
  PROVE  Counted'
  <1> USE DEF IInv
  <1> DEFINE N == Cardinality(Requests)
             A(i) == Cardinality(AnswersTo(i))
             S(i) == Cardinality(Storing(i))
             Fine(i) == /\ IsFiniteSet(AnswersTo(i)')
                        /\ Cardinality(AnswersTo(i)') + Cardinality(Storing(i)') <= N + faults'
             Goal == \A i \in Ids : Fine(i)
             Others(r) == \A t \in Requests : t # r => req'[t] = req[t]
  <1>1. N \in Nat /\ faults \in Nat
    BY Numbers, RequestsAssumption, FS_CardinalityType DEF TypeOK
  <1>2. ASSUME NEW i \in Ids
        PROVE  /\ IsFiniteSet(Storing(i)) /\ S(i) \in Nat
               /\ IsFiniteSet(Storing(i)') /\ Cardinality(Storing(i)') \in Nat
               /\ Cardinality(Storing(i)') <= N
               /\ IsFiniteSet(AnswersTo(i)) /\ A(i) \in Nat /\ A(i) + S(i) <= N + faults
    <2>1. Storing(i) \in SUBSET Requests /\ Storing(i)' \in SUBSET Requests
      BY DEF Storing
    <2>2. /\ IsFiniteSet(Storing(i)) /\ S(i) \in Nat
          /\ IsFiniteSet(Storing(i)') /\ Cardinality(Storing(i)') \in Nat
          /\ Cardinality(Storing(i)') <= N
      BY <2>1, RequestsAssumption, FS_Subset, FS_CardinalityType
    <2>3. IsFiniteSet(AnswersTo(i)) /\ A(i) \in Nat /\ A(i) + S(i) <= N + faults
      BY FS_CardinalityType DEF Counted
    <2>. QED
      BY <2>2, <2>3
  <1>3. ASSUME NEW i \in Ids, IsFiniteSet(AnswersTo(i)'), Cardinality(AnswersTo(i)') <= A(i),
               Storing(i)' \in SUBSET Storing(i), faults' = faults
        PROVE  Fine(i)
    <2>1. Cardinality(AnswersTo(i)') \in Nat /\ Cardinality(Storing(i)') <= S(i)
      BY <1>2, <1>3, FS_Subset, FS_CardinalityType
    <2>2. /\ A(i) + S(i) <= N + faults /\ A(i) \in Nat /\ S(i) \in Nat
          /\ Cardinality(Storing(i)') \in Nat
      BY <1>2
    <2>. HIDE DEF A, S, N
    <2>. QED
      BY <1>1, <1>3, <2>1, <2>2
  <1>4. ASSUME NEW i \in Ids, AnswersTo(i)' \in SUBSET AnswersTo(i),
               Storing(i)' \in SUBSET Storing(i), faults' = faults
        PROVE  Fine(i)
    <2>1. IsFiniteSet(AnswersTo(i)') /\ Cardinality(AnswersTo(i)') <= A(i)
      BY <1>2, <1>4, FS_Subset
    <2>. HIDE DEF Fine, A
    <2>. QED
      BY <1>3, <1>4, <2>1
  <1>5. ASSUME NEW r \in Requests, Others(r), req'[r].pc # "store"
        PROVE  \A i \in Ids : Storing(i)' \in SUBSET Storing(i)
    BY <1>5 DEF Storing
  <1>6. ASSUME fresponses' \subseteq fresponses, faults' = faults,
               req' = req \/ \E r \in Requests : Others(r) /\ req'[r].pc # "store"
        PROVE  Goal
    <2>1. \A i \in Ids : AnswersTo(i)' \in SUBSET AnswersTo(i)
      BY <1>6 DEF AnswersTo
    <2>2. \A i \in Ids : Storing(i)' \in SUBSET Storing(i)
      <3>1. CASE req' = req
        BY <3>1 DEF Storing
      <3>. HIDE DEF Others
      <3>. QED
        BY <1>5, <1>6, <3>1
    <2>. HIDE DEF Fine
    <2>. QED
      BY <1>4, <1>6, <2>1, <2>2
  <1>7. ASSUME NEW r \in Requests, req[r].pc \in Answering, NEW l, GoTo(r, l)
        PROVE  Others(r) /\ req'[r].pc = l /\ req'[r].request = req[r].request
    <2>1. Others(r) /\ req'[r] = [pc |-> l, pair |-> req[r].pair,
                                  accepted |-> req[r].accepted, request |-> req[r].request]
      BY <1>7, Moved
    <2>. QED
      BY <2>1
  <1>8. ASSUME NEW r \in Requests, RespondCount(r) PROVE Goal
    <2>1. UNCHANGED <<fresponses, faults>> /\ req[r].pc \in Answering
      BY <1>8 DEF RespondCount, tables, past, Answering
    <2>2. CASE AnswersTo(req[r].request) = {}
      <3>1. Others(r) /\ req'[r].pc = "store" /\ req'[r].request = req[r].request
        BY <1>7, <1>8, <2>1, <2>2 DEF RespondCount
      <3>2. ASSUME NEW i \in Ids, i # req[r].request PROVE Fine(i)
        <4>1. AnswersTo(i)' \in SUBSET AnswersTo(i) /\ Storing(i)' \in SUBSET Storing(i)
          BY <2>1, <3>1, <3>2 DEF AnswersTo, Storing
        <4>. HIDE DEF Fine
        <4>. QED
          BY <1>4, <2>1, <4>1
      <3>3. ASSUME NEW i \in Ids, i = req[r].request PROVE Fine(i)
        <4>1. AnswersTo(i)' = {}
          BY <2>1, <2>2, <3>3 DEF AnswersTo
        <4>2. IsFiniteSet(AnswersTo(i)') /\ Cardinality(AnswersTo(i)') = 0
          BY <4>1, FS_EmptySet
        <4>3. Cardinality(Storing(i)') \in Nat /\ Cardinality(Storing(i)') <= N
          BY <1>2
        <4>. HIDE DEF N
        <4>. QED
          BY <1>1, <2>1, <4>2, <4>3
      <3>. HIDE DEF Fine
      <3>. QED
        BY <3>2, <3>3
    <2>3. CASE AnswersTo(req[r].request) # {}
      <3>1. Others(r) /\ req'[r].pc = "change"
        BY <1>7, <1>8, <2>1, <2>3 DEF RespondCount
      <3>. HIDE DEF Goal, Others
      <3>. QED
        BY <1>6, <2>1, <3>1
    <2>. QED
      BY <2>2, <2>3
  <1>9. ASSUME NEW r \in Requests, CountFails(r) PROVE Goal
    <2>1. fresponses' = fresponses /\ faults' = faults + 1
      BY <1>9 DEF CountFails, tables
    <2>2. Others(r)
      BY <1>9 DEF CountFails, GoTo, TypeOK
    <2>3. ASSUME NEW i \in Ids PROVE Fine(i)
      <3>1. AnswersTo(i)' = AnswersTo(i) /\ Storing(i)' \in SUBSET (Storing(i) \cup {r})
        BY <2>1, <2>2 DEF AnswersTo, Storing
      <3>2. Cardinality(Storing(i)') \in Nat /\ Cardinality(Storing(i)') <= S(i) + 1
        BY <1>2, <3>1, OneMore
      <3>3. /\ IsFiniteSet(AnswersTo(i)) /\ A(i) \in Nat /\ S(i) \in Nat
            /\ A(i) + S(i) <= N + faults
        BY <1>2
      <3>4. Cardinality(AnswersTo(i)') = A(i)
        BY <3>1
      <3>. HIDE DEF A, S, N
      <3>. QED
        BY <1>1, <2>1, <3>1, <3>2, <3>3, <3>4
    <2>. QED
      BY <2>3
  <1>10. ASSUME NEW r \in Requests, RespondStore(r) PROVE Goal
    <2>1. PICK no : fresponses' = fresponses \cup {[no |-> no, request |-> req[r].request,
                                                    pair |-> req[r].pair,
                                                    accepted |-> req[r].accepted]}
      BY <1>10 DEF RespondStore
    <2> DEFINE row == [no |-> no, request |-> req[r].request, pair |-> req[r].pair,
                       accepted |-> req[r].accepted]
    <2>2. fresponses' = fresponses \cup {row} /\ row.request = req[r].request
      BY <2>1
    <2>. HIDE DEF row
    <2>3. req[r].pc = "store" /\ faults' = faults
      BY <1>10 DEF RespondStore
    <2>4. Others(r) /\ req'[r].pc # "store"
      BY <1>7, <1>10 DEF RespondStore, Answering
    <2>5. ASSUME NEW i \in Ids, i # req[r].request PROVE Fine(i)
      <3>1. AnswersTo(i)' \in SUBSET AnswersTo(i)
        BY <2>2, <2>5 DEF AnswersTo
      <3>2. Storing(i)' \in SUBSET Storing(i)
        BY <1>5, <2>4
      <3>. HIDE DEF Fine
      <3>. QED
        BY <1>4, <2>3, <3>1, <3>2
    <2>6. ASSUME NEW i \in Ids, i = req[r].request PROVE Fine(i)
      <3>1. AnswersTo(i)' \in SUBSET (AnswersTo(i) \cup {row})
        BY <2>2 DEF AnswersTo
      <3>2. r \in Storing(i) /\ Storing(i)' \in SUBSET (Storing(i) \ {r})
        BY <2>3, <2>4, <2>6 DEF Storing
      <3>3. /\ IsFiniteSet(AnswersTo(i)') /\ Cardinality(AnswersTo(i)') \in Nat
            /\ Cardinality(AnswersTo(i)') <= A(i) + 1
        BY <1>2, <3>1, OneMore
      <3>4. Cardinality(Storing(i)') \in Nat /\ Cardinality(Storing(i)') + 1 <= S(i)
        BY <1>2, <3>2, OneLess
      <3>5. A(i) \in Nat /\ S(i) \in Nat /\ A(i) + S(i) <= N + faults
        BY <1>2
      <3>. HIDE DEF A, S, N
      <3>. QED
        BY <1>1, <2>3, <3>3, <3>4, <3>5
    <2>. HIDE DEF Fine
    <2>. QED
      BY <2>5, <2>6
  <1>11. ASSUME NEW r \in Requests, RespondChange(r) PROVE Goal
    <2> DEFINE Changed(x) == IF x.request = req[r].request
                             THEN [x EXCEPT !.accepted = req[r].accepted] ELSE x
    <2>1. fresponses' = {Changed(x) : x \in fresponses} /\ faults' = faults
      BY <1>11 DEF RespondChange
    <2>2. \A x \in fresponses : Changed(x).request = x.request
      BY DEF TypeOK, ResponseRow
    <2>3. Others(r) /\ req'[r].pc # "store"
      BY <1>11 DEF RespondChange, End, Continue, Idle, TypeOK
    <2>. HIDE DEF Changed
    <2>4. ASSUME NEW i \in Ids PROVE Fine(i)
      <3> DEFINE f == [x \in AnswersTo(i) |-> Changed(x)]
                 T == AnswersTo(i)'
      <3>1. T = {Changed(x) : x \in AnswersTo(i)}
        BY <2>1, <2>2 DEF AnswersTo
      <3>2. f \in Surjection(AnswersTo(i), T)
        BY <3>1 DEF Surjection
      <3>3. IsFiniteSet(T) /\ Cardinality(T) <= A(i)
        BY <1>2, <3>2, FS_Surjection
      <3>4. Storing(i)' \in SUBSET Storing(i)
        BY <1>5, <2>3
      <3>. HIDE DEF Fine, f
      <3>. QED
        BY <1>3, <2>1, <3>3, <3>4
    <2>. QED
      BY <2>4
  <1>12. ASSUME NEW r \in Requests, NEW q, Continue(r, q), q.pc # "store",
                fresponses' \subseteq fresponses, faults' = faults
         PROVE  Goal
    <2>1. Others(r) /\ req'[r].pc # "store"
      BY <1>12 DEF Continue, TypeOK
    <2>. HIDE DEF Goal, Others
    <2>. QED
      BY <1>6, <1>12, <2>1
  <1>13. ASSUME NEW r \in Requests, End(r), fresponses' \subseteq fresponses, faults' = faults
         PROVE  Goal
    <2>1. Idle.pc # "store"
      BY DEF Idle
    <2>. HIDE DEF Goal
    <2>. QED
      BY <1>12, <1>13, <2>1 DEF End
  <1>14. ASSUME NEW r \in Requests, NEW l, GoTo(r, l), l # "store",
                req[r].pc \in Contacting \cup {"delRequests"},
                fresponses' \subseteq fresponses, faults' = faults
         PROVE  Goal
    <2>1. Others(r) /\ (\/ req'[r] = [pc |-> l, pair |-> req[r].pair]
                        \/ req'[r] = [pc |-> l, user |-> req[r].user])
      BY <1>14, Moved
    <2>2. Others(r) /\ req'[r].pc # "store"
      BY <1>14, <2>1
    <2>. HIDE DEF Goal, Others
    <2>. QED
      BY <1>6, <1>14, <2>2
  <1>. HIDE DEF Goal, Others
  <1>15. ASSUME NEW r \in Requests,
                \/ \E p \in Pairs : ContactVerify(r, p) \/ \E v \in Verdicts : RespondVerify(r, p, v)
                \/ \E u \in Users : DeleteVerify(r, u)
                \/ RespondFind(r) \/ DelResponses(r)
         PROVE  Goal
    BY <1>12, <1>15 DEF ContactVerify, RespondVerify, DeleteVerify, RespondFind, DelResponses,
                        tables, past
  <1>16. ASSUME NEW r \in Requests, DelLoadIds(r) PROVE Goal
    <2> DEFINE u   == req[r].user
               ids == {x.id : x \in {y \in frequests : Involves(y.pair, u)}}
               q   == IF ids = {} THEN [pc |-> "delRequests", user |-> u]
                      ELSE [pc |-> "delResponses", user |-> u, ids |-> ids]
    <2>1. Continue(r, q) /\ UNCHANGED <<fresponses, faults>>
      BY <1>16 DEF DelLoadIds, tables, past
    <2>2. q.pc # "store"
      OBVIOUS
    <2>. HIDE DEF q
    <2>. QED
      BY <1>12, <2>1, <2>2
  <1>17. ASSUME NEW r \in Requests, \/ ContactUpdate(r) \/ ContactNotify(r) \/ RespondNotify(r)
                                    \/ DelUser(r) \/ Finish(r)
         PROVE  Goal
    <2>1. End(r) /\ faults' = faults /\ fresponses' \subseteq fresponses
      BY <1>17 DEF ContactUpdate, ContactNotify, RespondNotify, DelUser, RemoveRequests, Finish,
                   tables, past
    <2>. QED
      BY <1>13, <2>1
  <1>18. ASSUME NEW r \in Requests, \/ ContactTarget(r) \/ ContactCount(r) \/ ContactInsert(r)
                                    \/ DelRequests(r)
         PROVE  Goal
    <2>1. /\ faults' = faults /\ fresponses' \subseteq fresponses
          /\ req[r].pc \in Contacting \cup {"delRequests"}
      BY <1>18 DEF ContactTarget, ContactCount, ContactInsert, DelRequests, RemoveRequests,
                   Contacting, tables, past
    <2>2. GoTo(r, "count") \/ GoTo(r, "update") \/ GoTo(r, "insert") \/ GoTo(r, "notify")
          \/ GoTo(r, "delUser")
      BY <1>18 DEF ContactTarget, ContactCount, ContactInsert, DelRequests
    <2>. QED
      BY <1>14, <2>1, <2>2
  <1>19. ASSUME UNCHANGED <<req, fresponses, faults>> PROVE Goal
    BY <1>6, <1>19
  <1>20. Goal
    BY <1>8, <1>9, <1>10, <1>11, <1>15, <1>16, <1>17, <1>18, <1>19
       DEF Next, Step, FetchFriendRequests, FetchFriendResponses, FetchMyAccepted, Register,
           tables, past, vars
  <1>. QED
    BY <1>20 DEF Goal, Counted

-----------------------------------------------------------------------------
LEMMA Invariance == Spec => [](IInv /\ Counted)
  <1>1. Init => IInv
    <2>1. SUFFICES ASSUME Init PROVE IInv
      OBVIOUS
    <2>2. TypeOK
      BY <2>1, Numbers DEF Init, TypeOK, Request
    <2>3. IdsDrawn /\ FriendGraph /\ Kept
      BY <2>1 DEF Init, IdsDrawn, FriendGraph, Kept
    <2>4. Informed
      BY <2>1 DEF Init, Informed, Idle, Answering, Deleting
    <2>. QED
      BY <2>2, <2>3, <2>4 DEF IInv
  <1>2. Init => Counted
    <2>1. SUFFICES ASSUME Init, NEW i \in Ids
                   PROVE  /\ IsFiniteSet(AnswersTo(i))
                          /\ Cardinality(AnswersTo(i)) + Cardinality(Storing(i)) <=
                               Cardinality(Requests) + faults
      BY DEF Counted
    <2>2. AnswersTo(i) = {} /\ Storing(i) = {} /\ faults = 0
      BY <2>1 DEF Init, AnswersTo, Storing, Idle
    <2>3. Cardinality(Requests) \in Nat
      BY RequestsAssumption, FS_CardinalityType
    <2>. QED
      BY <2>2, <2>3, FS_EmptySet
  <1>3. IInv /\ Counted /\ [Next]_vars => IInv' /\ Counted'
    BY TypeNext, GraphNext, KeptNext, InformedNext, CountedNext DEF IInv
  <1>. QED
    BY <1>1, <1>2, <1>3, PTL DEF Spec

\* The tables, the requests in flight and what the clients know keep their types
\* through every statement of CONTACT, RESPOND_FRIEND_REQUEST and DELETE.
THEOREM TypeCorrect == Spec => []TypeOK
  BY Invariance, PTL DEF IInv

\* However CONTACT, RESPOND_FRIEND_REQUEST and DELETE interleave, each request is
\* between two existing accounts and the only one of its pair, and each answer
\* belongs to the request of its own pair.
THEOREM GraphSound == Spec => []FriendGraph
  BY Invariance, PTL DEF IInv

\* A request or an answer reported as stored stays in its table until a DELETE
\* works on one of the two accounts.
THEOREM StoredIsKept == Spec => []Kept
  BY Invariance, PTL DEF IInv

\* RESPOND_FRIEND_REQUEST counts and stores in two statements: the answers to one
\* request are never more than the requests in flight and the failed COUNTs.
THEOREM FewAnswers == Spec => []AnswersBounded
  <1>1. IInv /\ Counted => AnswersBounded
    <2>1. SUFFICES ASSUME IInv, Counted, NEW i \in Ids
                   PROVE  Cardinality(AnswersTo(i)) <= Cardinality(Requests) + faults
      BY DEF AnswersBounded
    <2>2. Storing(i) \in SUBSET Requests
      BY DEF Storing
    <2>3. Cardinality(Storing(i)) \in Nat /\ Cardinality(Requests) \in Nat
      BY <2>2, RequestsAssumption, FS_Subset, FS_CardinalityType
    <2>4. /\ Cardinality(AnswersTo(i)) \in Nat /\ faults \in Nat
          /\ Cardinality(AnswersTo(i)) + Cardinality(Storing(i)) <= Cardinality(Requests) + faults
      BY <2>1, Numbers, FS_CardinalityType DEF IInv, TypeOK, Counted
    <2>. QED
      BY <2>3, <2>4
  <1>. QED
    BY <1>1, Invariance, PTL
=============================================================================
