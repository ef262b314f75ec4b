--------------------------- MODULE MessagingProof ---------------------------
(***************************************************************************)
(* For any users, messages, page size and number of requests in flight:    *)
(* the types of Messaging, and that an accepted message is not lost.       *)
(*                                                                         *)
(* NoSilentLoss alone is not inductive: the statement that removes rows    *)
(* runs after the check that justified it.  The strengthening says what    *)
(* the request still knows from its check when it comes to the statement.  *)
(***************************************************************************)
EXTENDS Messaging, TLAPS

\* What an acknowledgement is about to remove has been received; who a deletion
\* works for is recorded.
Justified ==
  \A r \in Requests :
    /\ req[r].pc = "remove" => req[r].id \in seen
    /\ req[r].pc = "delMessages" => req[r].user \in removed.who

IInv == TypeOK /\ Justified /\ NoSilentLoss

\* The fields of a request at each of its positions.
LEMMA RequestShape ==
  ASSUME TypeOK, NEW r \in Requests
  PROVE  /\ req[r] \in Request
         /\ req[r].pc \in {"recipient", "insert", "remove"} => req[r].id \in MessageIds
         /\ req[r].pc = "insert" => req[r].ts \in 0..MaxTime /\ req[r].expires \in 0..Never
         /\ req[r].pc \in {"remove", "delMessages", "delUser", "load"} => req[r].user \in Users
         /\ req[r].pc = "delMessages" => req[r] \in [pc : {"delMessages", "delUser"}, user : Users]
  BY DEF TypeOK, Request, Idle

\* The date of expiry is one the table can hold.
LEMMA ExpiryType ==
  ASSUME now \in 0..MaxTime, NEW m \in MessageIds
  PROVE  Expiry(m) \in 0..Never
  BY EnvelopeAssumption, BoundsAssumption DEF Expiry, Never

LEMMA TypeNext ==
  ASSUME TypeOK, [Next]_vars
  PROVE  TypeOK'
  <1> USE BoundsAssumption
  <1>1. ASSUME NEW r \in Requests, NEW m \in MessageIds, SendVerify(r, m) PROVE TypeOK'
    BY <1>1 DEF TypeOK, SendVerify, Continue, Request
  <1>2. ASSUME NEW r \in Requests, NEW m \in MessageIds, AckVerify(r, m) PROVE TypeOK'
    BY <1>2, EnvelopeAssumption DEF TypeOK, AckVerify, Continue, Request
  <1>3. ASSUME NEW r \in Requests, NEW u \in Users, NEW since \in 0..now,
               FetchVerify(r, u, since)
        PROVE  TypeOK'
    <2>1. since \in 0..MaxTime
      BY DEF TypeOK
    <2>. QED
      BY <1>3, <2>1 DEF TypeOK, FetchVerify, Continue, Request
  <1>4. ASSUME NEW r \in Requests, NEW u \in Users, DeleteVerify(r, u) PROVE TypeOK'
    BY <1>4 DEF TypeOK, DeleteVerify, Continue, Request
  <1>5. ASSUME NEW r \in Requests, SendRecipient(r) PROVE TypeOK'
    <2>1. req[r].id \in MessageIds
      BY <1>5, RequestShape DEF SendRecipient
    <2>2. Expiry(req[r].id) \in 0..Never
      BY <2>1, ExpiryType DEF TypeOK
    <2>. QED
      BY <1>5, <2>1, <2>2 DEF TypeOK, SendRecipient, Continue, Request
  <1>6. ASSUME NEW r \in Requests, SendInsert(r) PROVE TypeOK'
    <2> DEFINE m == req[r].id
               row == [id |-> m, from |-> Envelope[m].from, to |-> Envelope[m].to,
                       ts |-> req[r].ts, expires |-> req[r].expires]
    <2>1. row \in Row
      BY <1>6, RequestShape, EnvelopeAssumption DEF SendInsert, Row
    <2>2. messages' = messages \cup {row} /\ stored' = stored \cup {row}
      BY <1>6 DEF SendInsert
    <2>3. req' \in [Requests -> Request]
      BY <1>6 DEF SendInsert, End, Continue, TypeOK, Request
    <2>. QED
      BY <1>6, <2>1, <2>2, <2>3 DEF SendInsert, TypeOK
  <1>7. ASSUME NEW r \in Requests, FetchLoad(r) PROVE TypeOK'
    <2>1. PICK P \in Pages(Fetchable(req[r].user, req[r].since, req[r].at)) :
            seen' = seen \cup {x.id : x \in P}
      BY <1>7 DEF FetchLoad
    <2>2. P \subseteq Row
      BY DEF Pages, Fetchable, TypeOK
    <2>3. seen' \subseteq MessageIds
      BY <2>1, <2>2 DEF Row, TypeOK
    <2>. QED
      BY <1>7, <2>3 DEF FetchLoad, End, Continue, TypeOK, Request
  <1>8. ASSUME NEW r \in Requests, AckRemove(r) PROVE TypeOK'
    BY <1>8 DEF AckRemove, End, Continue, TypeOK, Request
  <1>9. ASSUME NEW r \in Requests, DelMessages(r) PROVE TypeOK'
    <2>1. req[r] \in [pc : {"delMessages", "delUser"}, user : Users]
      BY <1>9, RequestShape DEF DelMessages
    <2>2. [req[r] EXCEPT !.pc = "delUser"] \in [pc : {"delMessages", "delUser"}, user : Users]
      BY <2>1
    <2>. QED
      BY <1>9, <2>2 DEF DelMessages, Continue, TypeOK, Request
  <1>10. ASSUME NEW r \in Requests, DelUser(r) PROVE TypeOK'
    BY <1>10 DEF DelUser, End, Continue, TypeOK, Request
  <1>11. ASSUME NEW r \in Requests, Finish(r) PROVE TypeOK'
    BY <1>11 DEF Finish, End, Continue, TypeOK, Request
  <1>12. ASSUME NEW u \in Users, Register(u) PROVE TypeOK'
    BY <1>12 DEF Register, TypeOK
  <1>13. CASE Cleanup
    BY <1>13 DEF Cleanup, TypeOK
  <1>14. CASE Tick
    BY <1>14 DEF Tick, TypeOK
  <1>15. CASE UNCHANGED vars
    BY <1>15 DEF vars, TypeOK
  <1>. QED
    BY <1>1, <1>2, <1>3, <1>4, <1>5, <1>6, <1>7, <1>8, <1>9, <1>10, <1>11, <1>12,
       <1>13, <1>14, <1>15 DEF Next, Step

\* Time goes on, and the histories only grow.
LEMMA Monotone ==
  ASSUME TypeOK, [Next]_vars
  PROVE  /\ now \in Nat /\ now' \in Nat /\ now <= now'
         /\ seen \subseteq seen' /\ removed.who \subseteq removed'.who
  <1> DEFINE Grows == now <= now' /\ seen \subseteq seen' /\ removed.who \subseteq removed'.who
  <1>1. now \in Nat /\ now' \in Nat
    <2>1. TypeOK'
      BY TypeNext
    <2>2. now \in 0..MaxTime /\ now' \in 0..MaxTime
      BY <2>1 DEF TypeOK
    <2>. QED
      BY <2>2, BoundsAssumption
  <1>2. ASSUME UNCHANGED <<now, seen, removed>> PROVE Grows
    BY <1>1, <1>2
  <1>3. ASSUME NEW r \in Requests, NEW u \in Users, DeleteVerify(r, u) PROVE Grows
    <2>1. removed'.who = removed.who \cup {u} /\ UNCHANGED <<now, seen>>
      BY <1>3 DEF DeleteVerify
    <2>. QED
      BY <2>1, <1>1
  <1>4. ASSUME NEW r \in Requests, FetchLoad(r) PROVE Grows
    <2>1. seen \subseteq seen' /\ UNCHANGED <<now, removed>>
      BY <1>4 DEF FetchLoad
    <2>. QED
      BY <2>1, <1>1
  <1>5. ASSUME Tick PROVE Grows
    BY <1>5, <1>1 DEF Tick
  <1>6. ASSUME NEW r \in Requests, NEW m \in MessageIds, SendVerify(r, m) \/ AckVerify(r, m)
        PROVE  Grows
    BY <1>6, <1>2 DEF SendVerify, AckVerify
  <1>7. ASSUME NEW r \in Requests, NEW u \in Users, NEW since \in 0..now,
               FetchVerify(r, u, since)
        PROVE  Grows
    BY <1>7, <1>2 DEF FetchVerify
  <1>8. ASSUME NEW r \in Requests, SendRecipient(r) \/ SendInsert(r) \/ AckRemove(r)
                                   \/ DelMessages(r) \/ DelUser(r) \/ Finish(r)
        PROVE  Grows
    BY <1>8, <1>2 DEF SendRecipient, SendInsert, AckRemove, DelMessages, DelUser, Finish
  <1>9. ASSUME Cleanup \/ UNCHANGED vars \/ \E u \in Users : Register(u) PROVE Grows
    BY <1>9, <1>2 DEF Cleanup, vars, Register
  <1>. HIDE DEF Grows
  <1>10. Grows
    BY <1>3, <1>4, <1>5, <1>6, <1>7, <1>8, <1>9 DEF Next, Step
  <1>. QED
    BY <1>1, <1>10 DEF Grows

\* The requests keep what they know from their checks: `seen' and `removed.who'
\* only grow, and a request that comes to one of the two positions comes from
\* its check.
LEMMA JustifiedNext ==
  ASSUME IInv, [Next]_vars
  PROVE  Justified'
  <1>1. ASSUME NEW r \in Requests, NEW m \in MessageIds,
               SendVerify(r, m) \/ AckVerify(r, m)
        PROVE  Justified'
    BY <1>1 DEF IInv, TypeOK, Justified, SendVerify, AckVerify, Continue
  <1>2. ASSUME NEW r \in Requests, NEW u \in Users, NEW since \in 0..now,
               FetchVerify(r, u, since)
        PROVE  Justified'
    BY <1>2 DEF IInv, TypeOK, Justified, FetchVerify, Continue
  <1>3. ASSUME NEW r \in Requests, NEW u \in Users, DeleteVerify(r, u) PROVE Justified'
    BY <1>3 DEF IInv, TypeOK, Justified, DeleteVerify, Continue
  <1>4. ASSUME NEW r \in Requests, SendRecipient(r) PROVE Justified'
    BY <1>4 DEF IInv, TypeOK, Justified, SendRecipient, Continue
  <1>5. ASSUME NEW r \in Requests,
               SendInsert(r) \/ AckRemove(r) \/ DelUser(r) \/ Finish(r)
        PROVE  Justified'
    BY <1>5 DEF IInv, TypeOK, Justified, SendInsert, AckRemove, DelUser, Finish,
                End, Continue, Idle
  <1>6. ASSUME NEW r \in Requests, FetchLoad(r) PROVE Justified'
    <2>1. seen \subseteq seen'
      BY <1>6 DEF FetchLoad
    <2>. QED
      BY <1>6, <2>1 DEF IInv, TypeOK, Justified, FetchLoad, End, Continue, Idle
  <1>7. ASSUME NEW r \in Requests, DelMessages(r) PROVE Justified'
    <2>1. [req[r] EXCEPT !.pc = "delUser"].pc = "delUser"
      BY <1>7, RequestShape DEF IInv, DelMessages
    <2>. QED
      BY <1>7, <2>1 DEF IInv, TypeOK, Justified, DelMessages, Continue
  <1>8. CASE Cleanup \/ Tick \/ UNCHANGED vars \/ \E u \in Users : Register(u)
    BY <1>8 DEF IInv, Justified, Cleanup, Tick, Register, vars
  <1>. QED
    BY <1>1, <1>2, <1>3, <1>4, <1>5, <1>6, <1>7, <1>8 DEF Next, Step

\* Only three statements remove rows; every other step leaves the table or adds
\* to it.
LEMMA LossNext ==
  ASSUME IInv, [Next]_vars
  PROVE  NoSilentLoss'
  <1> DEFINE Kept(x) == x.id \in seen \/ x \in messages \/ x.expires <= now
  <1>1. now \in Nat /\ now' \in Nat /\ now <= now'
    BY Monotone DEF IInv
  <1>2. seen \subseteq seen' /\ removed.who \subseteq removed'.who
    BY Monotone DEF IInv
  <1>3. \A x \in stored : x.expires \in Nat
    BY BoundsAssumption DEF IInv, TypeOK, Row, Never
  <1>4. \A x \in stored : x \in Untouched(stored)' => x \in Untouched(stored)
    BY <1>2 DEF Untouched
  <1>5. SUFFICES ASSUME NEW x \in stored', x \in Untouched(stored)' PROVE Kept(x)'
    BY DEF NoSilentLoss, Untouched
  <1>6. \A y \in stored : y \in Untouched(stored)' => Kept(y)
    BY <1>4 DEF IInv, NoSilentLoss
  <1>7. ASSUME stored' = stored, messages \subseteq messages' PROVE Kept(x)'
    BY <1>1, <1>2, <1>3, <1>5, <1>6, <1>7
  <1>8. ASSUME NEW r \in Requests, SendInsert(r) PROVE Kept(x)'
    <2>1. CASE x \in stored
      <3>1. messages \subseteq messages'
        BY <1>8 DEF SendInsert
      <3>. QED
        BY <3>1, <2>1, <1>1, <1>2, <1>3, <1>5, <1>6
    <2>2. CASE x \notin stored
      BY <1>8, <1>5, <2>2 DEF SendInsert
    <2>. QED
      BY <2>1, <2>2
  <1>9. ASSUME NEW r \in Requests, AckRemove(r) PROVE Kept(x)'
    <2>1. stored' = stored /\ seen' = seen /\ now' = now
      BY <1>9 DEF AckRemove
    <2>2. req[r].id \in seen
      BY <1>9 DEF AckRemove, IInv, Justified
    <2>. QED
      BY <1>9, <2>1, <2>2, <1>5, <1>6 DEF AckRemove, Acked
  <1>10. ASSUME NEW r \in Requests, DelMessages(r) PROVE Kept(x)'
    <2>1. stored' = stored /\ seen' = seen /\ now' = now /\ removed' = removed
      BY <1>10 DEF DelMessages
    <2>2. req[r].user \in removed.who
      BY <1>10 DEF DelMessages, IInv, Justified
    <2>3. x.from # req[r].user /\ x.to # req[r].user
      BY <2>1, <2>2, <1>5 DEF Untouched
    <2>. QED
      BY <1>10, <2>1, <2>3, <1>5, <1>6 DEF DelMessages
  <1>11. CASE Cleanup
    <2>1. stored' = stored /\ seen' = seen /\ now' = now
      BY <1>11 DEF Cleanup
    <2>. QED
      BY <1>11, <2>1, <1>1, <1>3, <1>5, <1>6 DEF Cleanup, ExpiredRows
  <1>12. ASSUME NEW r \in Requests, NEW m \in MessageIds,
                SendVerify(r, m) \/ AckVerify(r, m)
         PROVE  Kept(x)'
    BY <1>12, <1>7 DEF SendVerify, AckVerify
  <1>13. ASSUME NEW r \in Requests, NEW u \in Users, NEW since \in 0..now,
                FetchVerify(r, u, since)
         PROVE  Kept(x)'
    BY <1>13, <1>7 DEF FetchVerify
  <1>14. ASSUME NEW r \in Requests, NEW u \in Users, DeleteVerify(r, u) PROVE Kept(x)'
    BY <1>14, <1>7 DEF DeleteVerify
  <1>15. ASSUME NEW r \in Requests, SendRecipient(r) \/ FetchLoad(r) \/ DelUser(r) \/ Finish(r)
         PROVE  Kept(x)'
    BY <1>15, <1>7 DEF SendRecipient, FetchLoad, DelUser, Finish
  <1>16. CASE Tick \/ UNCHANGED vars \/ \E u \in Users : Register(u)
    BY <1>16, <1>7 DEF Tick, vars, Register
  <1>. HIDE DEF Kept
  <1>. QED
    BY <1>8, <1>9, <1>10, <1>11, <1>12, <1>13, <1>14, <1>15, <1>16 DEF Next, Step

LEMMA Invariance == Spec => []IInv
  <1>1. Init => IInv
    BY BoundsAssumption DEF Init, IInv, TypeOK, Justified, NoSilentLoss, Untouched, Request, Idle
  <1>2. IInv /\ [Next]_vars => IInv'
    BY TypeNext, JustifiedNext, LossNext DEF IInv
  <1>. QED
    BY <1>1, <1>2, PTL DEF Spec

\* The table, the requests and the histories keep their types, whatever
\* requests interleave.
THEOREM TypeCorrect == Spec => []TypeOK
  BY Invariance, PTL DEF IInv

\* A message whose sender was told "success" is in the table until its recipient
\* has received it, it has expired or an account of the two is deleted, for any
\* number of requests in flight (send_message.rs, ack_message.rs, main.rs).
THEOREM AcceptedIsKept == Spec => []NoSilentLoss
  BY Invariance, PTL DEF IInv
=============================================================================
