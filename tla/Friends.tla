------------------------------ MODULE Friends ------------------------------
(***************************************************************************)
(* Friend requests and their answers: CONTACT, RESPOND_FRIEND_REQUEST, the *)
(* three fetches, and the statements of DELETE on both tables.             *)
(*                                                                         *)
(* Statements autocommit and requests interleave between them.  Bundles,   *)
(* signatures and texts are opaque: an UPDATE of a request replaces them   *)
(* and nothing the model tells apart.  Only the first answer and the first *)
(* request are pushed to the other side; what an UPDATE changes is learnt  *)
(* by fetching.                                                            *)
(***************************************************************************)
EXTENDS Naturals, FiniteSets

CONSTANTS Users,              \* user_hash_id values
          Pairs,              \* <<requester, target>> pairs that occur
          Requests,           \* request slots: the requests in flight at once
          MaxRequest,         \* bound on friend_requests.id
          MaxRow,             \* bound on the rows of friend_responses
          MaxAnswer,          \* bound on the answers given
          MaxDelete,          \* bound on the deletions of accounts
          MaxFault            \* bound on COUNTs that fail

ASSUME PairsAssumption == Pairs \subseteq {p \in Users \X Users : p[1] # p[2]}
ASSUME RequestsAssumption == IsFiniteSet(Requests)
ASSUME BoundsAssumption ==
         {MaxRequest, MaxRow, MaxAnswer, MaxDelete, MaxFault} \subseteq Nat

VARIABLES
  users,      \* the accounts that exist
  frequests,  \* table friend_requests: rows [id, pair]
  fresponses, \* table friend_responses: rows [no, request, pair, accepted]
  lastId,     \* the sequence of friend_requests.id
  req,        \* req[r]: the request in slot r, its position and its locals
  known,      \* pairs whose target's client has learnt of the request
  answer,     \* answer[p]: what the requester's client last learnt, or "none"
  contacts,   \* contacts[u]: the accepted requesters another device of u has
              \*   rebuilt from FETCH_MY_ACCEPTED
  sent,       \* history: pairs whose requester was told "success"
  answered,   \* history: pairs whose responder was told "success"
  answers, removed, faults   \* histories and what the bounds count

tables == <<users, frequests, fresponses, lastId>>
client == <<known, answer, contacts>>
past   == <<sent, answered, answers, removed, faults>>
vars   == <<tables, req, client, past>>

Idle == [pc |-> "idle"]
Ids  == 1..MaxRequest
Verdicts == {"accepted", "rejected"}

RequestRow  == [id : Ids, pair : Pairs]
ResponseRow == [no : 1..MaxRow, request : Ids, pair : Pairs, accepted : Verdicts]

Request ==
       {Idle}
  \cup [pc : {"target", "count", "update", "insert", "notify"}, pair : Pairs]
  \cup [pc : {"find"}, pair : Pairs, accepted : Verdicts]
  \cup [pc : {"countAnswers", "change", "store", "notifyAnswer"}, pair : Pairs,
        accepted : Verdicts, request : Ids]
  \cup [pc : {"loadIds", "delRequests", "delUser"}, user : Users]
  \cup [pc : {"delResponses"}, user : Users, ids : SUBSET Ids]

TypeOK == /\ users \subseteq Users
          /\ frequests \subseteq RequestRow
          /\ fresponses \subseteq ResponseRow
          /\ lastId \in 0..MaxRequest
          /\ req \in [Requests -> Request]
          /\ known \subseteq Pairs
          /\ answer \in [Pairs -> Verdicts \cup {"none"}]
          /\ contacts \in [Users -> SUBSET Users]
          /\ sent \subseteq Pairs
          /\ answered \subseteq Pairs
          /\ answers \in 0..MaxAnswer
          /\ removed \in [who : SUBSET Users, times : 0..MaxDelete]
          /\ faults \in 0..MaxFault

Init == /\ users = Users
        /\ frequests = {} /\ fresponses = {} /\ lastId = 0
        /\ req = [r \in Requests |-> Idle]
        /\ known = {}
        /\ answer = [p \in Pairs |-> "none"]
        /\ contacts = [u \in Users |-> {}]
        /\ sent = {} /\ answered = {} /\ answers = 0 /\ faults = 0
        /\ removed = [who |-> {}, times |-> 0]

Continue(r, q) == req' = [req EXCEPT ![r] = q]
GoTo(r, label) == req' = [req EXCEPT ![r].pc = label]
End(r)         == Continue(r, Idle)

Requester(p) == p[1]
Target(p)    == p[2]
Involves(p, u) == u \in {p[1], p[2]}

\* Answers to the request with this id.
AnswersTo(id) == {x \in fresponses : x.request = id}

-----------------------------------------------------------------------------
(* CONTACT *)

\* The checks (nobody asks itself) and the SELECT of the requester.
ContactVerify(r, p) ==
  /\ req[r] = Idle
  /\ Requester(p) \in users
  /\ Continue(r, [pc |-> "target", pair |-> p])
  /\ UNCHANGED <<tables, client, past>>

\* SELECT the target; then the signature.
ContactTarget(r) ==
  /\ req[r].pc = "target"
  /\ Target(req[r].pair) \in users
  /\ GoTo(r, "count")
  /\ UNCHANGED <<tables, client, past>>

\* COUNT; when it fails the handler goes on as if there were no request.
ContactCount(r) ==
  /\ req[r].pc = "count"
  /\ GoTo(r, IF \E x \in frequests : x.pair = req[r].pair THEN "update" ELSE "insert")
  /\ UNCHANGED <<tables, client, past>>

CountFails(r) ==
  /\ faults < MaxFault
  /\ faults' = faults + 1
  /\ \/ req[r].pc = "count" /\ GoTo(r, "insert")
     \/ req[r].pc = "countAnswers" /\ GoTo(r, "store")
  /\ UNCHANGED <<tables, client, sent, answered, answers, removed>>

\* UPDATE: success whatever the number of rows; nobody is notified.
ContactUpdate(r) ==
  /\ req[r].pc = "update"
  /\ sent' = sent \cup {req[r].pair}
  /\ End(r)
  /\ UNCHANGED <<tables, client, answered, answers, removed, faults>>

\* What INSERT demands: the UNIQUE constraint and the two foreign keys.
Insertable(p) == /\ Requester(p) \in users /\ Target(p) \in users
                 /\ \A x \in frequests : x.pair # p

ContactInsert(r) ==
  /\ req[r].pc = "insert"
  /\ Insertable(req[r].pair)
  /\ lastId < MaxRequest
  /\ lastId' = lastId + 1
  /\ frequests' = frequests \cup {[id |-> lastId + 1, pair |-> req[r].pair]}
  /\ sent' = sent \cup {req[r].pair}
  /\ GoTo(r, "notify")
  /\ UNCHANGED <<users, fresponses, client, answered, answers, removed, faults>>

\* notify_friend_request: the push reaches the target (if not: Finish).
ContactNotify(r) ==
  /\ req[r].pc = "notify"
  /\ known' = known \cup {req[r].pair}
  /\ End(r)
  /\ UNCHANGED <<tables, answer, contacts, past>>

-----------------------------------------------------------------------------
(* RESPOND_FRIEND_REQUEST *)

\* The checks, the SELECT of the responder and the signature.
RespondVerify(r, p, v) ==
  /\ req[r] = Idle
  /\ Target(p) \in users
  /\ p \in known
  /\ answers < MaxAnswer
  /\ answers' = answers + 1
  /\ Continue(r, [pc |-> "find", pair |-> p, accepted |-> v])
  /\ UNCHANGED <<tables, client, sent, answered, removed, faults>>

\* Mutant: the position of the row is taken for its id.
RespondFindNext(r) ==
  /\ req[r].pc = "find"
  /\ \E x \in frequests :
       /\ x.pair = req[r].pair
       /\ Continue(r, [pc |-> "countAnswers", pair |-> x.pair,
                       accepted |-> req[r].accepted, request |-> x.id + 1])
  /\ UNCHANGED <<tables, client, past>>

\* SELECT the original request.
RespondFind(r) ==
  /\ req[r].pc = "find"
  /\ \E x \in frequests :
       /\ x.pair = req[r].pair
       /\ Continue(r, [pc |-> "countAnswers", pair |-> x.pair,
                       accepted |-> req[r].accepted, request |-> x.id])
  /\ UNCHANGED <<tables, client, past>>

\* Mutant: the answers are counted for nobody.
CountNothing(r) ==
  /\ req[r].pc = "countAnswers"
  /\ GoTo(r, "store")
  /\ UNCHANGED <<tables, client, past>>

RespondCount(r) ==
  /\ req[r].pc = "countAnswers"
  /\ GoTo(r, IF AnswersTo(req[r].request) # {} THEN "change" ELSE "store")
  /\ UNCHANGED <<tables, client, past>>

\* Mutant: the old answers are deleted and a new one is inserted.
RespondReplace(r) ==
  /\ req[r].pc = "change"
  /\ fresponses' = fresponses \ AnswersTo(req[r].request)
  /\ GoTo(r, "store")
  /\ UNCHANGED <<users, frequests, lastId, client, past>>

\* UPDATE of every answer to the request; nobody is notified.
RespondChange(r) ==
  /\ req[r].pc = "change"
  /\ fresponses' = {IF x.request = req[r].request
                    THEN [x EXCEPT !.accepted = req[r].accepted] ELSE x : x \in fresponses}
  /\ answered' = answered \cup {req[r].pair}
  /\ End(r)
  /\ UNCHANGED <<users, frequests, lastId, client, sent, answers, removed, faults>>

\* Mutant: request_id is not a foreign key (the answer outlives its request).
ReferencesNothing(id) == TRUE

\* The foreign key request_id.
References(id) == \E x \in frequests : x.id = id

\* INSERT: nothing makes request_id unique.
RespondStore(r) ==
  /\ req[r].pc = "store"
  /\ References(req[r].request)
  /\ \E no \in 1..MaxRow :
       /\ \A x \in fresponses : x.no # no
       /\ \A n \in 1..(no - 1) : \E x \in fresponses : x.no = n
       /\ fresponses' = fresponses \cup {[no |-> no, request |-> req[r].request,
                                          pair |-> req[r].pair,
                                          accepted |-> req[r].accepted]}
  /\ answered' = answered \cup {req[r].pair}
  /\ GoTo(r, "notifyAnswer")
  /\ UNCHANGED <<users, frequests, lastId, client, sent, answers, removed, faults>>

\* notify_friend_response: the push reaches the requester (if not: Finish).
RespondNotify(r) ==
  /\ req[r].pc = "notifyAnswer"
  /\ answer' = [answer EXCEPT ![req[r].pair] = req[r].accepted]
  /\ End(r)
  /\ UNCHANGED <<tables, known, contacts, past>>

-----------------------------------------------------------------------------
(* The fetches, with since_timestamp = 0.  Each SELECTs the user, verifies its
   signature and reads once; an answer that is lost changes nothing. *)

\* Mutant: only requests the client was notified of.
FetchNotified(u) ==
  /\ u \in users
  /\ known' = known \cup {x.pair : x \in {y \in frequests : Target(y.pair) = u /\ y.pair \in known}}
  /\ UNCHANGED <<tables, req, answer, contacts, past>>

FetchFriendRequests(u) ==
  /\ u \in users
  /\ known' = known \cup {x.pair : x \in {y \in frequests : Target(y.pair) = u}}
  /\ UNCHANGED <<tables, req, answer, contacts, past>>

\* Mutant: answers to requests the client has an answer for are left out.
NewAnswers(p) == IF answer[p] = "none" THEN {x \in fresponses : x.pair = p} ELSE {}

\* Rows of FETCH_FRIEND_RESPONSES about one of the user's requests.
AnswersFor(p) == {x \in fresponses : x.pair = p}

\* Of several answers to one request the client keeps any.
FetchFriendResponses(u) ==
  /\ u \in users
  /\ answer' \in [Pairs -> Verdicts \cup {"none"}]
  /\ \A p \in Pairs :
       IF Requester(p) = u /\ AnswersFor(p) # {}
       THEN \E x \in AnswersFor(p) : answer'[p] = x.accepted
       ELSE answer'[p] = answer[p]
  /\ UNCHANGED <<tables, req, known, contacts, past>>

\* The JOIN of the accepted answers with their requests.
FetchMyAccepted(u) ==
  /\ u \in users
  /\ contacts' = [contacts EXCEPT ![u] =
       {Requester(x.pair) : x \in {y \in frequests :
          \E a \in AnswersTo(y.id) : Target(a.pair) = u /\ a.accepted = "accepted"}}]
  /\ UNCHANGED <<tables, req, known, answer, past>>

-----------------------------------------------------------------------------
(* Accounts *)

\* Registration; the client of the new account knows nothing.
Register(u) ==
  /\ u \notin users
  /\ users' = users \cup {u}
  /\ known' = {p \in known : Target(p) # u}
  /\ answer' = [p \in Pairs |-> IF Requester(p) = u THEN "none" ELSE answer[p]]
  /\ contacts' = [contacts EXCEPT ![u] = {}]
  /\ UNCHANGED <<frequests, fresponses, lastId, req, past>>

DeleteVerify(r, u) ==
  /\ req[r] = Idle
  /\ u \in users
  /\ removed.times < MaxDelete
  /\ removed' = [who |-> removed.who \cup {u}, times |-> removed.times + 1]
  /\ Continue(r, [pc |-> "loadIds", user |-> u])
  /\ UNCHANGED <<tables, client, sent, answered, answers, faults>>

\* delete_user_data: SELECT the ids of the user's requests ...
DelLoadIds(r) ==
  /\ req[r].pc = "loadIds"
  /\ LET u   == req[r].user
         ids == {x.id : x \in {y \in frequests : Involves(y.pair, u)}}
     IN  Continue(r, IF ids = {} THEN [pc |-> "delRequests", user |-> u]
                     ELSE [pc |-> "delResponses", user |-> u, ids |-> ids])
  /\ UNCHANGED <<tables, client, past>>

\* ... delete their answers ...
DelResponses(r) ==
  /\ req[r].pc = "delResponses"
  /\ fresponses' = {x \in fresponses : x.request \notin req[r].ids}
  /\ Continue(r, [pc |-> "delRequests", user |-> req[r].user])
  /\ UNCHANGED <<users, frequests, lastId, client, past>>

\* Remove requests; ON DELETE CASCADE takes their answers, also those stored
\* since the ids were loaded.
RemoveRequests(gone) == /\ frequests' = frequests \ gone
                        /\ fresponses' = {x \in fresponses :
                                            \A y \in gone : y.id # x.request}

\* ... then the requests ...
DelRequests(r) ==
  /\ req[r].pc = "delRequests"
  /\ RemoveRequests({x \in frequests : Involves(x.pair, req[r].user)})
  /\ GoTo(r, "delUser")
  /\ UNCHANGED <<users, lastId, client, past>>

\* ... and, after messages, sessions and challenges, the user, whose requests
\* made meanwhile go with it (CASCADE).
DelUser(r) ==
  /\ req[r].pc = "delUser"
  /\ users' = users \ {req[r].user}
  /\ RemoveRequests({x \in frequests : Involves(x.pair, req[r].user)})
  /\ End(r)
  /\ UNCHANGED <<lastId, client, past>>

\* A request ends before its next statement takes effect: refused, failed, its
\* push not delivered, or the server stopped.
Finish(r) == /\ req[r] # Idle
             /\ End(r)
             /\ UNCHANGED <<tables, client, past>>

-----------------------------------------------------------------------------
\* What a request does once it has started.
Step(r) == \/ ContactTarget(r) \/ ContactCount(r) \/ ContactUpdate(r)
           \/ ContactInsert(r) \/ ContactNotify(r)
           \/ RespondFind(r) \/ RespondCount(r) \/ RespondChange(r)
           \/ RespondStore(r) \/ RespondNotify(r)
           \/ DelLoadIds(r) \/ DelResponses(r) \/ DelRequests(r) \/ DelUser(r)

Next == \/ \E r \in Requests :
             \/ \E p \in Pairs : \/ ContactVerify(r, p)
                                 \/ \E v \in Verdicts : RespondVerify(r, p, v)
             \/ \E u \in Users : DeleteVerify(r, u)
             \/ Step(r)
             \/ CountFails(r)
             \/ Finish(r)
        \/ \E u \in Users : \/ FetchFriendRequests(u) \/ FetchFriendResponses(u)
                            \/ FetchMyAccepted(u)
                            \/ Register(u)

Spec == Init /\ [][Next]_vars

\* Requests run to their end, and the clients of both sides keep fetching.
FairSpec ==
  /\ Spec
  /\ \A r \in Requests : WF_vars(Step(r) \/ Finish(r))
  /\ \A p \in Pairs : /\ WF_vars(FetchFriendRequests(Target(p)))
                      /\ WF_vars(FetchFriendResponses(Requester(p)))
                      /\ WF_vars(FetchMyAccepted(Target(p)))

-----------------------------------------------------------------------------
(* Properties *)

\* No DELETE has worked on either side of the pair.
Untouched(p) == Requester(p) \notin removed.who /\ Target(p) \notin removed.who

\* No deletion, re-registration or request in flight leaves a request of an
\* account that is gone, a second request of a pair, or an answer without the
\* request of this very pair that it answers: an answer on its way to a deleted
\* request does not attach to the request made anew.
FriendGraph ==
  /\ \A x, y \in frequests : x.pair = y.pair => x = y
  /\ \A x \in frequests : Requester(x.pair) \in users /\ Target(x.pair) \in users
  /\ \A a \in fresponses : \E x \in frequests : x.id = a.request /\ x.pair = a.pair

\* A request or an answer that was reported stored is in its table until one of
\* the two accounts is deleted, also when the COUNT before it was out of date.
Kept == /\ \A p \in sent : Untouched(p) => \E x \in frequests : x.pair = p
        /\ \A p \in answered : Untouched(p) =>
             \E x \in frequests : x.pair = p /\ AnswersTo(x.id) # {}

\* Answers counted and stored in two statements may be stored twice, but never
\* more often than requests were in flight at once or COUNTs failed.
AnswersBounded == \A i \in Ids :
  Cardinality(AnswersTo(i)) <= Cardinality(Requests) + faults

\* A stored request comes to the knowledge of its target, also when its push was
\* lost or it was stored by an UPDATE, which pushes nothing.
RequestReaches == \A p \in Pairs : p \in sent ~> (p \in known \/ ~Untouched(p))

\* Both sides end up with the answer that stays in the table, however answers,
\* changes of them and late pushes crossed.
Converges == \A p \in Pairs, v \in Verdicts :
  <>[](Untouched(p) /\ {x.accepted : x \in {y \in fresponses : y.pair = p}} = {v}) =>
     <>[](answer[p] = v /\ (v = "accepted" <=> Requester(p) \in contacts[Target(p)]))
=============================================================================
