---------------------------- MODULE AccountsProof ---------------------------
(***************************************************************************)
(* For any users, number of requests in flight and bounds: the types of    *)
(* Accounts, that a deletion is complete, that a challenge serves one      *)
(* login of a slot, and that the challenges of a user are bounded.         *)
(***************************************************************************)
EXTENDS Accounts, FiniteSetTheorems, TLAPS

-----------------------------------------------------------------------------
(* The inductive invariant *)

\* The challenge of a request or of a session has been drawn.
Drawn ==
  /\ \A r \in Requests : req[r].pc \in {"readChallenge", "consume", "insertSession"} =>
       req[r].challenge <= last.challenge
  /\ \A s \in sessions : s.challenge <= last.challenge

\* Without ignored errors: a challenge that has served, or is about to, is gone,
\* and a slot about to make a session of a challenge has made none of it.
Spent == fails = 0 =>
  /\ \A s \in sessions : \A c \in challenges : c.id # s.challenge
  /\ \A r \in Requests :
       /\ req[r].pc = "insertSession" => \A c \in challenges : c.id # req[r].challenge
       /\ req[r].pc \in {"consume", "insertSession"} /\ req[r].challenge # 0 =>
            \A s \in sessions : ~(s.slot = r /\ s.challenge = req[r].challenge)

\* The challenges of a user, and the requests about to insert one.
Of(u)        == {c \in challenges : c.user = u}
Inserting(u) == {r \in Requests : req[r].pc = "insertChallenge" /\ req[r].user = u}

\* Every challenge was inserted by a request that had deleted the others.
Counted == \A u \in Users :
  /\ IsFiniteSet(Of(u))
  /\ Cardinality(Of(u)) + Cardinality(Inserting(u)) <= Cardinality(Requests) + fails

IInv == TypeOK /\ NoRowWithoutAccount /\ Drawn /\ Spent /\ ChallengeUsedOnce /\ Counted

-----------------------------------------------------------------------------
LEMMA Numbers ==
  /\ ChallengeTicks \in Nat /\ Tolerance \in Nat /\ MaxKey \in Nat /\ MaxChallenge \in Nat
  /\ MaxSession \in Nat /\ MaxTime \in Nat /\ MaxFail \in Nat
  BY BoundsAssumption

\* The fields of a request at each of its positions.
LEMMA RequestShape ==
  ASSUME TypeOK, NEW r \in Requests
  PROVE  /\ req[r].pc # "idle" => req[r].user \in Users
         /\ req[r].pc \in {"readChallenge", "dropChallenge", "consume"} =>
              req[r].challenge \in 1..MaxChallenge
         /\ req[r].pc = "insertChallenge" => req[r].expires \in 0..(MaxTime + ChallengeTicks)
         /\ req[r].pc = "insertSession" => req[r].challenge \in 0..MaxChallenge
         /\ req[r].pc = "setRecovery" => req[r].rkey \in Keys
         /\ req[r].pc = "setIdentity" => req[r].new \in Keys
         /\ req[r].pc \in {"readChallenge", "consume"} =>
              req[r] = [pc |-> req[r].pc, user |-> req[r].user, challenge |-> req[r].challenge]
         /\ req[r].pc \in {"delSessions", "delChallenges", "delUser"} =>
              req[r] = [pc |-> req[r].pc, user |-> req[r].user]
  BY DEF TypeOK, Request, Idle

\* What the steps that only advance a request make of it.
LEMMA Advanced ==
  ASSUME TypeOK, NEW r \in Requests
  PROVE  /\ req[r].pc = "readChallenge" =>
              [req[r] EXCEPT !.pc = "consume"] =
                [pc |-> "consume", user |-> req[r].user, challenge |-> req[r].challenge]
         /\ req[r].pc = "readChallenge" =>
              [req[r] EXCEPT !.pc = "dropChallenge"] =
                [pc |-> "dropChallenge", user |-> req[r].user, challenge |-> req[r].challenge]
         /\ req[r].pc = "consume" =>
              [req[r] EXCEPT !.pc = "insertSession"] =
                [pc |-> "insertSession", user |-> req[r].user, challenge |-> req[r].challenge]
         /\ req[r].pc = "delSessions" =>
              [req[r] EXCEPT !.pc = "delChallenges"] =
                [pc |-> "delChallenges", user |-> req[r].user]
         /\ req[r].pc = "delChallenges" =>
              [req[r] EXCEPT !.pc = "delUser"] = [pc |-> "delUser", user |-> req[r].user]
  <1>1. CASE req[r].pc \in {"delSessions", "delChallenges"}
    <2>1. req[r] = [pc |-> req[r].pc, user |-> req[r].user]
      BY <1>1, RequestShape
    <2>. QED
      BY <1>1, <2>1
  <1>2. CASE req[r].pc \in {"readChallenge", "consume"}
    <2>1. req[r] = [pc |-> req[r].pc, user |-> req[r].user, challenge |-> req[r].challenge]
      BY <1>2, RequestShape
    <2>. QED
      BY <1>2, <2>1
  <1>. QED
    BY <1>1, <1>2

LEMMA AdvancedType ==
  ASSUME TypeOK, NEW r \in Requests
  PROVE  /\ req[r].pc = "readChallenge" => [req[r] EXCEPT !.pc = "consume"] \in Request
         /\ req[r].pc = "readChallenge" => [req[r] EXCEPT !.pc = "dropChallenge"] \in Request
         /\ req[r].pc = "consume" => [req[r] EXCEPT !.pc = "insertSession"] \in Request
         /\ req[r].pc = "delSessions" => [req[r] EXCEPT !.pc = "delChallenges"] \in Request
         /\ req[r].pc = "delChallenges" => [req[r] EXCEPT !.pc = "delUser"] \in Request
  <1>1. ASSUME NEW u \in Users, NEW l \in {"delChallenges", "delUser"}
        PROVE  [pc |-> l, user |-> u] \in Request
    BY DEF Request
  <1>2. ASSUME NEW u \in Users, NEW c \in 1..MaxChallenge,
               NEW l \in {"dropChallenge", "consume", "insertSession"}
        PROVE  [pc |-> l, user |-> u, challenge |-> c] \in Request
    <2>1. c \in 0..MaxChallenge
      BY Numbers
    <2>. QED
      BY <2>1 DEF Request
  <1>3. /\ req[r].pc \in {"delSessions", "delChallenges", "readChallenge", "consume"} => req[r].user \in Users
        /\ req[r].pc \in {"readChallenge", "consume"} => req[r].challenge \in 1..MaxChallenge
    BY RequestShape
  <1>4. CASE req[r].pc \in {"delSessions", "delChallenges"}
    <2>1. /\ [pc |-> "delChallenges", user |-> req[r].user] \in Request
          /\ [pc |-> "delUser", user |-> req[r].user] \in Request
      BY <1>1, <1>3, <1>4
    <2>. QED
      BY <1>4, <2>1, Advanced
  <1>5. CASE req[r].pc \in {"readChallenge", "consume"}
    <2> DEFINE q(l) == [pc |-> l, user |-> req[r].user, challenge |-> req[r].challenge]
    <2>1. {q("dropChallenge"), q("consume"), q("insertSession")} \subseteq Request
      BY <1>2, <1>3, <1>5
    <2>. QED
      BY <1>5, <2>1, Advanced
  <1>. QED
    BY <1>4, <1>5

LEMMA TypeNext ==
  ASSUME TypeOK, [Next]_vars
  PROVE  TypeOK'
  <1> USE Numbers
  <1>1. /\ last.key \in Nat /\ last.challenge \in Nat /\ last.session \in Nat
        /\ now \in Nat /\ fails \in Nat
    BY DEF TypeOK, Time
  \* The parts that most steps leave alone.
  <1>2. ASSUME NEW r \in Requests, NEW q \in Request, Continue(r, q),
               UNCHANGED <<users, sessions, claims, last, now>>, challenges' \subseteq challenges,
               fails' \in 0..MaxFail
        PROVE  TypeOK'
    BY <1>2 DEF Continue, TypeOK
  <1>3. ASSUME NEW u \in Users, Register(u) PROVE TypeOK'
    <2>1. [key |-> last.key + 1, rkey |-> 0] \in Account /\ last' \in
             [key : 0..MaxKey, challenge : 0..MaxChallenge, session : 0..MaxSession]
      BY <1>1, <1>3 DEF Register, Account, Keys, TypeOK
    <2>2. last'.challenge = last.challenge /\ last'.session = last.session
      BY <1>3 DEF Register, TypeOK
    <2>3. users' \in [Users -> Account \cup {NoUser}]
      BY <1>3, <2>1 DEF Register, TypeOK
    <2>. QED
      BY <1>3, <2>1, <2>2, <2>3 DEF Register, TypeOK
  <1>4. ASSUME NEW r \in Requests, NEW u \in Users, LoginChallenge(r, u) PROVE TypeOK'
    <2>1. [pc |-> "clearChallenges", user |-> u] \in Request
      BY DEF Request
    <2>. QED
      BY <1>2, <1>4, <2>1 DEF LoginChallenge, TypeOK
  <1>5. ASSUME NEW r \in Requests, NEW u \in Users, NEW c \in 1..MaxChallenge, LoginProof(r, u, c)
        PROVE  TypeOK'
    <2>1. [pc |-> "readChallenge", user |-> u, challenge |-> c] \in Request
      BY DEF Request
    <2>. QED
      BY <1>2, <1>5, <2>1 DEF LoginProof, TypeOK
  <1>6. ASSUME NEW r \in Requests, NEW u \in Users, PublishVerify(r, u) PROVE TypeOK'
    <2>1. [pc |-> "setRecovery", user |-> u, rkey |-> last.key + 1] \in Request
      BY <1>1, <1>6 DEF PublishVerify, Request, Keys
    <2>2. /\ last' \in [key : 0..MaxKey, challenge : 0..MaxChallenge, session : 0..MaxSession]
          /\ last'.challenge = last.challenge /\ last'.session = last.session
      BY <1>1, <1>6 DEF PublishVerify, TypeOK
    <2>3. req' \in [Requests -> Request]
      BY <1>6, <2>1 DEF PublishVerify, Continue, TypeOK
    <2>. QED
      BY <1>6, <2>2, <2>3 DEF PublishVerify, TypeOK
  <1>7. ASSUME NEW r \in Requests, NEW u \in Users, NEW ts \in Time, ClaimNew(r, u, ts)
        PROVE  TypeOK'
    <2> DEFINE c == [user |-> u, rkey |-> users[u].rkey, new |-> last.key + 1, ts |-> ts]
    <2>1. c \in [user : Users, rkey : Keys, new : Keys, ts : Time]
      <3>1. users[u].rkey \in Keys
        BY <1>7 DEF ClaimNew, TypeOK, Account, NoUser, Keys, Exists
      <3>2. last.key + 1 \in Keys
        BY <1>1, <1>7 DEF ClaimNew, Keys
      <3>. QED
        BY <3>1, <3>2
    <2>2. claims' = claims \cup {c}
          /\ Continue(r, [pc |-> "setIdentity", user |-> c.user, new |-> c.new])
      BY <1>7 DEF ClaimNew, ClaimVerify
    <2>3. [pc |-> "setIdentity", user |-> c.user, new |-> c.new] \in Request
      BY <2>1 DEF Request
    <2>4. /\ last' \in [key : 0..MaxKey, challenge : 0..MaxChallenge, session : 0..MaxSession]
          /\ last'.challenge = last.challenge /\ last'.session = last.session
      BY <1>1, <1>7 DEF ClaimNew, TypeOK
    <2>5. req' \in [Requests -> Request]
      BY <2>2, <2>3 DEF Continue, TypeOK
    <2>. HIDE DEF c
    <2>. QED
      BY <1>7, <2>1, <2>2, <2>4, <2>5 DEF ClaimNew, TypeOK
  <1>8. ASSUME NEW r \in Requests, NEW c \in claims, ClaimAgain(r, c) PROVE TypeOK'
    <2>1. c \in [user : Users, rkey : Keys, new : Keys, ts : Time]
      BY DEF TypeOK
    <2>2. [pc |-> "setIdentity", user |-> c.user, new |-> c.new] \in Request
      BY <2>1 DEF Request
    <2>. QED
      BY <1>2, <1>8, <2>2 DEF ClaimAgain, ClaimVerify, TypeOK
  <1>9. ASSUME NEW r \in Requests, NEW u \in Users, DeleteVerify(r, u) PROVE TypeOK'
    <2>1. [pc |-> "delSessions", user |-> u] \in Request
      BY DEF Request
    <2>. QED
      BY <1>2, <1>9, <2>1 DEF DeleteVerify, TypeOK
  <1>10. ASSUME NEW r \in Requests, ClearChallenges(r) PROVE TypeOK'
    <2>1. [pc |-> "insertChallenge", user |-> req[r].user, expires |-> now + ChallengeTicks]
             \in Request
      <3>1. req[r].user \in Users
        BY <1>10, RequestShape DEF ClearChallenges
      <3>2. now + ChallengeTicks \in 0..(MaxTime + ChallengeTicks)
        BY DEF TypeOK, Time
      <3>. QED
        BY <3>1, <3>2 DEF Request
    <2>2. fails' \in 0..MaxFail /\ challenges' \subseteq challenges
      BY <1>1, <1>10 DEF ClearChallenges, TypeOK
    <2>. QED
      BY <1>2, <1>10, <2>1, <2>2 DEF ClearChallenges
  <1>11. ASSUME NEW r \in Requests, InsertChallenge(r) PROVE TypeOK'
    <2> DEFINE c == [id |-> last.challenge + 1, user |-> req[r].user,
                     expires |-> req[r].expires]
    <2>1. /\ last' \in [key : 0..MaxKey, challenge : 0..MaxChallenge, session : 0..MaxSession]
          /\ last'.challenge = last.challenge + 1 /\ last'.session = last.session
      BY <1>1, <1>11 DEF InsertChallenge, TypeOK
    <2>2. req[r].user \in Users /\ req[r].expires \in 0..(MaxTime + ChallengeTicks)
      BY <1>11, RequestShape DEF InsertChallenge
    <2>3. c \in [id : 1..last'.challenge, user : Users, expires : 0..(MaxTime + ChallengeTicks)]
      BY <1>1, <2>1, <2>2
    <2>4. challenges' = challenges \cup {c}
      BY <1>11 DEF InsertChallenge
    <2>5. 1..last.challenge \subseteq 1..last'.challenge
      BY <1>1, <2>1
    <2>6. challenges' \subseteq
            [id : 1..last'.challenge, user : Users, expires : 0..(MaxTime + ChallengeTicks)]
      BY <2>3, <2>4, <2>5 DEF TypeOK
    <2>7. req' \in [Requests -> Request]
      BY <1>11 DEF InsertChallenge, End, Continue, TypeOK, Request
    <2>. QED
      BY <1>11, <2>1, <2>6, <2>7 DEF InsertChallenge, TypeOK
  <1>12. ASSUME NEW r \in Requests, ReadChallenge(r) PROVE TypeOK'
    <2>1. /\ [req[r] EXCEPT !.pc = "consume"] \in Request
          /\ [req[r] EXCEPT !.pc = "dropChallenge"] \in Request
      BY <1>12, AdvancedType DEF ReadChallenge
    <2>2. \/ Continue(r, [req[r] EXCEPT !.pc = "dropChallenge"])
          \/ Continue(r, [req[r] EXCEPT !.pc = "consume"])
      BY <1>12 DEF ReadChallenge
    <2>3. UNCHANGED <<users, challenges, sessions, claims, last, now>> /\ fails' \in 0..MaxFail
      BY <1>12 DEF ReadChallenge, TypeOK
    <2>. QED
      BY <1>2, <2>1, <2>2, <2>3
  <1>13. ASSUME NEW r \in Requests, Consume(r) PROVE TypeOK'
    <2>1. [req[r] EXCEPT !.pc = "insertSession"] \in Request
      BY <1>13, AdvancedType DEF Consume
    <2>2. fails' \in 0..MaxFail /\ challenges' \subseteq challenges
      BY <1>1, <1>13 DEF Consume, TypeOK
    <2>. QED
      BY <1>2, <1>13, <2>1, <2>2 DEF Consume
  <1>14. ASSUME NEW r \in Requests, InsertSession(r) PROVE TypeOK'
    <2> DEFINE s == [id |-> last.session + 1, user |-> req[r].user, slot |-> r,
                     challenge |-> req[r].challenge]
    <2>1. /\ last' \in [key : 0..MaxKey, challenge : 0..MaxChallenge, session : 0..MaxSession]
          /\ last'.challenge = last.challenge /\ last'.session = last.session + 1
      BY <1>1, <1>14 DEF InsertSession, TypeOK
    <2>2. req[r].user \in Users /\ req[r].challenge \in 0..MaxChallenge
      BY <1>14, RequestShape DEF InsertSession
    <2>3. s \in [id : 1..last'.session, user : Users, slot : Requests, challenge : 0..MaxChallenge]
      BY <1>1, <2>1, <2>2
    <2>4. sessions' = sessions \cup {s} /\ 1..last.session \subseteq 1..last'.session
      BY <1>1, <1>14, <2>1 DEF InsertSession
    <2>5. sessions' \subseteq
            [id : 1..last'.session, user : Users, slot : Requests, challenge : 0..MaxChallenge]
      BY <2>3, <2>4 DEF TypeOK
    <2>6. req' \in [Requests -> Request]
      BY <1>14 DEF InsertSession, End, Continue, TypeOK, Request
    <2>. QED
      BY <1>14, <2>1, <2>5, <2>6 DEF InsertSession, TypeOK
  <1>15. ASSUME NEW r \in Requests, SetRecovery(r) PROVE TypeOK'
    <2>1. req[r].user \in Users /\ req[r].rkey \in Keys
      BY <1>15, RequestShape DEF SetRecovery
    <2>2. users' \in [Users -> Account \cup {NoUser}]
      BY <1>15, <2>1 DEF SetRecovery, Exists, TypeOK, Account, Keys
    <2>3. req' \in [Requests -> Request]
      BY <1>15 DEF SetRecovery, End, Continue, TypeOK, Request
    <2>. QED
      BY <1>15, <2>2, <2>3 DEF SetRecovery, TypeOK
  <1>16. ASSUME NEW r \in Requests, SetIdentity(r) PROVE TypeOK'
    <2>1. req[r].user \in Users /\ req[r].new \in Keys
      BY <1>16, RequestShape DEF SetIdentity
    <2>2. users' \in [Users -> Account \cup {NoUser}]
      BY <1>16, <2>1 DEF SetIdentity, Exists, TypeOK, Account
    <2>3. req' \in [Requests -> Request]
      BY <1>16, <2>1 DEF SetIdentity, Continue, TypeOK, Request
    <2>. QED
      BY <1>16, <2>2, <2>3 DEF SetIdentity, TypeOK
  <1>17. ASSUME NEW r \in Requests, DelSessions(r) PROVE TypeOK'
    <2>1. req' \in [Requests -> Request]
      BY <1>17, AdvancedType DEF DelSessions, Continue, TypeOK
    <2>. QED
      BY <1>17, <2>1 DEF DelSessions, TypeOK
  <1>18. ASSUME NEW r \in Requests, DelChallenges(r) PROVE TypeOK'
    <2>1. req' \in [Requests -> Request]
      BY <1>18, AdvancedType DEF DelChallenges, Continue, TypeOK
    <2>. QED
      BY <1>18, <2>1 DEF DelChallenges, TypeOK
  <1>19. ASSUME NEW r \in Requests, DelUser(r) PROVE TypeOK'
    <2>1. req' \in [Requests -> Request]
      BY <1>19 DEF DelUser, End, Continue, TypeOK, Request
    <2>. QED
      BY <1>19, <2>1 DEF DelUser, TypeOK
  <1>20. ASSUME NEW r \in Requests, Finish(r) PROVE TypeOK'
    BY <1>20 DEF Finish, End, Continue, TypeOK, Request
  <1>21. ASSUME NEW r \in Requests, DropExpired(r) PROVE TypeOK'
    <2>1. Idle \in Request /\ challenges' \subseteq challenges /\ fails' \in 0..MaxFail
      BY <1>21 DEF DropExpired, Request, TypeOK
    <2>. QED
      BY <1>2, <1>21, <2>1 DEF DropExpired, End
  <1>22. CASE Tick
    BY <1>1, <1>22 DEF Tick, TypeOK, Time
  <1>23. CASE UNCHANGED vars
    BY <1>23 DEF vars, TypeOK
  <1>. QED
    BY <1>3, <1>4, <1>5, <1>6, <1>7, <1>8, <1>9, <1>10, <1>11, <1>12, <1>13, <1>14,
       <1>15, <1>16, <1>17, <1>18, <1>19, <1>20, <1>21, <1>22, <1>23 DEF Next

\* Rows are only inserted for an account that exists, an UPDATE neither makes nor
\* removes an account, and the row of users takes the others with it.
LEMMA NoRowNext ==
  ASSUME IInv, [Next]_vars
  PROVE  NoRowWithoutAccount'
  <1> USE DEF IInv
  <1>1. ASSUME \A u \in Users : Exists(u) => Exists(u)',
               challenges' \subseteq challenges, sessions' \subseteq sessions
        PROVE  NoRowWithoutAccount'
    BY <1>1 DEF NoRowWithoutAccount
  <1>2. ASSUME users' = users, challenges' \subseteq challenges, sessions' \subseteq sessions
        PROVE  NoRowWithoutAccount'
    BY <1>1, <1>2 DEF Exists
  <1>3. ASSUME NEW u \in Users, Register(u) PROVE NoRowWithoutAccount'
    <2>1. \A v \in Users : Exists(v) => Exists(v)'
      BY <1>3 DEF Register, Exists, TypeOK
    <2>. QED
      BY <1>1, <1>3, <2>1 DEF Register
  <1>4. ASSUME NEW r \in Requests, SetRecovery(r) PROVE NoRowWithoutAccount'
    <2>1. req[r].user \in Users
      BY <1>4, RequestShape DEF SetRecovery
    <2>2. ASSUME NEW v \in Users, Exists(v) PROVE users'[v].key = users[v].key
      BY <1>4, <2>1, <2>2 DEF SetRecovery, Exists, TypeOK, Account
    <2>3. \A v \in Users : Exists(v) => Exists(v)'
      BY <2>2, Numbers DEF Exists, TypeOK, Account, NoUser, Keys
    <2>. QED
      BY <1>1, <1>4, <2>3 DEF SetRecovery
  <1>5. ASSUME NEW r \in Requests, SetIdentity(r) PROVE NoRowWithoutAccount'
    <2>1. req[r].user \in Users /\ req[r].new \in Keys
      BY <1>5, RequestShape DEF SetIdentity
    <2>2. ASSUME NEW v \in Users, Exists(v) PROVE users'[v].key \in Keys
      BY <1>5, <2>1, <2>2 DEF SetIdentity, Exists, TypeOK, Account
    <2>3. \A v \in Users : Exists(v) => Exists(v)'
      BY <2>2, Numbers DEF Exists, NoUser, Keys
    <2>. QED
      BY <1>1, <1>5, <2>3 DEF SetIdentity
  <1>6. ASSUME NEW r \in Requests, InsertChallenge(r) \/ InsertSession(r)
        PROVE  NoRowWithoutAccount'
    <2>1. users' = users /\ Exists(req[r].user)
      BY <1>6 DEF InsertChallenge, InsertSession
    <2>2. /\ \A c \in challenges' : c \in challenges \/ c.user = req[r].user
          /\ \A s \in sessions' : s \in sessions \/ s.user = req[r].user
      BY <1>6 DEF InsertChallenge, InsertSession
    <2>. QED
      BY <2>1, <2>2 DEF NoRowWithoutAccount, Exists
  <1>7. ASSUME NEW r \in Requests, DelUser(r) PROVE NoRowWithoutAccount'
    <2>1. \A v \in Users : v # req[r].user => users'[v] = users[v]
      BY <1>7 DEF DelUser, TypeOK
    <2>. QED
      BY <1>7, <2>1 DEF DelUser, NoRowWithoutAccount, Exists
  <1>8. ASSUME NEW r \in Requests, NEW u \in Users,
               \/ LoginChallenge(r, u) \/ PublishVerify(r, u) \/ DeleteVerify(r, u)
               \/ \E c \in 1..MaxChallenge : LoginProof(r, u, c)
               \/ \E ts \in Time : ClaimNew(r, u, ts)
        PROVE  NoRowWithoutAccount'
    BY <1>2, <1>8 DEF LoginChallenge, PublishVerify, DeleteVerify, LoginProof, ClaimNew
  <1>9. ASSUME NEW r \in Requests,
               \/ ClearChallenges(r) \/ ReadChallenge(r) \/ DropExpired(r) \/ Consume(r)
               \/ DelSessions(r) \/ DelChallenges(r) \/ Finish(r) \/ \E c \in claims : ClaimAgain(r, c)
        PROVE  NoRowWithoutAccount'
    BY <1>2, <1>9 DEF ClearChallenges, ReadChallenge, DropExpired, Consume, DelSessions,
                      DelChallenges, Finish, ClaimAgain
  <1>10. CASE Tick \/ UNCHANGED vars
    BY <1>2, <1>10 DEF Tick, vars
  <1>. QED
    BY <1>3, <1>4, <1>5, <1>6, <1>7, <1>8, <1>9, <1>10 DEF Next

\* A request reads a challenge only while it has served nobody, and deletes it
\* before it makes the session; ids are not drawn twice.
LEMMA SpentNext ==
  ASSUME IInv, [Next]_vars
  PROVE  Drawn' /\ Spent' /\ ChallengeUsedOnce'
  <1> USE DEF IInv
  <1> DEFINE Goal == Drawn' /\ Spent' /\ ChallengeUsedOnce'
             Using == {"readChallenge", "consume", "insertSession"}
  <1>1. /\ last.challenge \in Nat /\ fails \in Nat
        /\ \A c \in challenges : c.id \in Nat /\ c.id > 0 /\ c.id <= last.challenge
        /\ \A s \in sessions : s.challenge \in Nat
        /\ \A r \in Requests : req[r].pc \in Using => req[r].challenge \in Nat
    <2>1. ASSUME NEW r \in Requests, req[r].pc \in Using PROVE req[r].challenge \in Nat
      <3>1. req[r].challenge \in 0..MaxChallenge \/ req[r].challenge \in 1..MaxChallenge
        BY <2>1, RequestShape
      <3>. QED
        BY <3>1, Numbers
    <2>. QED
      BY <2>1, Numbers DEF TypeOK
  <1>2. ASSUME NEW r \in Requests, NEW q, Continue(r, q), q.pc \notin Using,
               challenges' \subseteq challenges, sessions' \subseteq sessions,
               last'.challenge = last.challenge, fails' = 0 => fails = 0
        PROVE  Goal
    <2>1. req'[r].pc \notin Using /\ \A t \in Requests : t # r => req'[t] = req[t]
      BY <1>2 DEF Continue, TypeOK
    <2>2. Drawn'
      BY <1>2, <2>1 DEF Drawn
    <2>3. Spent'
      BY <1>2, <2>1 DEF Spent
    <2>4. ChallengeUsedOnce'
      BY <1>2 DEF ChallengeUsedOnce
    <2>. QED
      BY <2>2, <2>3, <2>4
  <1>3. ASSUME UNCHANGED <<req, challenges, sessions, fails>>, last'.challenge = last.challenge
        PROVE  Goal
    BY <1>3 DEF Drawn, Spent, ChallengeUsedOnce
  <1>4. ASSUME NEW r \in Requests, NEW u \in Users, NEW c \in 1..MaxChallenge, LoginProof(r, u, c)
        PROVE  Goal
    <2>1. /\ req'[r].pc = "readChallenge" /\ req'[r].challenge = c /\ c <= last.challenge
          /\ \A t \in Requests : t # r => req'[t] = req[t]
          /\ UNCHANGED <<challenges, sessions, last, fails>>
      BY <1>1, <1>4 DEF LoginProof, Continue, TypeOK
    <2>2. Drawn'
      BY <2>1 DEF Drawn
    <2>3. Spent'
      BY <2>1 DEF Spent
    <2>4. ChallengeUsedOnce'
      BY <2>1 DEF ChallengeUsedOnce
    <2>. QED
      BY <2>2, <2>3, <2>4
  <1>5. ASSUME NEW r \in Requests, ReadChallenge(r) PROVE Goal
    <2>1. PICK c \in challenges :
            /\ c.id = req[r].challenge
            /\ \/ Continue(r, [req[r] EXCEPT !.pc = "dropChallenge"])
               \/ Continue(r, [req[r] EXCEPT !.pc = "consume"])
      BY <1>5 DEF ReadChallenge
    <2>2. req[r].pc = "readChallenge" /\ UNCHANGED <<challenges, sessions, last, fails>>
      BY <1>5 DEF ReadChallenge
    <2>3. CASE Continue(r, [req[r] EXCEPT !.pc = "dropChallenge"])
      <3>1. [req[r] EXCEPT !.pc = "dropChallenge"].pc \notin Using
        BY <2>2, Advanced
      <3>. QED
        BY <1>2, <2>2, <2>3, <3>1
    <2>4. CASE Continue(r, [req[r] EXCEPT !.pc = "consume"])
      <3>1. /\ req'[r].pc = "consume" /\ req'[r].challenge = req[r].challenge
            /\ \A t \in Requests : t # r => req'[t] = req[t]
        BY <2>2, <2>4, Advanced DEF Continue, TypeOK
      <3>2. Drawn'
        BY <2>2, <3>1 DEF Drawn
      <3>3. Spent'
        BY <2>1, <2>2, <2>4, <3>1 DEF Spent
      <3>4. ChallengeUsedOnce'
        BY <2>2 DEF ChallengeUsedOnce
      <3>. QED
        BY <3>2, <3>3, <3>4
    <2>. QED
      BY <2>1, <2>3, <2>4
  <1>6. ASSUME NEW r \in Requests, Consume(r) PROVE Goal
    <2>1. /\ req[r].pc = "consume" /\ req'[r].pc = "insertSession"
          /\ req'[r].challenge = req[r].challenge
          /\ \A t \in Requests : t # r => req'[t] = req[t]
          /\ UNCHANGED <<sessions, last>>
      BY <1>6, Advanced DEF Consume, Continue, TypeOK
    <2>2. /\ challenges' \subseteq challenges
          /\ fails' = 0 => fails = 0 /\ challenges' = {c \in challenges : c.id # req[r].challenge}
      BY <1>1, <1>6 DEF Consume
    <2>3. Drawn'
      BY <2>1 DEF Drawn
    <2>4. Spent'
      BY <2>1, <2>2 DEF Spent
    <2>5. ChallengeUsedOnce'
      BY <2>1, <2>2 DEF ChallengeUsedOnce
    <2>. QED
      BY <2>3, <2>4, <2>5
  <1>7. ASSUME NEW r \in Requests, InsertSession(r) PROVE Goal
    <2> DEFINE s == [id |-> last.session + 1, user |-> req[r].user, slot |-> r,
                     challenge |-> req[r].challenge]
    <2>1. /\ req[r].pc = "insertSession" /\ sessions' = sessions \cup {s}
          /\ req'[r].pc = "idle" /\ \A t \in Requests : t # r => req'[t] = req[t]
          /\ last'.challenge = last.challenge /\ UNCHANGED <<challenges, fails>>
      BY <1>7 DEF InsertSession, End, Continue, Idle, TypeOK
    <2>2. s.slot = r /\ s.challenge = req[r].challenge
      OBVIOUS
    <2>. HIDE DEF s
    <2>3. Drawn'
      BY <2>1, <2>2 DEF Drawn
    <2>4. Spent'
      BY <2>1, <2>2 DEF Spent
    <2>5. ChallengeUsedOnce'
      <3>1. fails = 0 /\ s.challenge # 0 =>
              \A t \in sessions : ~(t.slot = s.slot /\ t.challenge = s.challenge)
        BY <2>1, <2>2 DEF Spent
      <3>. QED
        BY <2>1, <3>1 DEF ChallengeUsedOnce
    <2>. QED
      BY <2>3, <2>4, <2>5
  <1>8. ASSUME NEW r \in Requests, SetIdentity(r) PROVE Goal
    <2>1. /\ req'[r].pc = "insertSession" /\ req'[r].challenge = 0
          /\ \A t \in Requests : t # r => req'[t] = req[t]
          /\ UNCHANGED <<challenges, sessions, last, fails>>
      BY <1>8 DEF SetIdentity, Continue, TypeOK
    <2>2. Drawn'
      BY <1>1, <2>1 DEF Drawn
    <2>3. Spent'
      BY <1>1, <2>1 DEF Spent
    <2>4. ChallengeUsedOnce'
      BY <2>1 DEF ChallengeUsedOnce
    <2>. QED
      BY <2>2, <2>3, <2>4
  <1>9. ASSUME NEW r \in Requests, InsertChallenge(r) PROVE Goal
    <2>1. /\ \A c \in challenges' : c \in challenges \/ c.id = last.challenge + 1
          /\ req'[r].pc = "idle" /\ \A t \in Requests : t # r => req'[t] = req[t]
          /\ last'.challenge = last.challenge + 1 /\ UNCHANGED <<sessions, fails>>
      BY <1>9 DEF InsertChallenge, End, Continue, Idle, TypeOK
    <2>2. Drawn'
      BY <1>1, <2>1 DEF Drawn
    <2>3. Spent'
      <3>1. \A s \in sessions : s.challenge # last.challenge + 1
        BY <1>1 DEF Drawn
      <3>2. \A t \in Requests : req[t].pc \in Using => req[t].challenge # last.challenge + 1
        BY <1>1 DEF Drawn
      <3>. QED
        BY <2>1, <3>1, <3>2 DEF Spent
    <2>4. ChallengeUsedOnce'
      BY <2>1 DEF ChallengeUsedOnce
    <2>. QED
      BY <2>2, <2>3, <2>4
  <1>10. ASSUME NEW r \in Requests, ClearChallenges(r) PROVE Goal
    <2> DEFINE q == [pc |-> "insertChallenge", user |-> req[r].user,
                     expires |-> now + ChallengeTicks]
    <2>1. Continue(r, q) /\ q.pc \notin Using
      BY <1>10 DEF ClearChallenges
    <2>2. /\ challenges' \subseteq challenges /\ sessions' = sessions /\ last' = last
          /\ fails' = 0 => fails = 0
      BY <1>1, <1>10 DEF ClearChallenges
    <2>. HIDE DEF q, Goal, Using
    <2>. QED
      BY <1>2, <2>1, <2>2
  <1>11. ASSUME NEW r \in Requests, DelSessions(r) PROVE Goal
    <2>1. Continue(r, [pc |-> "delChallenges", user |-> req[r].user])
      BY <1>11, Advanced DEF DelSessions
    <2>. QED
      BY <1>2, <1>11, <2>1 DEF DelSessions
  <1>12. ASSUME NEW r \in Requests, DelChallenges(r) PROVE Goal
    <2>1. Continue(r, [pc |-> "delUser", user |-> req[r].user])
      BY <1>12, Advanced DEF DelChallenges
    <2>. QED
      BY <1>2, <1>12, <2>1 DEF DelChallenges
  <1>13. ASSUME NEW r \in Requests, DropExpired(r) \/ SetRecovery(r) \/ DelUser(r) \/ Finish(r)
         PROVE  Goal
    BY <1>2, <1>13 DEF DropExpired, SetRecovery, DelUser, Finish, End, Idle
  <1>14. ASSUME NEW r \in Requests, NEW u \in Users, LoginChallenge(r, u) \/ DeleteVerify(r, u)
         PROVE  Goal
    BY <1>2, <1>14 DEF LoginChallenge, DeleteVerify
  <1>15. ASSUME NEW r \in Requests, NEW u \in Users, PublishVerify(r, u) PROVE Goal
    <2>1. last'.challenge = last.challenge
      BY <1>15 DEF PublishVerify, TypeOK
    <2>. QED
      BY <1>2, <1>15, <2>1 DEF PublishVerify
  <1>16. ASSUME NEW r \in Requests, NEW u \in Users, NEW ts \in Time, ClaimNew(r, u, ts)
         PROVE  Goal
    <2>1. last'.challenge = last.challenge
      BY <1>16 DEF ClaimNew, TypeOK
    <2>. QED
      BY <1>2, <1>16, <2>1 DEF ClaimNew, ClaimVerify
  <1>17. ASSUME NEW r \in Requests, NEW c \in claims, ClaimAgain(r, c) PROVE Goal
    BY <1>2, <1>17 DEF ClaimAgain, ClaimVerify
  <1>18. ASSUME NEW u \in Users, Register(u) PROVE Goal
    <2>1. last'.challenge = last.challenge
      BY <1>18 DEF Register, TypeOK
    <2>. QED
      BY <1>3, <1>18, <2>1 DEF Register
  <1>19. ASSUME Tick \/ UNCHANGED vars PROVE Goal
    BY <1>3, <1>19 DEF Tick, vars
  <1>. HIDE DEF Goal
  <1>20. Goal
    BY <1>4, <1>5, <1>6, <1>7, <1>8, <1>9, <1>10, <1>11, <1>12, <1>13, <1>14, <1>15,
       <1>16, <1>17, <1>18, <1>19 DEF Next
  <1>. QED
    BY <1>20 DEF Goal

\* A request inserts a challenge after it has deleted those of the user, or
\* after an ignored error.
LEMMA CountedNext ==
  ASSUME IInv, [Next]_vars
  PROVE  Counted'
  <1> USE DEF IInv
  <1> DEFINE N == Cardinality(Requests)
  <1>1. fails \in Nat /\ N \in Nat
    BY Numbers, RequestsAssumption, FS_CardinalityType DEF TypeOK
  <1>2. \A u \in Users : /\ IsFiniteSet(Inserting(u)) /\ IsFiniteSet(Inserting(u)')
                         /\ Cardinality(Inserting(u)) \in Nat
                         /\ Cardinality(Inserting(u)') \in Nat
                         /\ Cardinality(Inserting(u)') <= N
    <2>1. ASSUME NEW u \in Users
          PROVE  Inserting(u) \in SUBSET Requests /\ Inserting(u)' \in SUBSET Requests
      BY DEF Inserting
    <2>. QED
      BY <2>1, RequestsAssumption, FS_Subset, FS_CardinalityType
  <1>3. \A u \in Users : IsFiniteSet(Of(u)) /\ Cardinality(Of(u)) \in Nat
    BY FS_CardinalityType DEF Counted
  \* Counted', for one user.
  <1> DEFINE Fine(u) == /\ IsFiniteSet(Of(u)')
                        /\ Cardinality(Of(u)') + Cardinality(Inserting(u)') <= N + fails'
             Goal == \A u \in Users : Fine(u)
  <1>4. ASSUME NEW u \in Users, Of(u)' \in SUBSET Of(u), Inserting(u)' \in SUBSET Inserting(u),
               fails' \in Nat, fails <= fails'
        PROVE  Fine(u)
    <2>1. /\ IsFiniteSet(Of(u)') /\ Cardinality(Of(u)') <= Cardinality(Of(u))
          /\ Cardinality(Of(u)') \in Nat
      BY <1>3, <1>4, FS_Subset, FS_CardinalityType
    <2>2. Cardinality(Inserting(u)') <= Cardinality(Inserting(u))
      BY <1>2, <1>4, FS_Subset
    <2>3. Cardinality(Of(u)) + Cardinality(Inserting(u)) <= N + fails
      BY DEF Counted
    <2>. QED
      BY <1>1, <1>2, <1>3, <1>4, <2>1, <2>2, <2>3
  <1>. HIDE DEF Fine, N
  <1>5. ASSUME NEW r \in Requests, req'[r].pc # "insertChallenge",
               \A t \in Requests : t # r => req'[t] = req[t],
               challenges' \subseteq challenges, fails' \in Nat, fails <= fails'
        PROVE  Goal
    <2>1. \A u \in Users : Of(u)' \in SUBSET Of(u) /\ Inserting(u)' \in SUBSET Inserting(u)
      BY <1>5 DEF Of, Inserting
    <2>. QED
      BY <1>4, <1>5, <2>1
  <1>6. ASSUME UNCHANGED <<req, challenges, fails>> PROVE Goal
    <2>1. \A u \in Users : Of(u)' \in SUBSET Of(u) /\ Inserting(u)' \in SUBSET Inserting(u)
      BY <1>6 DEF Of, Inserting
    <2>. QED
      BY <1>1, <1>4, <1>6, <2>1
  <1>7. ASSUME NEW r \in Requests, ClearChallenges(r) PROVE Goal
    <2>a. PICK v \in Users : v = req[r].user
      BY <1>7, RequestShape DEF ClearChallenges
    <2>1. /\ v \in Users /\ req[r].pc = "clearChallenges"
          /\ req'[r].pc = "insertChallenge" /\ req'[r].user = v
          /\ \A t \in Requests : t # r => req'[t] = req[t]
      BY <1>7, <2>a DEF ClearChallenges, Continue, TypeOK
    <2>2. /\ challenges' \subseteq challenges
          /\ fails' \in Nat /\ fails <= fails'
          /\ \/ \A c \in challenges' : c.user # v
             \/ fails' = fails + 1 /\ challenges' = challenges
      BY <1>1, <1>7, <2>a DEF ClearChallenges
    <2>3. ASSUME NEW u \in Users, u # v PROVE Fine(u)
      <3>1. Of(u)' \in SUBSET Of(u) /\ Inserting(u)' \in SUBSET Inserting(u)
        BY <2>1, <2>2, <2>3 DEF Of, Inserting, TypeOK
      <3>. QED
        BY <1>4, <2>2, <3>1
    <2>4. CASE \A c \in challenges' : c.user # v
      <3>1. Of(v)' = {}
        BY <2>4 DEF Of
      <3>2. Fine(v)
        BY <1>1, <1>2, <2>1, <2>2, <3>1, FS_EmptySet DEF Fine
      <3>. QED
        BY <2>3, <3>2
    <2>5. CASE fails' = fails + 1 /\ challenges' = challenges
      <3>1. Of(v)' = Of(v)
        BY <2>5 DEF Of
      <3>2. Inserting(v)' = Inserting(v) \cup {r} /\ r \notin Inserting(v)
        BY <2>1 DEF Inserting, TypeOK
      <3>3. Cardinality(Inserting(v)') = Cardinality(Inserting(v)) + 1
        BY <1>2, <2>1, <3>2, FS_AddElement
      <3>4. Cardinality(Of(v)) + Cardinality(Inserting(v)) <= N + fails
        BY <2>1 DEF Counted, N
      <3>5. Fine(v)
        BY <1>1, <1>2, <1>3, <2>1, <2>5, <3>1, <3>3, <3>4 DEF Fine
      <3>. QED
        BY <2>3, <3>5
    <2>. QED
      BY <2>2, <2>4, <2>5
  <1>8. ASSUME NEW r \in Requests, InsertChallenge(r) PROVE Goal
    <2>a. PICK v \in Users : v = req[r].user
      BY <1>8, RequestShape DEF InsertChallenge
    <2> DEFINE c == [id |-> last.challenge + 1, user |-> v, expires |-> req[r].expires]
    <2>1. /\ v \in Users /\ req[r].pc = "insertChallenge" /\ req[r].user = v
          /\ challenges' = challenges \cup {c} /\ c.user = v /\ fails' = fails
          /\ req' = [req EXCEPT ![r] = Idle]
      BY <1>8, <2>a DEF InsertChallenge, End, Continue
    <2>2. c \notin challenges
      BY Numbers DEF TypeOK
    <2>. HIDE DEF c
    <2>3. ASSUME NEW u \in Users, u # v PROVE Fine(u)
      <3>1. Of(u)' \in SUBSET Of(u) /\ Inserting(u)' \in SUBSET Inserting(u)
        BY <2>1, <2>3 DEF Of, Inserting, Idle, TypeOK
      <3>. QED
        BY <1>1, <1>4, <2>1, <3>1
    <2>4. Of(v)' = Of(v) \cup {c} /\ c \notin Of(v)
      BY <2>1, <2>2 DEF Of
    <2>5. IsFiniteSet(Of(v)') /\ Cardinality(Of(v)') = Cardinality(Of(v)) + 1
      BY <1>3, <2>1, <2>4, FS_AddElement
    <2>6. Inserting(v)' = Inserting(v) \ {r} /\ r \in Inserting(v)
      BY <2>1 DEF Inserting, Idle, TypeOK
    <2>7. Cardinality(Inserting(v)') = Cardinality(Inserting(v)) - 1
      BY <1>2, <2>1, <2>6, FS_RemoveElement
    <2>8. Cardinality(Of(v)) + Cardinality(Inserting(v)) <= N + fails
      BY <2>1 DEF Counted, N
    <2>9. Fine(v)
      BY <1>1, <1>2, <1>3, <2>1, <2>5, <2>7, <2>8 DEF Fine
    <2>. QED
      BY <2>3, <2>9
  <1>. HIDE DEF Goal
  <1>9. ASSUME NEW r \in Requests, NEW u \in Users,
               \/ LoginChallenge(r, u) \/ PublishVerify(r, u) \/ DeleteVerify(r, u)
               \/ \E c \in 1..MaxChallenge : LoginProof(r, u, c)
        PROVE  Goal
    BY <1>1, <1>5, <1>9 DEF LoginChallenge, PublishVerify, DeleteVerify, LoginProof,
                             Continue, TypeOK
  <1>10. ASSUME NEW r \in Requests, \/ \E c \in claims : ClaimAgain(r, c)
                                    \/ \E u \in Users, ts \in Time : ClaimNew(r, u, ts)
         PROVE  Goal
    BY <1>1, <1>5, <1>10 DEF ClaimNew, ClaimAgain, ClaimVerify, Continue, TypeOK
  <1>11. ASSUME NEW r \in Requests, ReadChallenge(r) PROVE Goal
    <2>1. /\ [req[r] EXCEPT !.pc = "consume"].pc = "consume"
          /\ [req[r] EXCEPT !.pc = "dropChallenge"].pc = "dropChallenge"
      BY <1>11, Advanced DEF ReadChallenge
    <2>2. /\ challenges' = challenges /\ fails' = fails
          /\ \/ Continue(r, [req[r] EXCEPT !.pc = "dropChallenge"])
             \/ Continue(r, [req[r] EXCEPT !.pc = "consume"])
      BY <1>11 DEF ReadChallenge
    <2>3. req'[r].pc # "insertChallenge" /\ \A t \in Requests : t # r => req'[t] = req[t]
      BY <2>1, <2>2 DEF Continue, TypeOK
    <2>. QED
      BY <1>1, <1>5, <2>2, <2>3
  <1>12. ASSUME NEW r \in Requests, Consume(r) PROVE Goal
    <2>1. [req[r] EXCEPT !.pc = "insertSession"].pc = "insertSession"
      BY <1>12, Advanced DEF Consume
    <2>2. challenges' \subseteq challenges /\ fails' \in Nat /\ fails <= fails'
      BY <1>1, <1>12 DEF Consume
    <2>. QED
      BY <1>5, <1>12, <2>1, <2>2 DEF Consume, Continue, TypeOK
  <1>13. ASSUME NEW r \in Requests, SetIdentity(r) PROVE Goal
    BY <1>1, <1>5, <1>13 DEF SetIdentity, Continue, TypeOK
  <1>14. ASSUME NEW r \in Requests,
                \/ InsertSession(r) \/ DropExpired(r) \/ SetRecovery(r) \/ DelUser(r) \/ Finish(r)
         PROVE  Goal
    <2>1. Continue(r, Idle) /\ challenges' \subseteq challenges /\ fails' = fails
      BY <1>14 DEF InsertSession, DropExpired, SetRecovery, DelUser, Finish, End
    <2>. QED
      BY <1>1, <1>5, <2>1 DEF Idle, Continue, TypeOK
  <1>15. ASSUME NEW r \in Requests, DelSessions(r) PROVE Goal
    <2>1. [req[r] EXCEPT !.pc = "delChallenges"].pc = "delChallenges"
      BY <1>15, Advanced DEF DelSessions
    <2>. QED
      BY <1>1, <1>5, <1>15, <2>1 DEF DelSessions, Continue, TypeOK
  <1>16. ASSUME NEW r \in Requests, DelChallenges(r) PROVE Goal
    <2>1. [req[r] EXCEPT !.pc = "delUser"].pc = "delUser"
      BY <1>16, Advanced DEF DelChallenges
    <2>. QED
      BY <1>1, <1>5, <1>16, <2>1 DEF DelChallenges, Continue, TypeOK
  <1>17. ASSUME Tick \/ UNCHANGED vars \/ \E u \in Users : Register(u) PROVE Goal
    BY <1>6, <1>17 DEF Tick, vars, Register
  <1>18. Goal
    BY <1>7, <1>8, <1>9, <1>10, <1>11, <1>12, <1>13, <1>14, <1>15, <1>16, <1>17 DEF Next
  <1>. QED
    BY <1>18 DEF Goal, Fine, N, Counted

LEMMA Invariance == Spec => []IInv
  <1>1. Init => IInv
    <2>1. ASSUME Init PROVE TypeOK
      BY <2>1, Numbers DEF Init, TypeOK, Request, Time
    <2>2. ASSUME Init PROVE NoRowWithoutAccount /\ Drawn /\ Spent /\ ChallengeUsedOnce
      BY <2>2 DEF Init, NoRowWithoutAccount, Drawn, Spent, ChallengeUsedOnce, Idle
    <2>3. ASSUME Init PROVE Counted
      <3>1. ASSUME NEW u \in Users PROVE Of(u) = {} /\ Inserting(u) = {}
        BY <2>3 DEF Init, Of, Inserting, Idle
      <3>2. fails = 0 /\ Cardinality(Requests) \in Nat
        BY <2>3, RequestsAssumption, FS_CardinalityType DEF Init
      <3>. QED
        BY <3>1, <3>2, FS_EmptySet DEF Counted
    <2>. QED
      BY <2>1, <2>2, <2>3 DEF IInv
  <1>2. IInv /\ [Next]_vars => IInv'
    <2>1. IInv /\ [Next]_vars => TypeOK'
      BY TypeNext DEF IInv
    <2>. QED
      BY <2>1, NoRowNext, SpentNext, CountedNext DEF IInv
  <1>. QED
    BY <1>1, <1>2, PTL DEF Spec

-----------------------------------------------------------------------------
\* The tables, the requests and the histories keep their types, whatever
\* requests interleave.
THEOREM TypeCorrect == Spec => []TypeOK
  BY Invariance, PTL DEF IInv

\* However logins, claims and deletions of an account interleave, no challenge
\* and no session outlives it (delete.rs, with the foreign keys of the schema).
THEOREM DeletionComplete == Spec => []NoRowWithoutAccount
  BY Invariance, PTL DEF IInv

\* Unless an error was ignored, a slot turns a challenge into at most one session:
\* a proof that arrives again later finds no challenge (login.rs).
THEOREM ChallengeServesOnce == Spec => []ChallengeUsedOnce
  BY Invariance, PTL DEF IInv

\* A user has at most one challenge per request in flight and ignored error
\* (login.rs).
THEOREM FewChallenges == Spec => []ChallengesBounded
  <1>1. IInv => ChallengesBounded
    <2>1. ASSUME IInv, NEW u \in Users
          PROVE  Cardinality({c \in challenges : c.user = u}) <= Cardinality(Requests) + fails
      <3>1. Inserting(u) \in SUBSET Requests
        BY DEF Inserting
      <3>2. /\ Cardinality(Inserting(u)) \in Nat /\ Cardinality(Of(u)) \in Nat
            /\ Cardinality(Requests) \in Nat
        BY <2>1, <3>1, RequestsAssumption, FS_Subset, FS_CardinalityType DEF IInv, Counted
      <3>3. Cardinality(Of(u)) + Cardinality(Inserting(u)) <= Cardinality(Requests) + fails
        BY <2>1 DEF IInv, Counted
      <3>4. fails \in Nat
        BY <2>1, Numbers DEF IInv, TypeOK
      <3>. QED
        BY <3>2, <3>3, <3>4 DEF Of
    <2>. QED
      BY <2>1 DEF ChallengesBounded
  <1>. QED
    BY <1>1, Invariance, PTL
=============================================================================
