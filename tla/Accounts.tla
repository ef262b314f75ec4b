----------------------------- MODULE Accounts ------------------------------
(***************************************************************************)
(* Accounts and their authentication: the tables users, auth_challenges    *)
(* and sessions, and the requests REGISTER, LOGIN (challenge and proof),   *)
(* PUBLISH_RECOVERY_KEY, RECOVERY_CLAIM and DELETE (its statements on      *)
(* these tables).                                                          *)
(*                                                                         *)
(* Statements autocommit and requests interleave between them.  A request  *)
(* verifies the signature with the row of users it read in its first       *)
(* statement, and writes later by user_hash_id alone.  Clients retry: the  *)
(* same signed request may arrive again.                                   *)
(***************************************************************************)
EXTENDS Naturals, FiniteSets

CONSTANTS Users,              \* user_hash_id values
          Requests,           \* request slots: the requests in flight at once
          ChallengeTicks,     \* CHALLENGE_EXPIRY_SECONDS
          Tolerance,          \* TIMESTAMP_TOLERANCE_SECS
          MaxKey, MaxChallenge, MaxSession, MaxTime, MaxFail   \* bounds

ASSUME BoundsAssumption ==
  {ChallengeTicks, Tolerance, MaxKey, MaxChallenge, MaxSession, MaxTime, MaxFail}
     \subseteq Nat
ASSUME RequestsAssumption == IsFiniteSet(Requests)

VARIABLES
  users,      \* users[u]: NoUser, or [key, rkey]: identity key, recovery
              \*   key (0 = null)
  challenges, \* table auth_challenges: rows [id, user, expires]
  sessions,   \* table sessions: rows [id, user, slot, challenge] with the slot
              \*   and the challenge they come from (challenge 0 = recovery)
  claims,     \* history: the recovery claims that have arrived
  req,        \* req[r]: the request in slot r, its position and its locals
  last,       \* last key, challenge and session made
  now,        \* the clock
  fails       \* statements that failed and whose error was ignored

vars == <<users, challenges, sessions, claims, req, last, now, fails>>

NoUser == [key |-> 0, rkey |-> 0]
Idle   == [pc |-> "idle"]

Keys == 1..MaxKey
Time == 0..MaxTime
Account == [key : Keys, rkey : 0..MaxKey]

\* Positions of a request: what it does next.
Request ==
       {Idle}
  \cup [pc : {"clearChallenges"}, user : Users]
  \cup [pc : {"insertChallenge"}, user : Users, expires : 0..(MaxTime + ChallengeTicks)]
  \cup [pc : {"readChallenge", "dropChallenge", "consume"}, user : Users,
        challenge : 1..MaxChallenge]
  \cup [pc : {"insertSession"}, user : Users, challenge : 0..MaxChallenge]
  \cup [pc : {"setRecovery"}, user : Users, rkey : Keys]
  \cup [pc : {"setIdentity"}, user : Users, new : Keys]
  \cup [pc : {"delSessions", "delChallenges", "delUser"}, user : Users]

TypeOK ==
  /\ users \in [Users -> Account \cup {NoUser}]
  /\ challenges \subseteq [id : 1..last.challenge, user : Users,
                           expires : 0..(MaxTime + ChallengeTicks)]
  /\ sessions \subseteq [id : 1..last.session, user : Users, slot : Requests,
                         challenge : 0..MaxChallenge]
  /\ claims \subseteq [user : Users, rkey : Keys, new : Keys, ts : Time]
  /\ req \in [Requests -> Request]
  /\ last \in [key : 0..MaxKey, challenge : 0..MaxChallenge, session : 0..MaxSession]
  /\ now \in Time
  /\ fails \in 0..MaxFail

Init == /\ users = [u \in Users |-> NoUser]
        /\ challenges = {}
        /\ sessions = {}
        /\ claims = {}
        /\ req = [r \in Requests |-> Idle]
        /\ last = [key |-> 0, challenge |-> 0, session |-> 0]
        /\ now = 0
        /\ fails = 0

Exists(u) == users[u] # NoUser

\* Slot r goes on with q, and the request in it ends.
Continue(r, q) == req' = [req EXCEPT ![r] = q]
End(r)         == Continue(r, Idle)

-----------------------------------------------------------------------------
(* REGISTER: one INSERT, refused by the primary key when the row exists. *)

Register(u) ==
  /\ ~Exists(u)
  /\ last.key < MaxKey
  /\ last' = [last EXCEPT !.key = @ + 1]
  /\ users' = [users EXCEPT ![u] = [key |-> last.key + 1, rkey |-> 0]]
  /\ UNCHANGED <<challenges, sessions, claims, req, now, fails>>

-----------------------------------------------------------------------------
(* LOGIN *)

\* The required version (a client of another one is sent away and changes
\* nothing), SELECT the user; request_challenge = true.
LoginChallenge(r, u) ==
  /\ req[r] = Idle
  /\ Exists(u)
  /\ Continue(r, [pc |-> "clearChallenges", user |-> u])
  /\ UNCHANGED <<users, challenges, sessions, claims, last, now, fails>>

\* Mutant: earlier challenges of the user are kept.
KeepChallenges(r) ==
  /\ req[r].pc = "clearChallenges"
  /\ Continue(r, [pc |-> "insertChallenge", user |-> req[r].user,
                  expires |-> now + ChallengeTicks])
  /\ UNCHANGED <<users, challenges, sessions, claims, last, now, fails>>

\* Read the clock, DELETE the user's earlier challenges; an error is ignored.
ClearChallenges(r) ==
  /\ req[r].pc = "clearChallenges"
  /\ \/ /\ challenges' = {c \in challenges : c.user # req[r].user}
        /\ UNCHANGED fails
     \/ /\ fails < MaxFail
        /\ fails' = fails + 1
        /\ UNCHANGED challenges
  /\ Continue(r, [pc |-> "insertChallenge", user |-> req[r].user,
                  expires |-> now + ChallengeTicks])
  /\ UNCHANGED <<users, sessions, claims, last, now>>

\* INSERT the challenge; the foreign key needs the user.
InsertChallenge(r) ==
  /\ req[r].pc = "insertChallenge"
  /\ Exists(req[r].user)
  /\ last.challenge < MaxChallenge
  /\ last' = [last EXCEPT !.challenge = @ + 1]
  /\ challenges' = challenges \cup
       {[id |-> last.challenge + 1, user |-> req[r].user,
         expires |-> req[r].expires]}
  /\ End(r)
  /\ UNCHANGED <<users, sessions, claims, now, fails>>

\* SELECT the user; a proof, signed with its identity key, answers challenge c.
\* (A proof by any other key fails at ReadChallenge and changes nothing.)
LoginProof(r, u, c) ==
  /\ req[r] = Idle
  /\ Exists(u)
  /\ c \in 1..last.challenge
  /\ Continue(r, [pc |-> "readChallenge", user |-> u, challenge |-> c])
  /\ UNCHANGED <<users, challenges, sessions, claims, last, now, fails>>

\* SELECT the challenge; one that has not expired is verified.
ReadChallenge(r) ==
  /\ req[r].pc = "readChallenge"
  /\ \E c \in challenges :
       /\ c.id = req[r].challenge /\ c.user = req[r].user
       /\ \/ /\ now > c.expires
             /\ Continue(r, [req[r] EXCEPT !.pc = "dropChallenge"])
          \/ /\ now <= c.expires
             /\ Continue(r, [req[r] EXCEPT !.pc = "consume"])
  /\ UNCHANGED <<users, challenges, sessions, claims, last, now, fails>>

\* DELETE the expired challenge; the request is refused whether that works
\* or not (Finish).
DropExpired(r) ==
  /\ req[r].pc = "dropChallenge"
  /\ challenges' = {c \in challenges : c.id # req[r].challenge}
  /\ End(r)
  /\ UNCHANGED <<users, sessions, claims, last, now, fails>>

\* Mutant: the challenge is not consumed.
ConsumeNothing(r) ==
  /\ req[r].pc = "consume"
  /\ Continue(r, [req[r] EXCEPT !.pc = "insertSession"])
  /\ UNCHANGED <<users, challenges, sessions, claims, last, now, fails>>

\* DELETE the challenge, whoever deleted it meanwhile; an error is ignored.
Consume(r) ==
  /\ req[r].pc = "consume"
  /\ \/ /\ challenges' = {c \in challenges : c.id # req[r].challenge}
        /\ UNCHANGED fails
     \/ /\ fails < MaxFail
        /\ fails' = fails + 1
        /\ UNCHANGED challenges
  /\ Continue(r, [req[r] EXCEPT !.pc = "insertSession"])
  /\ UNCHANGED <<users, sessions, claims, last, now>>

\* INSERT the session, last statement of a login and of a recovery claim; the
\* foreign key needs the user.
InsertSession(r) ==
  /\ req[r].pc = "insertSession"
  /\ Exists(req[r].user)
  /\ last.session < MaxSession
  /\ last' = [last EXCEPT !.session = @ + 1]
  /\ sessions' = sessions \cup
       {[id |-> last.session + 1, user |-> req[r].user, slot |-> r,
         challenge |-> req[r].challenge]}
  /\ End(r)
  /\ UNCHANGED <<users, challenges, claims, now, fails>>

-----------------------------------------------------------------------------
(* PUBLISH_RECOVERY_KEY and RECOVERY_CLAIM *)

\* is_timestamp_fresh: a client's clock may be behind the server's or ahead of it.
Fresh(ts) == now <= ts + Tolerance /\ ts <= now + Tolerance

\* Freshness (a request signed now passes), SELECT the user and verify with the
\* identity key it has.
PublishVerify(r, u) ==
  /\ req[r] = Idle
  /\ Exists(u)
  /\ last.key < MaxKey
  /\ last' = [last EXCEPT !.key = @ + 1]
  /\ Continue(r, [pc |-> "setRecovery", user |-> u, rkey |-> last.key + 1])
  /\ UNCHANGED <<users, challenges, sessions, claims, now, fails>>

\* Mutant: the UPDATE is an upsert and brings a deleted row back.
SetRecoveryUpsert(r) ==
  /\ req[r].pc = "setRecovery"
  /\ users' = [users EXCEPT ![req[r].user].rkey = req[r].rkey]
  /\ End(r)
  /\ UNCHANGED <<challenges, sessions, claims, last, now, fails>>

\* UPDATE the recovery key, by user_hash_id (no row: no effect).
SetRecovery(r) ==
  /\ req[r].pc = "setRecovery"
  /\ users' = IF Exists(req[r].user)
              THEN [users EXCEPT ![req[r].user].rkey = req[r].rkey] ELSE users
  /\ End(r)
  /\ UNCHANGED <<challenges, sessions, claims, last, now, fails>>

\* A claim c arrives (for the first time or again): freshness, SELECT the user,
\* verify with its recovery key.
ClaimVerify(r, c) ==
  /\ req[r] = Idle
  /\ Fresh(c.ts)
  /\ Exists(c.user)
  /\ users[c.user].rkey = c.rkey
  /\ claims' = claims \cup {c}
  /\ Continue(r, [pc |-> "setIdentity", user |-> c.user, new |-> c.new])

\* The owner of the recovery key makes a new identity key and claims.
ClaimNew(r, u, ts) ==
  /\ Exists(u) /\ users[u].rkey # 0
  /\ last.key < MaxKey
  /\ last' = [last EXCEPT !.key = @ + 1]
  /\ ClaimVerify(r, [user |-> u, rkey |-> users[u].rkey, new |-> last.key + 1,
                     ts |-> ts])
  /\ UNCHANGED <<users, challenges, sessions, now, fails>>

\* A claim that has arrived before arrives again (retry, duplicate).
ClaimAgain(r, c) ==
  /\ ClaimVerify(r, c)
  /\ UNCHANGED <<users, challenges, sessions, last, now, fails>>

\* UPDATE identity key, signature and bundle, by user_hash_id.
SetIdentity(r) ==
  /\ req[r].pc = "setIdentity"
  /\ users' = IF Exists(req[r].user)
              THEN [users EXCEPT ![req[r].user].key = req[r].new] ELSE users
  /\ Continue(r, [pc |-> "insertSession", user |-> req[r].user, challenge |-> 0])
  /\ UNCHANGED <<challenges, sessions, claims, last, now, fails>>

-----------------------------------------------------------------------------
(* DELETE *)

\* Freshness (a request signed now passes), SELECT the user and verify with its
\* identity key.
DeleteVerify(r, u) ==
  /\ req[r] = Idle
  /\ Exists(u)
  /\ Continue(r, [pc |-> "delSessions", user |-> u])
  /\ UNCHANGED <<users, challenges, sessions, claims, last, now, fails>>

DelSessions(r) ==
  /\ req[r].pc = "delSessions"
  /\ sessions' = {s \in sessions : s.user # req[r].user}
  /\ Continue(r, [req[r] EXCEPT !.pc = "delChallenges"])
  /\ UNCHANGED <<users, challenges, claims, last, now, fails>>

DelChallenges(r) ==
  /\ req[r].pc = "delChallenges"
  /\ challenges' = {c \in challenges : c.user # req[r].user}
  /\ Continue(r, [req[r] EXCEPT !.pc = "delUser"])
  /\ UNCHANGED <<users, sessions, claims, last, now, fails>>

\* Mutant: ON DELETE CASCADE is missing on auth_challenges.
DelUserNoCascade(r) ==
  /\ req[r].pc = "delUser"
  /\ users' = [users EXCEPT ![req[r].user] = NoUser]
  /\ sessions' = {s \in sessions : s.user # req[r].user}
  /\ End(r)
  /\ UNCHANGED <<challenges, claims, last, now, fails>>

\* The user's row goes, and by cascade the rows made since the two DELETEs.
DelUser(r) ==
  /\ req[r].pc = "delUser"
  /\ users' = [users EXCEPT ![req[r].user] = NoUser]
  /\ sessions' = {s \in sessions : s.user # req[r].user}
  /\ challenges' = {c \in challenges : c.user # req[r].user}
  /\ End(r)
  /\ UNCHANGED <<claims, last, now, fails>>

-----------------------------------------------------------------------------
(* Environment *)

\* A request ends before its next statement: the response was sent, the
\* statement failed and returned the error, a row was not found, or the server
\* stopped.
Finish(r) == /\ req[r] # Idle
             /\ End(r)
             /\ UNCHANGED <<users, challenges, sessions, claims, last,
                            now, fails>>

Tick == /\ now < MaxTime
        /\ now' = now + 1
        /\ UNCHANGED <<users, challenges, sessions, claims, req, last,
                       fails>>

Next == \/ \E u \in Users : Register(u)
        \/ \E r \in Requests :
             \/ \E u \in Users : \/ LoginChallenge(r, u)
                                 \/ \E c \in 1..MaxChallenge : LoginProof(r, u, c)
                                 \/ PublishVerify(r, u)
                                 \/ \E ts \in Time : ClaimNew(r, u, ts)
                                 \/ DeleteVerify(r, u)
             \/ \E c \in claims : ClaimAgain(r, c)
             \/ ClearChallenges(r) \/ InsertChallenge(r)
             \/ ReadChallenge(r) \/ DropExpired(r) \/ Consume(r) \/ InsertSession(r)
             \/ SetRecovery(r) \/ SetIdentity(r)
             \/ DelSessions(r) \/ DelChallenges(r) \/ DelUser(r)
             \/ Finish(r)
        \/ Tick

Spec == Init /\ [][Next]_vars

-----------------------------------------------------------------------------
(* Properties *)

\* Deletion is complete for these tables: no challenge and no session of a hash
\* without account, although logins, claims and deletions of the same account
\* interleave and the statements are not in a transaction.
NoRowWithoutAccount == \A u \in Users : ~Exists(u) =>
                         /\ \A c \in challenges : c.user # u
                         /\ \A s \in sessions : s.user # u

\* A proof that arrives again after its login is over yields no session: one
\* slot turns a challenge into at most one session, so two sessions from one
\* challenge need two proofs in flight together or an ignored DELETE error.
ChallengeUsedOnce == fails = 0 =>
  \A s, t \in sessions :
     (s.challenge # 0 /\ s.challenge = t.challenge /\ s.slot = t.slot) => s = t

\* The table of challenges cannot grow: a user has at most one per request in
\* flight and one per ignored DELETE error, however the requests interleave.
ChallengesBounded == \A u \in Users :
  Cardinality({c \in challenges : c.user = u}) <= Cardinality(Requests) + fails
=============================================================================
