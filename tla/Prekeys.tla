------------------------------ MODULE Prekeys ------------------------------
(***************************************************************************)
(* The one_time_prekeys table and the requests that fill and drain it:     *)
(* UPLOAD_PREKEYS, REPLENISH_PREKEYS, CHECK_PREKEY_COUNT and               *)
(* FETCH_PREKEY_BUNDLE, with the account operations that replace or remove *)
(* the owner of the rows (REGISTER, RECOVERY_CLAIM, DELETE).               *)
(*                                                                         *)
(* A request runs as a task of a multi-threaded server (and of two         *)
(* replicas); each of its SQL statements autocommits, so requests          *)
(* interleave between statements.  One action is one statement with the    *)
(* checks that precede the next one.                                       *)
(***************************************************************************)
EXTENDS Naturals, Sequences, FiniteSets

CONSTANTS Users,              \* user_hash_id values
          PrekeyIds,          \* prekey_id values chosen by the clients
          Batches,            \* prekey_id lists of the upload requests
          Requests,           \* request slots: the requests in flight at once
          MaxRow,             \* bound on the serial column one_time_prekeys.id
          MaxKey              \* bound on the identity keys ever registered

ASSUME BatchesAssumption == Batches \subseteq Seq(PrekeyIds) \ {<<>>}
ASSUME BoundsAssumption  == MaxRow \in Nat /\ MaxKey \in Nat

VARIABLES
  users,     \* users[u]: 0 when no row, else the number of the identity key;
             \*   the key, its signature and pre_key_bundle are always
             \*   written together, so one number stands for the three
  lastKey,   \* identity keys generated by clients so far
  otpk,      \* table one_time_prekeys: id -> [user, prekey, key, used], where
             \*   key is the identity key of the client that made the prekey
  lastId,    \* last value drawn from the serial sequence of the table
  req,       \* req[r]: the request in slot r, its position and its locals
  handed     \* history: handed[r][i] = responses of slot r that carry row i

vars == <<users, lastKey, otpk, lastId, req, handed>>

RowIds == 1..MaxRow
Keys   == 1..MaxKey
NoRow  == 0

Row == [user : Users, prekey : PrekeyIds, key : Keys, used : BOOLEAN]

Idle == [pc |-> "idle"]

Request ==
       {Idle}
  \cup [pc : {"insert"}, user : Users, key : Keys, batch : Batches]
  \cup [pc : {"target"}, target : Users]
  \cup [pc : {"pick"}, target : Users, bundle : Keys]
  \cup [pc : {"mark"}, target : Users, bundle : Keys, row : RowIds, key : Keys]
  \cup [pc : {"reply"}, bundle : Keys, row : RowIds \cup {NoRow}, key : Keys]

\* One type invariant: the tables, the slots and the history.
TypeOK == /\ users \in [Users -> 0..MaxKey]
          /\ lastKey \in 0..MaxKey
          /\ lastId \in 0..MaxRow
          /\ DOMAIN otpk \subseteq 1..lastId
          /\ \A i \in DOMAIN otpk : otpk[i] \in Row
          /\ otpk = [i \in DOMAIN otpk |-> otpk[i]]
          /\ req \in [Requests -> Request]
          /\ handed \in [Requests -> [RowIds -> Nat]]

Init == /\ users = [u \in Users |-> 0]
        /\ lastKey = 0
        /\ otpk = [i \in {} |-> {}]
        /\ lastId = 0
        /\ req = [r \in Requests |-> Idle]
        /\ handed = [r \in Requests |-> [i \in RowIds |-> 0]]

-----------------------------------------------------------------------------
(* Accounts *)

\* REGISTER: one INSERT, refused by the primary key when the row exists.
Register(u) == /\ users[u] = 0
               /\ lastKey < MaxKey
               /\ lastKey' = lastKey + 1
               /\ users' = [users EXCEPT ![u] = lastKey']
               /\ UNCHANGED <<otpk, lastId, req, handed>>

\* RECOVERY_CLAIM: identity key and bundle are replaced by one UPDATE; the
\* rows of one_time_prekeys are left as they are.
RecoveryClaim(u) == /\ users[u] # 0
                    /\ lastKey < MaxKey
                    /\ lastKey' = lastKey + 1
                    /\ users' = [users EXCEPT ![u] = lastKey']
                    /\ UNCHANGED <<otpk, lastId, req, handed>>

\* The rows left by ON DELETE CASCADE when user u goes.
Cascade(u) == LET kept == {i \in DOMAIN otpk : otpk[i].user # u}
              IN  [i \in kept |-> otpk[i]]

\* DELETE, its last statement (the only one that reaches this table).
DeleteUser(u) == /\ users[u] # 0
                 /\ users' = [users EXCEPT ![u] = 0]
                 /\ otpk' = Cascade(u)
                 /\ UNCHANGED <<lastKey, lastId, req, handed>>

-----------------------------------------------------------------------------
(* UPLOAD_PREKEYS and REPLENISH_PREKEYS *)

\* SELECT the user and verify the signature.  A request signed by another key
\* than users[u] is refused and changes nothing.
UploadVerify(r, u, batch) ==
  /\ req[r] = Idle
  /\ users[u] # 0
  /\ req' = [req EXCEPT ![r] = [pc |-> "insert", user |-> u, key |-> users[u],
                                batch |-> batch]]
  /\ UNCHANGED <<users, lastKey, otpk, lastId, handed>>

\* REPLENISH_PREKEYS looks up and verifies in the same way, but accepts a timestamp
\* of any age.
ReplenishVerify(r, u, batch) == UploadVerify(r, u, batch)

\* Mutant: the uniqueness of (user, prekey_id) is not checked against the table.
FreshNoConflict(u, batch) ==
  {n \in DOMAIN batch : \A m \in 1..(n - 1) : batch[m] # batch[n]}

\* Positions of the batch that ON CONFLICT (user, prekey_id) DO NOTHING keeps.
Fresh(u, batch) ==
  {n \in DOMAIN batch :
      /\ \A i \in DOMAIN otpk : otpk[i].user = u => otpk[i].prekey # batch[n]
      /\ \A m \in 1..(n - 1) : batch[m] # batch[n]}

\* Mutant: ON CONFLICT DO UPDATE SET used = false.
InsertRowsUpsert(q) ==
  LET new == {lastId + n : n \in Fresh(q.user, q.batch)}
      hit == {i \in DOMAIN otpk : /\ otpk[i].user = q.user
                                  /\ \E n \in DOMAIN q.batch :
                                       q.batch[n] = otpk[i].prekey}
  IN  [i \in DOMAIN otpk \cup new |->
         IF i \in hit THEN [otpk[i] EXCEPT !.used = FALSE]
         ELSE IF i \in DOMAIN otpk THEN otpk[i]
         ELSE [user |-> q.user, prekey |-> q.batch[i - lastId],
               key |-> q.key, used |-> FALSE]]

\* The table after the INSERT: position n of the batch draws id lastId + n.
InsertRows(q) ==
  LET new == {lastId + n : n \in Fresh(q.user, q.batch)}
  IN  [i \in DOMAIN otpk \cup new |->
         IF i \in DOMAIN otpk THEN otpk[i]
         ELSE [user |-> q.user, prekey |-> q.batch[i - lastId],
               key |-> q.key, used |-> FALSE]]

\* Mutant: an id is drawn for the first row only.
UploadInsertOneId(r) ==
  /\ req[r].pc = "insert"
  /\ users[req[r].user] # 0
  /\ lastId + Len(req[r].batch) <= MaxRow
  /\ otpk' = InsertRows(req[r])
  /\ lastId' = lastId + 1
  /\ req' = [req EXCEPT ![r] = Idle]
  /\ UNCHANGED <<users, lastKey, handed>>

\* INSERT ... ON CONFLICT DO NOTHING.  The foreign key refuses the statement
\* when the user is gone; the identity key is not looked at again.
UploadInsert(r) ==
  /\ req[r].pc = "insert"
  /\ users[req[r].user] # 0
  /\ lastId + Len(req[r].batch) <= MaxRow
  /\ otpk' = InsertRows(req[r])
  /\ lastId' = lastId + Len(req[r].batch)
  /\ req' = [req EXCEPT ![r] = Idle]
  /\ UNCHANGED <<users, lastKey, handed>>

-----------------------------------------------------------------------------
(* FETCH_PREKEY_BUNDLE *)

\* Mutant: the filter on the used column is forgotten.
AllRows(u) == {i \in DOMAIN otpk : otpk[i].user = u}

\* Rows a fetch may pick, and that CHECK_PREKEY_COUNT and REPLENISH_PREKEYS
\* count for the owner.
Unused(u) == {i \in DOMAIN otpk : otpk[i].user = u /\ ~otpk[i].used}

\* SELECT the requester and verify its signature.
FetchVerify(r, u, target) ==
  /\ req[r] = Idle
  /\ users[u] # 0
  /\ req' = [req EXCEPT ![r] = [pc |-> "target", target |-> target]]
  /\ UNCHANGED <<users, lastKey, otpk, lastId, handed>>

\* SELECT the target and decode its bundle.
FetchTarget(r) ==
  /\ req[r].pc = "target"
  /\ users[req[r].target] # 0
  /\ req' = [req EXCEPT ![r] = [pc |-> "pick", target |-> req[r].target,
                                bundle |-> users[req[r].target]]]
  /\ UNCHANGED <<users, lastKey, otpk, lastId, handed>>

\* SELECT the first unused row; without one the bundle goes out bare.
FetchPick(r) ==
  /\ req[r].pc = "pick"
  /\ LET q    == req[r]
         pool == Unused(q.target)
     IN  \/ /\ pool = {}
            /\ req' = [req EXCEPT ![r] = [pc |-> "reply", bundle |-> q.bundle,
                                          row |-> NoRow, key |-> q.bundle]]
         \/ \E i \in pool :
              /\ \A j \in pool : i <= j
              /\ req' = [req EXCEPT ![r] =
                           [pc |-> "mark", target |-> q.target,
                            bundle |-> q.bundle, row |-> i, key |-> otpk[i].key]]
  /\ UNCHANGED <<users, lastKey, otpk, lastId, handed>>

\* Mutant: the UPDATE is forgotten.
NotMarked(i) == otpk

\* The table after UPDATE ... SET used = true WHERE id = row (no row is hit
\* when the account was deleted meanwhile; that is not an error).
Marked(i) == [j \in DOMAIN otpk |->
                IF j = i THEN [otpk[j] EXCEPT !.used = TRUE] ELSE otpk[j]]

\* The UPDATE succeeds and the bundle goes out with the picked prekey.
FetchMark(r) ==
  /\ req[r].pc = "mark"
  /\ otpk' = Marked(req[r].row)
  /\ req' = [req EXCEPT ![r] = [pc |-> "reply", bundle |-> req[r].bundle,
                                row |-> req[r].row, key |-> req[r].key]]
  /\ handed' = [handed EXCEPT ![r][req[r].row] = @ + 1]
  /\ UNCHANGED <<users, lastKey, lastId>>

\* The UPDATE is applied but its outcome is lost (connection or process
\* failure): the handler returns an error and hands nothing out.
FetchMarkLost(r) ==
  /\ req[r].pc = "mark"
  /\ otpk' = Marked(req[r].row)
  /\ req' = [req EXCEPT ![r] = Idle]
  /\ UNCHANGED <<users, lastKey, lastId, handed>>

\* A request ends: its response was sent, or a statement failed, or the user
\* it needs is not found, or its server stopped.
Finish(r) == /\ req[r] # Idle
             /\ req' = [req EXCEPT ![r] = Idle]
             /\ UNCHANGED <<users, lastKey, otpk, lastId, handed>>

-----------------------------------------------------------------------------
Next == \/ \E u \in Users : Register(u) \/ RecoveryClaim(u) \/ DeleteUser(u)
        \/ \E r \in Requests :
             \/ \E u \in Users, b \in Batches :
                  UploadVerify(r, u, b) \/ ReplenishVerify(r, u, b)
             \/ UploadInsert(r)
             \/ \E u, t \in Users : FetchVerify(r, u, t)
             \/ FetchTarget(r)
             \/ FetchPick(r)
             \/ FetchMark(r)
             \/ FetchMarkLost(r)
             \/ Finish(r)

Spec == Init /\ [][Next]_vars

-----------------------------------------------------------------------------
(* Properties *)

\* A prekey a fetch may pick, and that the owner is told is left, was never
\* handed out: handing out and marking cannot come apart, whatever fails.
UnusedNeverHanded == \A i \in DOMAIN otpk : ~otpk[i].used =>
                        \A r \in Requests : handed[r][i] = 0

\* Fetches that follow each other never share a prekey: one slot hands a row
\* out at most once, so a prekey reaches two requesters only through two
\* fetches in flight at the same time.
OncePerSlot == \A r \in Requests, i \in RowIds : handed[r][i] <= 1

\* UNIQUE (user_hash_id, prekey_id): a retried or concurrent upload never
\* leaves two rows for one prekey of one account.
PrekeyUnique == \A i, j \in DOMAIN otpk :
                  (otpk[i].user = otpk[j].user /\ otpk[i].prekey = otpk[j].prekey)
                     => i = j

\* Prekeys of u that were consumed.
UsedPrekeys(u) == {otpk[i].prekey : i \in {j \in DOMAIN otpk :
                                           otpk[j].user = u /\ otpk[j].used}}

\* A consumed prekey stays consumed as long as its account is not deleted,
\* even when the client uploads the same prekey_id again (a retry).
NoRearm == [][\A u \in Users : users'[u] # 0 =>
                 UsedPrekeys(u) \subseteq UsedPrekeys(u)']_vars

\* The pool a table is, seen through its requests: a row is available while it
\* is unused, and from the SELECT that picks it until the UPDATE or the end of
\* the fetch.
Available == {i \in DOMAIN otpk : ~otpk[i].used}
               \cup {req[r].row : r \in {s \in Requests : req[s].pc = "mark"}}
Given     == [i \in RowIds |-> handed[CHOOSE r \in Requests : TRUE][i]]

\* With one request at a time the table is a one-time pool.
Pool == INSTANCE OneTimePool WITH Keys <- RowIds, available <- Available, given <- Given
PoolSpec == Pool!PoolSpec

\* README.md:96, "Prekeys à usage unique": no prekey reaches two requesters.
SingleUse == \A i \in RowIds, r, s \in Requests :
               (handed[r][i] > 0 /\ handed[s][i] > 0) => r = s
=============================================================================
