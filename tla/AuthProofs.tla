----------------------------- MODULE AuthProofs -----------------------------
(***************************************************************************)
(* Proofs about Auth, for any members, requests, accounts and devices.     *)
(***************************************************************************)
EXTENDS Auth, FiniteSetTheorems, TLAPS

-----------------------------------------------------------------------------
(* What the constants give.                                                *)

LEMMA AccountType ==
    ASSUME NEW a \in Accounts
    PROVE  a = [email |-> a.email, password |-> a.password]
           /\ a.email \in Emails /\ a.password \in Passwords
BY AuthAssumption DEF Emails, Passwords

LEMMA RowType ==
    ASSUME NEW r \in Requests, account[r] \in Accounts
    PROVE  /\ UserRow(r) \in [id : UserIds, email : Emails, password : Passwords]
           /\ Email(r) \in Emails
           /\ UserRow(r).id = r /\ UserRow(r).email = Email(r)
           /\ UserRow(r).password = account[r].password
BY AccountType DEF UserRow, Email, UserIds

\* What a row of the table is.
LEMMA RowsType ==
    ASSUME AuthTypeOK, NEW i \in DOMAIN users
    PROVE  users[i].id \in UserIds /\ users[i].email \in Emails
<1>. DEFINE Row == [id : UserIds, email : Emails, password : Passwords]
<1>1. users \in Seq(Row)
    BY DEF AuthTypeOK
<1>2. users[i] \in Row
    <2>. HIDE DEF Row
    <2>. QED BY <1>1
<1>. QED BY <1>2

-----------------------------------------------------------------------------
(* Types.                                                                  *)

LEMMA TypeNext ==
    ASSUME AuthInv, [AuthNext]_authVars
    PROVE  AuthTypeOK'
<1>. USE DEF AuthTypeOK, AuthLabels, AuthReplies, tables, At, Goto, Answer
<1>1. AuthTypeOK
    BY DEF AuthInv
<1>2. ASSUME NEW r \in Requests, Ask(r) PROVE AuthTypeOK'
    BY <1>1, <1>2 DEF Ask
<1>3. ASSUME NEW r \in Requests, AskDevice(r) PROVE AuthTypeOK'
    BY <1>1, <1>3 DEF AskDevice
<1>4. ASSUME NEW r \in Requests, RefuseKnown(r) \/ LookupEmail(r) \/ RefuseTaken(r)
                                    \/ RefuseLogin(r)
      PROVE AuthTypeOK'
    BY <1>1, <1>4 DEF RefuseKnown, LookupEmail, RefuseTaken, RefuseLogin
<1>5. ASSUME NEW r \in Requests, InsertUser(r) PROVE AuthTypeOK'
    BY <1>1, <1>5 DEF InsertUser
<1>6. ASSUME NEW r \in Requests, CommitUser(r) PROVE AuthTypeOK'
    <2>1. UserRow(r) \in [id : UserIds, email : Emails, password : Passwords]
        BY <1>6, RowType DEF CommitUser, AuthInv, AuthStageOK
    <2>2. r \in UserIds
        BY DEF UserIds
    <2>3. users' \in Seq([id : UserIds, email : Emails, password : Passwords])
        BY <1>1, <1>6, <2>1 DEF CommitUser
    <2>4. owners' \in Seq(UserIds)
        BY <1>1, <1>6, <2>2 DEF CommitUser, NewWallets
    <2>5. claim' \in [Emails -> Requests \cup {None}]
        BY <1>1, <1>6 DEF CommitUser, Released
    <2>6. /\ pc' \in [Requests -> AuthLabels] /\ reply' \in [Requests -> AuthReplies]
          /\ tokens' \in SUBSET UserIds
          /\ UNCHANGED <<deviceKeys, account, device>>
        BY <1>1, <1>6, <2>2 DEF CommitUser
    <2>. QED BY <1>1, <2>3, <2>4, <2>5, <2>6
<1>7. ASSUME NEW r \in Requests, Login(r) PROVE AuthTypeOK'
    <2>1. PICK i \in DOMAIN users : tokens' = tokens \cup {users[i].id}
        BY <1>7 DEF Login, Matches
    <2>2. users[i].id \in UserIds
        BY <1>1, RowsType
    <2>3. tokens' \in SUBSET UserIds
        BY <1>1, <2>1, <2>2
    <2>. QED BY <1>1, <1>7, <2>3 DEF Login
<1>8. ASSUME NEW r \in Requests, SaveDeviceKey(r) PROVE AuthTypeOK'
    <2>1. device[r] \in [user : Ids, key : Devices]
        BY <1>8 DEF SaveDeviceKey, AuthInv, AuthStageOK
    <2>2. device[r].user \in UserIds /\ device[r].key \in Devices
        <3>1. Ids \subseteq UserIds
            BY <1>1, RowsType DEF Ids
        <3>. QED BY <2>1, <3>1
    <2>. QED BY <1>1, <1>8, <2>2 DEF SaveDeviceKey, KeyOwner
<1>9. ASSUME NEW r \in Requests, FailAuth(r) PROVE AuthTypeOK'
    BY <1>1, <1>9 DEF FailAuth, Released
<1>10. ASSUME NEW u \in tokens, ExpireToken(u) PROVE AuthTypeOK'
    BY <1>1, <1>10 DEF ExpireToken
<1>11. CASE UNCHANGED authVars
    BY <1>1, <1>11 DEF authVars
<1>. QED BY <1>2, <1>3, <1>4, <1>5, <1>6, <1>7, <1>8, <1>9, <1>10, <1>11
        DEF AuthNext, AuthStep, AuthDone

-----------------------------------------------------------------------------
(* Steps that leave the users alone.                                       *)

\* A request that does nothing stays where it is, if the emails that others
\* claim or give up are not its own.
LEMMA StageKept ==
    ASSUME NEW q \in Requests, AuthStageOK(q),
           UNCHANGED <<users, pc[q], reply[q], account[q], device[q]>>,
           pc[q] = "commit" => claim'[Email(q)] = claim[Email(q)]
    PROVE  AuthStageOK(q)'
BY DEF AuthStageOK, Email, UserRow, Ids

\* A step of request r that changes neither users nor wallets.
LEMMA QuietStep ==
    ASSUME AuthInv, AuthTypeOK', NEW r \in Requests,
           UNCHANGED <<users, owners>>,
           \A q \in Requests \ {r} :
               UNCHANGED <<pc[q], reply[q], account[q], device[q]>>,
           \A q \in Requests \ {r} : pc[q] = "commit" => claim'[Email(q)] = claim[Email(q)],
           ClaimsOK',
           tokens' \subseteq Ids,
           \A d \in Devices : deviceKeys'[d] \in Ids \cup {None},
           AuthStageOK(r)'
    PROVE  AuthInv'
<1>1. Ids' = Ids
    BY DEF Ids
<1>2. \A q \in Requests : AuthStageOK(q)'
    BY StageKept DEF AuthInv
<1>3. RowsOK'
    BY DEF AuthInv, RowsOK
<1>4. /\ tokens' \subseteq Ids'
      /\ \A d \in Devices : deviceKeys'[d] \in Ids' \cup {None}
    BY <1>1
<1>. QED BY <1>2, <1>3, <1>4 DEF AuthInv

\* A step of request r that leaves the claims alone, too, and is not its commit.
LEMMA PlainStep ==
    ASSUME AuthInv, AuthTypeOK', NEW r \in Requests, pc[r] # "commit",
           UNCHANGED <<users, owners, claim>>,
           \A q \in Requests \ {r} :
               UNCHANGED <<pc[q], reply[q], account[q], device[q]>>,
           tokens' \subseteq Ids,
           \A d \in Devices : deviceKeys'[d] \in Ids \cup {None},
           AuthStageOK(r)'
    PROVE  AuthInv'
<1>1. ClaimsOK'
    <2>1. SUFFICES ASSUME NEW e \in Emails, claim[e] # None
                   PROVE  ~EmailTaken(e)' /\ pc'[claim[e]] = "commit" /\ account'[claim[e]].email = e
        BY DEF ClaimsOK, Email
    <2>2. /\ ~EmailTaken(e) /\ pc[claim[e]] = "commit" /\ account[claim[e]].email = e
          /\ claim[e] \in Requests \ {r}
        BY <2>1 DEF AuthInv, AuthTypeOK, ClaimsOK, Email
    <2>. QED BY <2>2 DEF EmailTaken, Registered
<1>2. \A q \in Requests \ {r} : pc[q] = "commit" => claim'[Email(q)] = claim[Email(q)]
    OBVIOUS
<1>. QED BY <1>1, <1>2, QuietStep

-----------------------------------------------------------------------------
(* The steps.                                                              *)

LEMMA AskStep ==
    ASSUME AuthInv, AuthTypeOK', NEW r \in Requests, Ask(r) \/ AskDevice(r)
    PROVE  AuthInv'
<1>. USE DEF At, Goto, tables
<1>1. pc[r] = "idle" /\ AuthStageOK(r) /\ AuthTypeOK /\ tokens \subseteq Ids
    BY DEF AuthInv, Ask, AskDevice
<1>2. AuthStageOK(r)'
    <2>1. CASE Ask(r)
        BY <1>1, <2>1 DEF Ask, AuthStageOK, AuthTypeOK, Ids
    <2>2. CASE AskDevice(r)
        <3>1. PICK u \in tokens, d \in Devices :
                device' = [device EXCEPT ![r] = [user |-> u, key |-> d]]
            BY <2>2 DEF AskDevice
        <3>2. device'[r] = [user |-> u, key |-> d] /\ u \in Ids /\ u \in UserIds
            BY <1>1, <3>1 DEF AuthTypeOK
        <3>. QED BY <1>1, <2>2, <3>2 DEF AskDevice, AuthStageOK, AuthTypeOK, Ids
    <2>. QED BY <2>1, <2>2
<1>3. /\ UNCHANGED <<users, owners, claim, tokens, deviceKeys>>
      /\ \A q \in Requests \ {r} : UNCHANGED <<pc[q], reply[q], account[q], device[q]>>
    BY <1>1 DEF Ask, AskDevice, AuthTypeOK
<1>. QED BY <1>1, <1>2, <1>3, PlainStep DEF AuthInv

\* The refusals, the look-up and the logins.
LEMMA AnswerStep ==
    ASSUME AuthInv, AuthTypeOK', NEW r \in Requests,
           RefuseKnown(r) \/ LookupEmail(r) \/ RefuseTaken(r) \/ Login(r) \/ RefuseLogin(r)
    PROVE  AuthInv'
<1>. USE DEF At, Goto, Answer, tables
<1>1. pc[r] \in {"lookup", "insert", "login"} /\ AuthStageOK(r) /\ AuthTypeOK
    BY DEF AuthInv, RefuseKnown, LookupEmail, RefuseTaken, Login, RefuseLogin
<1>2. /\ UNCHANGED <<users, owners, claim, deviceKeys, account, device>>
      /\ \A q \in Requests \ {r} : UNCHANGED <<pc[q], reply[q], account[q], device[q]>>
      /\ pc'[r] \in {"insert", "done"}
      /\ reply'[r] # "registered"
      /\ pc'[r] # "done" => reply'[r] = reply[r]
    BY <1>1 DEF RefuseKnown, LookupEmail, RefuseTaken, Login, RefuseLogin, AuthTypeOK, AuthStageOK
<1>3. tokens' \subseteq Ids
    BY DEF AuthInv, RefuseKnown, LookupEmail, RefuseTaken, Login, RefuseLogin, Matches, Ids
<1>4. AuthStageOK(r)'
    BY <1>1, <1>2 DEF AuthStageOK, Ids
<1>. QED BY <1>1, <1>2, <1>3, <1>4, PlainStep DEF AuthInv

\* The insert claims an email that nobody has and nobody claims.
LEMMA InsertStep ==
    ASSUME AuthInv, AuthTypeOK', NEW r \in Requests, InsertUser(r)
    PROVE  AuthInv'
<1>. USE DEF At, Goto, tables, InsertUser
<1>1. AuthTypeOK /\ ClaimsOK /\ AuthStageOK(r) /\ account[r] \in Accounts /\ Email(r) \in Emails
    BY RowType DEF AuthInv, AuthStageOK
<1>2. /\ claim' = [claim EXCEPT ![Email(r)] = r] /\ claim[Email(r)] = None
      /\ pc[r] = "insert" /\ pc'[r] = "commit" /\ r # None
      /\ UNCHANGED <<users, owners, deviceKeys, tokens, reply, account, device>>
      /\ \A q \in Requests \ {r} : UNCHANGED <<pc[q], reply[q], account[q], device[q]>>
    BY <1>1, AuthAssumption DEF AuthTypeOK
<1>3. \A q \in Requests \ {r} : pc[q] = "commit" => claim'[Email(q)] = claim[Email(q)]
    BY <1>1, <1>2, AuthAssumption DEF AuthInv, AuthStageOK, AuthTypeOK
<1>4. ClaimsOK'
    <2>1. SUFFICES ASSUME NEW e \in Emails, claim'[e] # None
                   PROVE  ~EmailTaken(e)' /\ pc'[claim'[e]] = "commit"
                          /\ account'[claim'[e]].email = e
        BY DEF ClaimsOK, Email
    <2>2. CASE e = Email(r)
        BY <1>1, <1>2, <2>2 DEF AuthTypeOK, EmailTaken, Registered, Email
    <2>3. CASE e # Email(r)
        <3>1. claim'[e] = claim[e] /\ claim[e] \in Requests
            BY <1>1, <1>2, <2>1, <2>3 DEF AuthTypeOK
        <3>2. ~EmailTaken(e) /\ pc[claim[e]] = "commit" /\ account[claim[e]].email = e
            BY <1>1, <2>1, <3>1 DEF ClaimsOK, Email
        <3>. QED BY <1>2, <3>1, <3>2 DEF EmailTaken, Registered
    <2>. QED BY <2>2, <2>3
<1>5. AuthStageOK(r)'
    <2>1. claim'[Email(r)] = r
        BY <1>1, <1>2 DEF AuthTypeOK
    <2>. QED BY <1>1, <1>2, <2>1 DEF AuthStageOK, Email, Ids
<1>. QED BY <1>2, <1>3, <1>4, <1>5, QuietStep DEF AuthInv

\* A failure gives up the email that the request had claimed, and no other.
LEMMA FailStep ==
    ASSUME AuthInv, AuthTypeOK', NEW r \in Requests, FailAuth(r)
    PROVE  AuthInv'
<1>. USE DEF At, Goto, Answer, tables, FailAuth
<1>1. AuthTypeOK /\ ClaimsOK /\ AuthStageOK(r)
    BY DEF AuthInv
<1>2. /\ claim' = [e \in Emails |-> IF claim[e] = r THEN None ELSE claim[e]]
      /\ pc[r] # "done" /\ pc'[r] = "done" /\ reply'[r] = "error"
      /\ UNCHANGED <<users, owners, deviceKeys, tokens, account, device>>
      /\ \A q \in Requests \ {r} : UNCHANGED <<pc[q], reply[q], account[q], device[q]>>
    BY <1>1 DEF AuthTypeOK, Released, Running
<1>3. \A q \in Requests \ {r} : pc[q] = "commit" => claim'[Email(q)] = claim[Email(q)]
    <2>1. SUFFICES ASSUME NEW q \in Requests \ {r}, pc[q] = "commit"
                   PROVE  claim'[Email(q)] = claim[Email(q)]
        OBVIOUS
    <2>2. claim[Email(q)] = q /\ Email(q) \in Emails
        BY <2>1, RowType DEF AuthInv, AuthStageOK
    <2>. QED BY <1>2, <2>2
<1>4. ClaimsOK'
    <2>1. SUFFICES ASSUME NEW e \in Emails, claim'[e] # None
                   PROVE  ~EmailTaken(e)' /\ pc'[claim'[e]] = "commit"
                          /\ account'[claim'[e]].email = e
        BY DEF ClaimsOK, Email
    <2>2. claim[e] \in Requests \cup {None}
        BY <1>1 DEF AuthTypeOK
    <2>3. claim'[e] = IF claim[e] = r THEN None ELSE claim[e]
        BY <1>2
    <2>4. claim'[e] = claim[e] /\ claim[e] \in Requests \ {r}
        BY <2>1, <2>2, <2>3
    <2>5. ~EmailTaken(e) /\ pc[claim[e]] = "commit" /\ account[claim[e]].email = e
        BY <1>1, <2>1, <2>4 DEF ClaimsOK, Email
    <2>. QED BY <1>2, <2>4, <2>5 DEF EmailTaken, Registered
<1>5. AuthStageOK(r)'
    BY <1>1, <1>2 DEF AuthStageOK, Ids
<1>. QED BY <1>2, <1>3, <1>4, <1>5, QuietStep DEF AuthInv

\* A device key goes to the user of the token, who is in the table.
LEMMA SaveStep ==
    ASSUME AuthInv, AuthTypeOK', NEW r \in Requests, SaveDeviceKey(r)
    PROVE  AuthInv'
<1>. USE DEF At, Goto, Answer, tables, SaveDeviceKey
<1>1. AuthTypeOK /\ AuthStageOK(r) /\ pc[r] = "save"
      /\ device[r].user \in Ids /\ device[r].key \in Devices
    BY DEF AuthInv, AuthStageOK
<1>2. KeyOwner(r) \in Ids
    BY <1>1 DEF AuthInv, KeyOwner
<1>3. \A d \in Devices : deviceKeys'[d] \in Ids \cup {None}
    BY <1>1, <1>2 DEF AuthInv, AuthTypeOK
<1>4. /\ pc'[r] = "done" /\ reply'[r] \in {"saved", "error"}
      /\ UNCHANGED <<users, owners, claim, tokens, account, device>>
      /\ \A q \in Requests \ {r} : UNCHANGED <<pc[q], reply[q], account[q], device[q]>>
    BY <1>1 DEF AuthTypeOK
<1>5. AuthStageOK(r)'
    BY <1>1, <1>4 DEF AuthStageOK, Ids
<1>. QED BY <1>1, <1>3, <1>4, <1>5, PlainStep DEF AuthInv

\* A token expires.
LEMMA ExpireStep ==
    ASSUME AuthInv, AuthTypeOK', NEW u \in tokens, ExpireToken(u)
    PROVE  AuthInv'
<1>1. UNCHANGED <<users, owners, claim, deviceKeys, pc, reply, account, device>>
      /\ tokens' \subseteq tokens
    BY DEF ExpireToken, tables
<1>2. RowsOK' /\ Ids' = Ids
    BY <1>1 DEF AuthInv, RowsOK, Ids
<1>3. ClaimsOK'
    BY <1>1 DEF AuthInv, ClaimsOK, EmailTaken, Registered, Email
<1>4. \A q \in Requests : AuthStageOK(q)'
    BY <1>1 DEF AuthInv, AuthStageOK, Email, UserRow, Ids
<1>. QED BY <1>1, <1>2, <1>3, <1>4 DEF AuthInv

\* What the commit appends to the table.
LEMMA CommitRows ==
    ASSUME AuthInv, NEW r \in Requests, CommitUser(r)
    PROVE  /\ DOMAIN users' = DOMAIN users \cup {Len(users) + 1}
           /\ Len(users) + 1 \notin DOMAIN users
           /\ \A i \in DOMAIN users : users'[i] = users[i]
           /\ users'[Len(users) + 1] = UserRow(r)
           /\ UserRow(r).id = r /\ UserRow(r).email = Email(r)
           /\ Email(r) \in Emails /\ account[r] \in Accounts
           /\ Ids' = Ids \cup {r} /\ r \notin Ids
           /\ Registered' = Registered \cup {Email(r)} /\ ~EmailTaken(Email(r))
<1>1. account[r] \in Accounts /\ pc[r] = "commit" /\ claim[Email(r)] = r /\ r \notin Ids
    BY DEF AuthInv, AuthStageOK, CommitUser, At
<1>2. /\ UserRow(r).id = r /\ UserRow(r).email = Email(r) /\ Email(r) \in Emails
      /\ UserRow(r) \in [id : UserIds, email : Emails, password : Passwords]
    BY <1>1, RowType
<1>3. users' = Append(users, UserRow(r))
      /\ users \in Seq([id : UserIds, email : Emails, password : Passwords])
    BY DEF CommitUser, AuthInv, AuthTypeOK
<1>4. /\ DOMAIN users' = DOMAIN users \cup {Len(users) + 1}
      /\ Len(users) + 1 \notin DOMAIN users
      /\ \A i \in DOMAIN users : users'[i] = users[i]
      /\ users'[Len(users) + 1] = UserRow(r)
    <2>. DEFINE Row == [id : UserIds, email : Emails, password : Passwords]
    <2>1. UserRow(r) \in Row /\ users \in Seq(Row) /\ users' = Append(users, UserRow(r))
        BY <1>2, <1>3
    <2>. HIDE DEF Row
    <2>. QED BY <2>1
<1>5. Ids' = Ids \cup {r}
    BY <1>2, <1>4 DEF Ids
<1>6. Registered' = Registered \cup {Email(r)}
    BY <1>2, <1>4 DEF Registered
<1>7. ~EmailTaken(Email(r))
    BY <1>1, <1>2, AuthAssumption DEF AuthInv, ClaimsOK
<1>. QED BY <1>1, <1>2, <1>4, <1>5, <1>6, <1>7

\* The commit gives a new id and an email that only it has claimed.
LEMMA CommitStep ==
    ASSUME AuthInv, AuthTypeOK', NEW r \in Requests, CommitUser(r)
    PROVE  AuthInv'
<1>. DEFINE n == Len(users) + 1
<1>1. AuthTypeOK /\ ClaimsOK /\ RowsOK /\ AuthStageOK(r) /\ pc[r] = "commit"
    BY DEF AuthInv, CommitUser, At
<1>2. /\ DOMAIN users' = DOMAIN users \cup {n} /\ n \notin DOMAIN users
      /\ \A i \in DOMAIN users : users'[i] = users[i]
      /\ users'[n] = UserRow(r) /\ UserRow(r).id = r /\ UserRow(r).email = Email(r)
      /\ account[r] \in Accounts
      /\ Ids' = Ids \cup {r} /\ r \notin Ids
      /\ Registered' = Registered \cup {Email(r)} /\ Email(r) \notin Registered
    BY CommitRows DEF EmailTaken
<1>3. /\ claim' = [e \in Emails |-> IF claim[e] = r THEN None ELSE claim[e]]
      /\ pc'[r] = "done" /\ tokens' \subseteq tokens \cup {r}
      /\ UNCHANGED <<deviceKeys, account, device>>
      /\ \A q \in Requests \ {r} : UNCHANGED <<pc[q], reply[q]>>
    BY <1>1 DEF AuthTypeOK, CommitUser, Released, Goto, Answer
<1>4. RowsOK'
    <2>1. \A i, j \in DOMAIN users' :
            users'[i].id = users'[j].id \/ users'[i].email = users'[j].email => i = j
        <3>1. \A i \in DOMAIN users : users[i].id # r /\ users[i].email # Email(r)
            BY <1>2 DEF Ids, Registered
        <3>. QED BY <1>1, <1>2, <3>1 DEF RowsOK
    <2>2. owners' = [k \in DOMAIN users' |-> users'[k].id]
        <3>1. owners' = owners \o <<r>> /\ users \in Seq([id : UserIds, email : Emails, password : Passwords])
            BY <1>1 DEF CommitUser, NewWallets, AuthTypeOK
        <3>2. owners \in Seq(UserIds) /\ DOMAIN owners = DOMAIN users
              /\ \A k \in DOMAIN users : owners[k] = users[k].id
            BY <1>1 DEF RowsOK, AuthTypeOK
        <3>3. Len(owners) = Len(users)
            BY <3>1, <3>2
        <3>4. DOMAIN owners' = DOMAIN owners \cup {n} /\ owners'[n] = r
              /\ \A k \in DOMAIN owners : owners'[k] = owners[k]
            BY <3>1, <3>2, <3>3
        <3>5. owners' = [k \in DOMAIN owners' |-> owners'[k]]
            BY <3>1, <3>2
        <3>. QED BY <1>2, <3>2, <3>4, <3>5
    <2>. QED BY <2>1, <2>2 DEF RowsOK
<1>5. ClaimsOK'
    <2>1. SUFFICES ASSUME NEW e \in Emails, claim'[e] # None
                   PROVE  e \notin Registered' /\ pc'[claim'[e]] = "commit"
                          /\ account'[claim'[e]].email = e
        BY DEF ClaimsOK, EmailTaken, Email
    <2>2. claim'[e] = claim[e] /\ claim[e] \in Requests \ {r}
        BY <1>1, <1>3, <2>1 DEF AuthTypeOK
    <2>3. e \notin Registered /\ pc[claim[e]] = "commit" /\ account[claim[e]].email = e
        BY <1>1, <2>1, <2>2 DEF ClaimsOK, EmailTaken, Email
    <2>4. e # Email(r)
        BY <1>1, <2>2 DEF AuthStageOK
    <2>. QED BY <1>2, <1>3, <2>2, <2>3, <2>4
<1>6. tokens' \subseteq Ids' /\ \A d \in Devices : deviceKeys'[d] \in Ids' \cup {None}
    BY <1>2, <1>3 DEF AuthInv
<1>7. ASSUME NEW q \in Requests PROVE AuthStageOK(q)'
    <2>1. CASE q = r
        <3>1. reply'[r] = "registered" => \E i \in DOMAIN users' : users'[i] = UserRow(r)'
            BY <1>2, <1>3 DEF UserRow, Email
        <3>. QED BY <1>2, <1>3, <2>1, <3>1 DEF AuthStageOK
    <2>2. CASE q # r
        <3>1. AuthStageOK(q) /\ UNCHANGED <<pc[q], reply[q], account[q], device[q]>>
            BY <1>3, <2>2 DEF AuthInv
        <3>2. pc'[q] = "commit" => claim'[Email(q)] = q
            BY <1>1, <1>3, <2>2, <3>1, RowType DEF AuthStageOK
        <3>3. q \notin Ids => q \notin Ids'
            BY <1>2, <2>2
        <3>4. reply'[q] = "registered" => \E i \in DOMAIN users' : users'[i] = UserRow(q)'
            BY <1>2, <3>1 DEF AuthStageOK, UserRow, Email
        <3>. QED BY <1>2, <3>1, <3>2, <3>3, <3>4 DEF AuthStageOK, Email
    <2>. QED BY <2>1, <2>2
<1>. QED BY <1>4, <1>5, <1>6, <1>7 DEF AuthInv

-----------------------------------------------------------------------------
(* The inductive invariant and what follows from it.                       *)

LEMMA InvInit ==
    ASSUME AuthInit
    PROVE  AuthInv
<1>. USE AuthAssumption DEF AuthInit
<1>1. AuthTypeOK
    <2>1. users \in Seq([id : UserIds, email : Emails, password : Passwords])
        BY DEF UserIds
    <2>2. owners \in Seq(UserIds)
        BY DEF UserIds, MemberIds
    <2>. QED BY <2>1, <2>2 DEF AuthTypeOK, AuthLabels, AuthReplies, UserIds
<1>2. Ids = MemberIds
    BY DEF Ids, MemberIds
<1>3. \A r \in Requests : r \notin Ids
    BY <1>2 DEF MemberIds
<1>. QED BY <1>1, <1>2, <1>3 DEF AuthInv, RowsOK, ClaimsOK, AuthStageOK

LEMMA InvNext ==
    ASSUME AuthInv, [AuthNext]_authVars
    PROVE  AuthInv'
<1>1. AuthTypeOK'
    BY TypeNext
<1>2. ASSUME NEW r \in Requests, Ask(r) \/ AskDevice(r) \/ AuthStep(r) \/ FailAuth(r)
      PROVE  AuthInv'
    BY <1>1, <1>2, AskStep, AnswerStep, InsertStep, CommitStep, SaveStep, FailStep
    DEF AuthStep
<1>3. ASSUME NEW u \in tokens, ExpireToken(u) PROVE AuthInv'
    BY <1>1, <1>3, ExpireStep
<1>4. CASE UNCHANGED authVars
    BY <1>4 DEF authVars, AuthInv, AuthTypeOK, RowsOK, ClaimsOK, AuthStageOK, Ids,
                EmailTaken, Registered, Email, UserRow
<1>. QED BY <1>2, <1>3, <1>4 DEF AuthNext, AuthDone

\* Every reachable state of registration, login and the device keys satisfies
\* the inductive invariant, for any members, accounts, devices and requests.
THEOREM AuthInvariant == AuthSpec => []AuthInv
<1>1. AuthInit => AuthInv
    BY InvInit
<1>2. AuthInv /\ [AuthNext]_authVars => AuthInv'
    BY InvNext
<1>. QED BY <1>1, <1>2, PTL DEF AuthSpec

\* Every variable keeps its type; a wallet refers to the id of a user.
THEOREM AuthTypes == AuthSpec => []AuthTypeOK
<1>1. AuthInv => AuthTypeOK
    BY DEF AuthInv
<1>. QED BY <1>1, AuthInvariant, PTL

\* Whoever is told "registered" has the only account under the email, with the
\* password given, although the email is looked up long before it is inserted.
THEOREM RegistrationIsSound == AuthSpec => []RegisteredOwnsEmail
<1>1. AuthInv => RegisteredOwnsEmail
    <2>1. SUFFICES ASSUME AuthInv, NEW r \in Requests, reply[r] = "registered",
                          NEW i \in DOMAIN users, users[i].email = Email(r)
                   PROVE  users[i].id = r /\ users[i].password = account[r].password
        BY DEF RegisteredOwnsEmail
    <2>2. PICK j \in DOMAIN users : users[j] = UserRow(r)
        BY <2>1 DEF AuthInv, AuthStageOK
    <2>3. i = j
        BY <2>1, <2>2 DEF AuthInv, RowsOK, UserRow
    <2>. QED BY <2>2, <2>3 DEF UserRow
<1>. QED BY <1>1, AuthInvariant, PTL

\* Everybody who can hold a token or has a row has exactly one wallet.
THEOREM WalletsComeWithUsers == AuthSpec => []WalletForEveryUser
<1>1. AuthInv => WalletForEveryUser
    <2>1. SUFFICES ASSUME AuthInv, NEW u \in Ids \cup tokens
                   PROVE  Cardinality({k \in DOMAIN owners : owners[k] = u}) = 1
        BY DEF WalletForEveryUser
    <2>2. PICK i \in DOMAIN users : users[i].id = u
        BY <2>1 DEF AuthInv, Ids
    <2>3. {k \in DOMAIN owners : owners[k] = u} = {i}
        BY <2>1, <2>2 DEF AuthInv, RowsOK
    <2>. QED BY <2>3, FS_Singleton
<1>. QED BY <1>1, AuthInvariant, PTL

\* A device key that somebody has keeps its user, whoever registers it again.
THEOREM DeviceKeyIsKept == AuthSpec => DeviceKeepsUser
<1>1. AuthInv /\ [AuthNext]_authVars =>
        [\A d \in Devices : deviceKeys[d] # None => deviceKeys'[d] = deviceKeys[d]]_authVars
    <2>1. SUFFICES ASSUME AuthInv, AuthNext, NEW d \in Devices, deviceKeys[d] # None
                   PROVE  deviceKeys'[d] = deviceKeys[d]
        OBVIOUS
    <2>2. ASSUME NEW r \in Requests, SaveDeviceKey(r) PROVE deviceKeys'[d] = deviceKeys[d]
        BY <2>1, <2>2 DEF SaveDeviceKey, KeyOwner, AuthInv, AuthTypeOK
    <2>3. ASSUME ~\E r \in Requests : SaveDeviceKey(r) PROVE UNCHANGED deviceKeys
        BY <2>1, <2>3 DEF AuthNext, AuthStep, AuthDone, authVars, tables, Ask, AskDevice,
            RefuseKnown, LookupEmail, InsertUser, RefuseTaken, CommitUser, Login,
            RefuseLogin, FailAuth, ExpireToken
    <2>. QED BY <2>2, <2>3
<1>. QED BY <1>1, AuthInvariant, PTL DEF AuthSpec, DeviceKeepsUser

-----------------------------------------------------------------------------
(* The refinement.                                                         *)

\* The tables as the directory sees them.
GivenHere == {<<users[i].email, users[i].id>> : i \in DOMAIN users}
KeysHere  == {<<d, deviceKeys[d]>> : d \in {c \in Devices : deviceKeys[c] # None}}

\* Everybody in the table has a wallet, and nobody else.
LEMMA PursesAreIds ==
    ASSUME AuthInv
    PROVE  {owners[k] : k \in DOMAIN owners} = Ids
BY DEF AuthInv, RowsOK, Ids

\* The commit of a registration is the abstract step that gives an email.
LEMMA CommitJoins ==
    ASSUME AuthInv, AuthInv', NEW r \in Requests, CommitUser(r)
    PROVE  [AuthDirectory!DirNext]_(AuthDirectory!dirVars)
<1>. DEFINE n == Len(users) + 1
<1>1. /\ DOMAIN users' = DOMAIN users \cup {n} /\ n \notin DOMAIN users
      /\ \A i \in DOMAIN users : users'[i] = users[i]
      /\ users'[n] = UserRow(r) /\ UserRow(r).id = r /\ UserRow(r).email = Email(r)
      /\ Ids' = Ids \cup {r} /\ r \notin Ids
      /\ Email(r) \notin Registered
    BY CommitRows DEF EmailTaken
<1>2. GivenHere' = GivenHere \cup {<<Email(r), r>>}
    BY <1>1 DEF GivenHere
<1>3. ~AuthDirectory!Taken(GivenHere, Email(r))
    BY <1>1 DEF AuthDirectory!Taken, GivenHere, Registered
<1>4. /\ r \notin {owners[k] : k \in DOMAIN owners}
      /\ {owners'[k] : k \in DOMAIN owners'} = {owners[k] : k \in DOMAIN owners} \cup {r}
    <2>1. {owners'[k] : k \in DOMAIN owners'} = Ids'
        BY DEF AuthInv, RowsOK, Ids
    <2>. QED BY <1>1, <2>1, PursesAreIds
<1>5. KeysHere' = KeysHere
    BY DEF CommitUser, KeysHere
<1>. PICK e \in Emails : e = Email(r)
    BY CommitRows
<1>6. AuthDirectory!Join(e, r)
    BY <1>2, <1>3, <1>4, <1>5 DEF AuthDirectory!Join, GivenHere, KeysHere
<1>. QED BY <1>6 DEF AuthDirectory!DirNext, UserIds

\* A device key that is saved is given to its user, or it had one already.
LEMMA SaveGives ==
    ASSUME AuthInv, NEW r \in Requests, SaveDeviceKey(r)
    PROVE  [AuthDirectory!DirNext]_(AuthDirectory!dirVars)
<1>1. device[r].key \in Devices /\ device[r].user \in Ids /\ device[r].user \in UserIds
      /\ deviceKeys \in [Devices -> UserIds \cup {None}]
    <2>1. pc[r] = "save" /\ AuthTypeOK /\ AuthStageOK(r)
        BY DEF AuthInv, SaveDeviceKey, At
    <2>2. device[r] \in [user : Ids, key : Devices]
        BY <2>1 DEF AuthStageOK
    <2>3. Ids \subseteq UserIds
        BY <2>1, RowsType DEF Ids
    <2>4. deviceKeys \in [Devices -> UserIds \cup {None}]
        BY <2>1 DEF AuthTypeOK
    <2>. QED BY <2>2, <2>3, <2>4
<1>. PICK d \in Devices, u \in UserIds : d = device[r].key /\ u = device[r].user
    BY <1>1
<1>2. deviceKeys' = [deviceKeys EXCEPT ![d] = KeyOwner(r)] /\ UNCHANGED <<users, owners>>
    BY DEF SaveDeviceKey
<1>3. CASE deviceKeys[d] = None /\ u # None
    <2>1. deviceKeys' = [deviceKeys EXCEPT ![d] = u]
        BY <1>2, <1>3 DEF KeyOwner
    <2>2. KeysHere' = KeysHere \cup {<<d, u>>}
        BY <1>1, <1>3, <2>1 DEF KeysHere
    <2>3. ~AuthDirectory!Taken(KeysHere, d)
        BY <1>3 DEF AuthDirectory!Taken, KeysHere
    <2>4. u \in {owners[k] : k \in DOMAIN owners}
        BY <1>1, PursesAreIds
    <2>5. AuthDirectory!GiveKey(d, u)
        BY <1>2, <2>2, <2>3, <2>4 DEF AuthDirectory!GiveKey, KeysHere
    <2>. QED BY <2>5 DEF AuthDirectory!DirNext
<1>4. CASE ~(deviceKeys[d] = None /\ u # None)
    <2>1. UNCHANGED deviceKeys
        BY <1>1, <1>2, <1>4 DEF KeyOwner
    <2>. QED BY <1>2, <2>1 DEF AuthDirectory!dirVars
<1>. QED BY <1>3, <1>4

\* Registration, login and device keys implement the directory: an email and
\* its wallet come in one step or not at all, and a device key is given once.
THEOREM AuthRefinesDirectory == AuthSpec => AuthImplementsDirectory
<1>1. AuthInit => AuthDirectory!DirInit
    <2>1. SUFFICES ASSUME AuthInit PROVE AuthDirectory!DirInit
        OBVIOUS
    <2>2. AuthInv /\ KeysHere = {}
        BY <2>1, InvInit DEF AuthInit, KeysHere
    <2>3. GivenHere \subseteq Emails \X UserIds
        BY <2>2, RowsType DEF AuthInv, GivenHere
    <2>4. \A p, q \in GivenHere : p[1] = q[1] \/ p[2] = q[2] => p = q
        BY <2>2 DEF AuthInv, RowsOK, GivenHere
    <2>5. {p[2] : p \in GivenHere} = Ids
        <3>1. \A p \in GivenHere : p[2] \in Ids
            BY DEF GivenHere, Ids
        <3>2. \A i \in DOMAIN users : \E p \in GivenHere : p[2] = users[i].id
            <4>1. \A i \in DOMAIN users : <<users[i].email, users[i].id>> \in GivenHere
                BY DEF GivenHere
            <4>2. \A i \in DOMAIN users : <<users[i].email, users[i].id>>[2] = users[i].id
                OBVIOUS
            <4>. QED BY <4>1, <4>2
        <3>. QED BY <3>1, <3>2 DEF Ids
    <2>. QED BY <2>2, <2>3, <2>4, <2>5, PursesAreIds
            DEF AuthDirectory!DirInit, GivenHere, KeysHere
<1>2. AuthInv /\ AuthInv' /\ [AuthNext]_authVars =>
        [AuthDirectory!DirNext]_(AuthDirectory!dirVars)
    <2>1. SUFFICES ASSUME AuthInv, AuthInv', [AuthNext]_authVars
                   PROVE  [AuthDirectory!DirNext]_(AuthDirectory!dirVars)
        OBVIOUS
    <2>2. ASSUME NEW r \in Requests, CommitUser(r)
          PROVE  [AuthDirectory!DirNext]_(AuthDirectory!dirVars)
        BY <2>1, <2>2, CommitJoins
    <2>3. ASSUME NEW r \in Requests, SaveDeviceKey(r)
          PROVE  [AuthDirectory!DirNext]_(AuthDirectory!dirVars)
        BY <2>1, <2>3, SaveGives
    <2>4. CASE ~\E r \in Requests : CommitUser(r) \/ SaveDeviceKey(r)
        <3>1. UNCHANGED <<users, owners, deviceKeys>>
            BY <2>1, <2>4 DEF AuthNext, AuthStep, AuthDone, authVars, tables, Ask, AskDevice,
                RefuseKnown, LookupEmail, InsertUser, RefuseTaken, Login, RefuseLogin,
                FailAuth, ExpireToken
        <3>. QED BY <3>1 DEF AuthDirectory!dirVars
    <2>. QED BY <2>2, <2>3, <2>4
<1>. QED BY <1>1, <1>2, AuthInvariant, PTL
        DEF AuthSpec, AuthImplementsDirectory, AuthDirectory!DirSpec
=============================================================================
