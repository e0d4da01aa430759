-------------------------------- MODULE Auth --------------------------------
(***************************************************************************)
(* Accounts and devices: internal/features/auth behind the JWT middleware. *)
(* Registration looks the email up, hashes the password, and only then     *)
(* inserts the user and the wallet in a transaction; a login hands out a   *)
(* token; a device key is registered for the user of a token.              *)
(***************************************************************************)
EXTENDS Naturals, Sequences, FiniteSets

CONSTANTS
    Requests,   \* HTTP requests; the uuid of the user it registers is r
    Members,    \* rows of users at the start, with their wallets and tokens
    Accounts,   \* pairs of an email and a password that clients use
    Devices,    \* device public keys
    None

MemberIds == {Members[k].id : k \in DOMAIN Members}
UserIds   == Requests \cup MemberIds
Emails    == {a.email : a \in Accounts} \cup {Members[k].email : k \in DOMAIN Members}
Passwords == {a.password : a \in Accounts} \cup {Members[k].password : k \in DOMAIN Members}

ASSUME AuthAssumption ==
    /\ None \notin Requests
    /\ \A a \in Accounts : a = [email |-> a.email, password |-> a.password]
    /\ Members \in Seq([id : UserIds, email : Emails, password : Passwords])
    /\ \A j, k \in DOMAIN Members :
          /\ Members[j].id \notin Requests
          /\ Members[j].id = Members[k].id \/ Members[j].email = Members[k].email => j = k

VARIABLES
    users,      \* table users, in commit order
    owners,     \* user_id column of table wallets, in commit order
    claim,      \* email -> the open transaction that has inserted it, or None
    deviceKeys, \* table device_keys: device -> user, or None
    tokens,     \* users for whom clients hold a token that has not expired
    pc, reply,  \* of each request
    account,    \* the account a request names
    device      \* the device a request names and the user its token names

authVars == <<users, owners, claim, deviceKeys, tokens, pc, reply, account, device>>

AuthInit ==
    /\ users = Members
    /\ owners = [k \in DOMAIN Members |-> Members[k].id]
    /\ claim = [e \in Emails |-> None]
    /\ deviceKeys = [d \in Devices |-> None]
    /\ tokens = MemberIds
    /\ pc = [r \in Requests |-> "idle"]
    /\ reply = [r \in Requests |-> "none"]
    /\ account = [r \in Requests |-> None]
    /\ device = [r \in Requests |-> None]

At(r, label)    == pc[r] = label
Goto(r, label)  == pc' = [pc EXCEPT ![r] = label]
Answer(r, what) == Goto(r, "done") /\ reply' = [reply EXCEPT ![r] = what]
Email(r)        == account[r].email

tables == <<users, owners, deviceKeys>>

-----------------------------------------------------------------------------
(* Registration.                                                           *)

Ask(r) ==
    /\ At(r, "idle")
    /\ \E a \in Accounts : account' = [account EXCEPT ![r] = a]
    /\ Goto(r, "lookup") \/ Goto(r, "login")
    /\ UNCHANGED <<tables, claim, tokens, reply, device>>

\* The emails that FindByEmail finds.
Registered == {users[i].email : i \in DOMAIN users}

\* Faulty: users.email is not unique.
EmailTakenNever(e) == FALSE

\* users.email is UNIQUE.
EmailTaken(e) == e \in Registered

RefuseKnown(r) ==
    /\ At(r, "lookup")
    /\ Email(r) \in Registered
    /\ Answer(r, "conflict")
    /\ UNCHANGED <<tables, claim, tokens, account, device>>

\* Nobody has the email, or the database did not answer: any error of the
\* query counts as "free".  The password is hashed before anything is written.
LookupEmail(r) ==
    /\ At(r, "lookup")
    /\ Goto(r, "insert")
    /\ UNCHANGED <<tables, claim, tokens, reply, account, device>>

\* INSERT INTO users: waits while an open transaction has inserted the email.
InsertUser(r) ==
    /\ At(r, "insert")
    /\ claim[Email(r)] = None
    /\ ~EmailTaken(Email(r))
    /\ claim' = [claim EXCEPT ![Email(r)] = r]
    /\ Goto(r, "commit")
    /\ UNCHANGED <<tables, tokens, reply, account, device>>

\* The UNIQUE email refuses the row: an internal error, not a conflict.
RefuseTaken(r) ==
    /\ At(r, "insert")
    /\ claim[Email(r)] = None
    /\ EmailTaken(Email(r))
    /\ Answer(r, "error")
    /\ UNCHANGED <<tables, claim, tokens, account, device>>

\* Faulty: the transaction of a refused registration stays open.
ReleasedNone(R) == claim

\* The end of a transaction gives its emails up.
Released(R) == [e \in Emails |-> IF claim[e] \in R THEN None ELSE claim[e]]

UserRow(r) == [id |-> r, email |-> Email(r), password |-> account[r].password]

\* Faulty: the wallet is left to another transaction.
NewWalletsNone(r) == <<>>

\* Faulty: the wallet refers to the email.
NewWalletsByEmail(r) == <<Email(r)>>

\* The wallet row that goes with a new user.
NewWallets(r) == <<r>>

\* INSERT INTO wallets, COMMIT and the token; when the acknowledgement of the
\* commit is lost the client is told of an error and gets no token.
CommitUser(r) ==
    /\ At(r, "commit")
    /\ users' = Append(users, UserRow(r))
    /\ owners' = owners \o NewWallets(r)
    /\ claim' = Released({r})
    /\ \/ Answer(r, "registered") /\ tokens' = tokens \cup {r}
       \/ Answer(r, "error") /\ UNCHANGED tokens
    /\ UNCHANGED <<deviceKeys, account, device>>

-----------------------------------------------------------------------------
(* Login.                                                                  *)

Matches(r) == {i \in DOMAIN users :
    users[i].email = Email(r) /\ users[i].password = account[r].password}

Login(r) ==
    /\ At(r, "login")
    /\ \E i \in Matches(r) : tokens' = tokens \cup {users[i].id}
    /\ Answer(r, "welcome")
    /\ UNCHANGED <<tables, claim, account, device>>

\* Nothing matches, or the database did not answer: the client cannot tell.
RefuseLogin(r) ==
    /\ At(r, "login")
    /\ Answer(r, "denied")
    /\ UNCHANGED <<tables, claim, tokens, account, device>>

-----------------------------------------------------------------------------
(* Device keys.                                                            *)

\* A request whose token is in order reaches the handler as the token's user.
AskDevice(r) ==
    /\ At(r, "idle")
    /\ \E u \in tokens, d \in Devices :
          device' = [device EXCEPT ![r] = [user |-> u, key |-> d]]
    /\ Goto(r, "save")
    /\ UNCHANGED <<tables, claim, tokens, reply, account>>

\* Faulty: the last one to register a key owns it.
KeyOwnerLast(r) == device[r].user

\* ON CONFLICT (public_key) DO UPDATE SET is_active: the user stays.
KeyOwner(r) ==
    LET was == deviceKeys[device[r].key] IN IF was = None THEN device[r].user ELSE was

SaveDeviceKey(r) ==
    /\ At(r, "save")
    /\ deviceKeys' = [deviceKeys EXCEPT ![device[r].key] = KeyOwner(r)]
    /\ Answer(r, "saved") \/ Answer(r, "error")
    /\ UNCHANGED <<users, owners, claim, tokens, account, device>>

-----------------------------------------------------------------------------
(* Around the requests.                                                    *)

Running(r) == pc[r] \in {"lookup", "insert", "commit", "login", "save"}

\* The context ends, the database fails or the process dies: the transaction
\* is rolled back, and the client sees an error or nothing.
FailAuth(r) ==
    /\ Running(r)
    /\ claim' = Released({r})
    /\ Answer(r, "error")
    /\ UNCHANGED <<tables, tokens, account, device>>

\* A token expires after 72 hours.
ExpireToken(u) ==
    /\ u \in tokens
    /\ tokens' = tokens \ {u}
    /\ UNCHANGED <<tables, claim, pc, reply, account, device>>

AuthStep(r) ==
    \/ RefuseKnown(r) \/ LookupEmail(r)
    \/ InsertUser(r) \/ RefuseTaken(r) \/ CommitUser(r)
    \/ Login(r) \/ RefuseLogin(r) \/ SaveDeviceKey(r)

AuthDone == (\A r \in Requests : At(r, "done")) /\ UNCHANGED authVars

AuthNext ==
    \/ \E r \in Requests : Ask(r) \/ AskDevice(r) \/ AuthStep(r) \/ FailAuth(r)
    \/ \E u \in tokens : ExpireToken(u)
    \/ AuthDone

AuthSpec == AuthInit /\ [][AuthNext]_authVars

\* Goroutines run on, and an INSERT that waits stands in a queue.
AuthFairSpec == AuthSpec /\ \A r \in Requests : SF_authVars(AuthStep(r))

-----------------------------------------------------------------------------
(* Properties.                                                             *)

AuthLabels == {"idle", "lookup", "insert", "commit", "login", "save", "done"}

AuthReplies == {"none", "conflict", "error", "registered", "welcome", "denied", "saved"}

\* Every variable has its type; a wallet refers to a user id.
AuthTypeOK ==
    /\ users \in Seq([id : UserIds, email : Emails, password : Passwords])
    /\ owners \in Seq(UserIds)
    /\ claim \in [Emails -> Requests \cup {None}]
    /\ deviceKeys \in [Devices -> UserIds \cup {None}]
    /\ tokens \in SUBSET UserIds
    /\ pc \in [Requests -> AuthLabels]
    /\ reply \in [Requests -> AuthReplies]
    /\ account \in [Requests -> Accounts \cup {None}]
    /\ device \in [Requests -> [user : UserIds, key : Devices] \cup {None}]

Ids == {users[i].id : i \in DOMAIN users}

\* How far a request has come says what it knows and what it holds.
AuthStageOK(r) ==
    /\ pc[r] \in {"lookup", "insert", "commit", "login"} => account[r] \in Accounts
    /\ pc[r] = "commit" => claim[Email(r)] = r
    /\ pc[r] = "save" => device[r] \in [user : Ids, key : Devices]
    /\ pc[r] # "done" => r \notin Ids /\ reply[r] = "none"
    /\ reply[r] = "registered" =>
          account[r] \in Accounts /\ \E i \in DOMAIN users : users[i] = UserRow(r)

\* Every row has its own id and email, and its wallet was inserted with it.
RowsOK ==
    /\ \A i, j \in DOMAIN users :
          users[i].id = users[j].id \/ users[i].email = users[j].email => i = j
    /\ owners = [k \in DOMAIN users |-> users[k].id]

\* An email that an open registration has inserted is claimed by that one alone
\* and is not in the table.
ClaimsOK ==
    \A e \in Emails : claim[e] # None =>
        ~EmailTaken(e) /\ pc[claim[e]] = "commit" /\ Email(claim[e]) = e

\* The inductive invariant of accounts.  Whoever holds a token or a device is
\* in the table, and no other request interferes with what an open registration
\* has looked up and inserted.
AuthInv ==
    /\ AuthTypeOK
    /\ RowsOK
    /\ ClaimsOK
    /\ tokens \subseteq Ids
    /\ \A d \in Devices : deviceKeys[d] \in Ids \cup {None}
    /\ \A r \in Requests : AuthStageOK(r)

\* The email is looked up long before it is inserted: two people who register
\* it at the same time must not both be told that it is theirs.  Who is told so
\* has the only account under it, with the password given.
RegisteredOwnsEmail ==
    \A r \in Requests : reply[r] = "registered" =>
        \A i \in DOMAIN users : users[i].email = Email(r) =>
            users[i].id = r /\ users[i].password = account[r].password

\* Everybody who can hold a token, and everybody who has a device, has exactly
\* one wallet: a registration that fails half-way leaves neither.
WalletForEveryUser ==
    \A u \in Ids \cup tokens :
        Cardinality({k \in DOMAIN owners : owners[k] = u}) = 1

\* A device key that vouchers have been signed with keeps its user: whoever
\* registers it again does not take over the payments it has signed.
DeviceKeepsUser ==
    [][\A d \in Devices : deviceKeys[d] # None => deviceKeys'[d] = deviceKeys[d]]_authVars

AuthDirectory == INSTANCE Directory WITH
    People <- UserIds,
    Keys   <- Devices,
    given  <- {<<users[i].email, users[i].id>> : i \in DOMAIN users},
    purses <- {owners[k] : k \in DOMAIN owners},
    keys   <- {<<d, deviceKeys[d]>> : d \in {c \in Devices : deviceKeys[c] # None}}

\* Racing registrations, lost acknowledgements, expired tokens and failures
\* implement the abstract directory: an email and its wallet come in one step,
\* once and for ever, and a device key never changes hands.
AuthImplementsDirectory == AuthDirectory!DirSpec

\* A registration is answered although the email may be claimed by another one
\* that is still open.
AuthAnswered == \A r \in Requests : pc[r] # "idle" ~> pc[r] = "done"
=============================================================================
