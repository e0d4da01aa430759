------------------------------- MODULE Mobile -------------------------------
(***************************************************************************)
(* The phone: mobile/App.tsx with its account list                         *)
(* (core/auth/userManager.ts), its local ledger (core/database/sqlite.ts)  *)
(* and the tap bridge (features/tap_to_pay).  JavaScript runs one piece of *)
(* code at a time: a press runs its handler up to the first await or       *)
(* timer, the rest runs later, with the state it captured at the press.    *)
(* Those rests stand in lines: timers of one delay go off, and AsyncStorage *)
(* answers, in the order they were asked; the lines run in any order.  An  *)
(* answer may be an error, and what follows its await is skipped then.     *)
(***************************************************************************)
EXTENDS Integers, Sequences, FiniteSets, FiniteSetsExt

CONSTANTS
    Presets,    \* accounts the app is shipped with
    FirstUser,  \* the first of them: the account that is current at launch
    Merchant,   \* the account that a tap pays
    Newcomer,   \* an account that is not shipped with the app
    Welcome,    \* what a new account is shown to have
    Opening,    \* the money of each preset account
    LocalStart, \* the money in the local ledger at launch
    Entered,    \* amounts that users type, in tenths of a cent
    TopUps,     \* amounts of the top-up buttons, in cents
    None,       \* nobody, nothing
    NaN,        \* JavaScript's not-a-number
    MaxEntries, \* bound: entries in the local ledger
    MaxMoney,   \* bound: an account with more is paid nothing
    MaxJobs     \* bound: handlers that are not done at the same time

Accounts == Presets \cup {Newcomer}

ASSUME MobileAssumption ==
    /\ FirstUser \in Presets /\ Merchant \in Presets /\ Newcomer \notin Presets
    /\ IsFiniteSet(Presets)
    /\ None \notin Accounts /\ {None, NaN} \cap Int = {}
    /\ Opening \in [Presets -> Nat]
    /\ LocalStart \in Nat /\ Welcome \in Nat
    /\ Entered \subseteq Nat \ {0} /\ TopUps \subseteq Nat \ {0}
    /\ MaxEntries \in Nat \ {0} /\ MaxMoney \in Nat /\ MaxJobs \in Nat

VARIABLES
    known,      \* PRESET_USERS: accounts the app knows by now
    money,      \* userBalances: None where the record has no entry
    current,    \* currentUser of the account list
    ledger,     \* entries of the local ledger, oldest first
    sequence,   \* currentSequence of the local ledger
    queue,      \* pendingQueue of the local ledger
    shown,      \* the account on the screen with its balance, or None
    shownQueue, \* ids of the vouchers on the screen
    booting,    \* isInitializing
    locked,     \* isBiometricLocked
    authenticating, \* isAuthenticating: the button for a typed email is disabled
    stored,     \* the account id kept in AsyncStorage
    jobs        \* what handlers have left to do, by line

accountVars == <<known, money, current>>
localVars   == <<ledger, sequence, queue>>
screenVars  == <<shown, shownQueue>>
sessionVars == <<booting, locked, authenticating, stored>>
mobileVars  == <<accountVars, localVars, screenVars, sessionVars, jobs>>

FirstEntry == [kind |-> "credit", amount |-> LocalStart, after |-> LocalStart]

\* What is in memory when the app has been started.
Fresh ==
    [known |-> Presets, current |-> FirstUser,
     money |-> [u \in Accounts |-> IF u \in Presets THEN Opening[u] ELSE None],
     ledger |-> <<FirstEntry>>, sequence |-> 0, queue |-> {}]

Lines  == {"send", "tap", "sync", "signin", "storage"}
NoJobs == [l \in Lines |-> <<>>]

MobileInit ==
    /\ known = Fresh.known /\ money = Fresh.money /\ current = Fresh.current
    /\ ledger = Fresh.ledger /\ sequence = Fresh.sequence /\ queue = Fresh.queue
    /\ shown = None /\ shownQueue = {}
    /\ booting = TRUE /\ locked = FALSE /\ authenticating = FALSE /\ stored = None
    /\ jobs = NoJobs

-----------------------------------------------------------------------------
(* The account list.  An account without a balance counts as 0 where the   *)
(* code writes "|| 0"; compared or subtracted from, it is not a number.    *)

IsNumber(x)  == x \notin {None, NaN}
OrZero(x)    == IF IsNumber(x) THEN x ELSE 0
Profile(u)   == [id |-> u, balance |-> OrZero(money[u])]
Less(x, a)   == IsNumber(x) /\ x < a
Minus(x, a)  == IF IsNumber(x) THEN x - a ELSE NaN

\* Faulty: the check at the press is enough.
CanTransferAlways(u, a) == TRUE

\* UsersDB.transfer looks at the balance again.
CanTransfer(u, a) == ~Less(money[u], a)

\* Faulty: both balances are computed from those before the payment.
PaidAtOnce(u, v, a) ==
    IF v \in known THEN [money EXCEPT ![u] = Minus(@, a), ![v] = OrZero(money[v]) + a]
                   ELSE [money EXCEPT ![u] = Minus(@, a)]

Paid(u, v, a) ==
    LET less == [money EXCEPT ![u] = Minus(@, a)]
    IN  IF v \in known THEN [less EXCEPT ![v] = OrZero(@) + a] ELSE less

\* Faulty: the current account stays.
SwitchToNobody(u) == current

\* switchUser: an account the app does not know leaves the current one.
SwitchTo(u) == IF u \in known THEN u ELSE current

-----------------------------------------------------------------------------
(* The local ledger.                                                       *)

LocalBalance == ledger[Len(ledger)].after

\* Faulty: the number is not advanced.
NextSequenceSame == sequence

NextSequence == sequence + 1

\* A voucher; its id is its place in the ledger.
Voucher(kind, seq, amount) ==
    [id |-> Len(ledger), kind |-> kind, seq |-> seq, amount |-> amount]

\* Faulty: the local balance is not looked at.
LocalFundsAlways(a) == TRUE

LocalFunds(a) == LocalBalance >= a

Enter(v, balance) ==
    /\ ledger' = Append(ledger, [kind |-> v.kind, amount |-> v.amount, after |-> balance])
    /\ queue' = queue \cup {v}

\* recordOfflineDebit: returns FALSE when the money is not there.
RecordDebit(v) ==
    IF LocalFunds(v.amount) THEN Enter(v, LocalBalance - v.amount) /\ sequence' = v.seq
                            ELSE UNCHANGED localVars

\* Faulty: a top-up takes a number.
RecordCreditNumbered(v) == Enter(v, LocalBalance + v.amount) /\ sequence' = v.seq + 1

RecordCredit(v) == Enter(v, LocalBalance + v.amount) /\ UNCHANGED sequence

\* Faulty: the queue is emptied.
AfterSyncEmpty(ids) == {}

\* clearSyncedVouchers
AfterSync(ids) == {v \in queue : v.id \notin ids}

-----------------------------------------------------------------------------
(* Amounts.  "> 0" is asked of what was typed, Math.round(x * 100) is paid: *)
(* the least amount that can be typed is rounded to none.                  *)

Cents(x) == (x + 5) \div 10
Amounts  == {Cents(x) : x \in Entered}

-----------------------------------------------------------------------------
(* The screen.                                                             *)

Screen ==
    IF booting THEN "splash"
    ELSE IF locked /\ shown # None THEN "locked"
    ELSE IF shown = None THEN "signin" ELSE "main"

\* refreshState, after the account list and the ledger have changed.
Refresh ==
    /\ shown' = Profile(current)'
    /\ shownQueue' = {v.id : v \in queue'}

Job(kind, user, to, amount, ids) ==
    [kind |-> kind, user |-> user, to |-> to, amount |-> amount, ids |-> ids]

LineOf(kind) == IF kind \in {"enter", "switch", "logout"} THEN "storage" ELSE kind
JobCount     == MapThenSumSet(LAMBDA l : Len(jobs[l]), Lines)

Later(j) ==
    /\ JobCount < MaxJobs
    /\ jobs' = [jobs EXCEPT ![LineOf(j.kind)] = Append(@, j)]

\* The jobs that may run next.
Due     == {Head(jobs[l]) : l \in {m \in Lines : jobs[m] # <<>>}}
Done(j) == jobs' = [jobs EXCEPT ![LineOf(j.kind)] = Tail(@)]

\* The bounds leave room for one payment more; one that the ledger refuses
\* may still move money.
Room ==
    /\ Len(ledger) + Len(jobs["send"]) + Len(jobs["tap"]) < MaxEntries
    /\ \A u \in Accounts : OrZero(money[u]) <= MaxMoney

\* handleSendP2P up to its timer: the balance on the screen is checked.
PressSend ==
    /\ Screen = "main" /\ jobs["send"] = <<>>
    /\ \E to \in Accounts, a \in Amounts :
        /\ Room /\ shown.balance >= a
        /\ Later(Job("send", shown.id, to, a, {}))
    /\ UNCHANGED <<accountVars, localVars, screenVars, sessionVars>>

\* The timer: the transfer, and the voucher whether it can be recorded or not.
FinishSend(j) ==
    /\ j.kind = "send"
    /\ Done(j)
    /\ \/ /\ CanTransfer(j.user, j.amount)
          /\ money' = Paid(j.user, j.to, j.amount)
          /\ RecordDebit(Voucher("debit", NextSequence, j.amount))
          /\ UNCHANGED <<known, current>>
          /\ Refresh
       \/ /\ ~CanTransfer(j.user, j.amount)
          /\ UNCHANGED <<accountVars, localVars, screenVars>>
    /\ UNCHANGED sessionVars

\* handleExecuteTap up to the exchange over the air.
PressTap ==
    /\ Screen = "main" /\ jobs["tap"] = <<>>
    /\ \E a \in Amounts : Room /\ Later(Job("tap", shown.id, Merchant, a, {}))
    /\ UNCHANGED <<accountVars, localVars, screenVars, sessionVars>>

\* The exchange: a voucher under the next number; then the transfer, whether
\* the voucher could be recorded or not, and its result is not looked at.
FinishTap(j) ==
    /\ j.kind = "tap"
    /\ Done(j)
    /\ RecordDebit(Voucher("debit", NextSequence, j.amount))
    /\ money' = IF CanTransfer(j.user, j.amount) THEN Paid(j.user, j.to, j.amount) ELSE money
    /\ UNCHANGED <<known, current, sessionVars>>
    /\ Refresh

\* handleTopUp runs in one go.
TopUp ==
    /\ Screen = "main" /\ Room
    /\ \E a \in TopUps :
        /\ money' = [money EXCEPT ![shown.id] = OrZero(@) + a]
        /\ RecordCredit(Voucher("credit", sequence, a))
    /\ UNCHANGED <<known, current, sessionVars, jobs>>
    /\ Refresh

\* handleSyncNow up to its timer: the vouchers on the screen are captured.
PressSync ==
    /\ Screen = "main" /\ jobs["sync"] = <<>>
    /\ shownQueue # {}
    /\ Later(Job("sync", None, None, 0, shownQueue))
    /\ UNCHANGED <<accountVars, localVars, screenVars, sessionVars>>

FinishSync(j) ==
    /\ j.kind = "sync"
    /\ Done(j)
    /\ queue' = AfterSync(j.ids)
    /\ UNCHANGED <<ledger, sequence, accountVars, sessionVars>>
    /\ Refresh

-----------------------------------------------------------------------------
(* Sessions.                                                               *)

\* handleSignIn up to its timer: an account of the list, which is not disabled,
\* or an email that is typed.
PressSignIn ==
    /\ Screen = "signin"
    /\ \E u \in Accounts :
        /\ u \in known \/ ~authenticating
        /\ Later(Job("signin", u, None, 0, {}))
    /\ authenticating' = TRUE
    /\ UNCHANGED <<accountVars, localVars, screenVars, booting, locked, stored>>

\* The timer: an unknown email becomes an account without a balance.
FinishSignIn(j) ==
    /\ j.kind = "signin"
    /\ known' = known \cup {j.user}
    /\ current' = j.user
    /\ jobs' = [jobs EXCEPT !["signin"] = Tail(@),
                          !["storage"] = Append(@, Job("enter", j.user, None, 0, {}))]
    /\ UNCHANGED <<money, localVars, screenVars, sessionVars>>

ListedBalance(u) == IF u \in Presets THEN Opening[u] ELSE Welcome

\* The id is stored, and the account is shown as it stands in the list.
EnterAccount(j) ==
    /\ j.kind = "enter"
    /\ Done(j)
    /\ stored' = j.user
    /\ shown' = [id |-> j.user, balance |-> ListedBalance(j.user)]
    /\ authenticating' = FALSE
    /\ UNCHANGED <<accountVars, localVars, shownQueue, booting, locked>>

\* handleSelectUser up to its await.
PressSwitch ==
    /\ Screen = "main"
    /\ \E u \in known :
        /\ current' = SwitchTo(u)
        /\ Later(Job("switch", u, None, 0, {}))
    /\ UNCHANGED <<known, money, localVars, screenVars, sessionVars>>

FinishSwitch(j) ==
    /\ j.kind = "switch"
    /\ Done(j)
    /\ stored' = j.user
    /\ UNCHANGED <<accountVars, localVars, booting, locked, authenticating>>
    /\ Refresh

PressLogOut ==
    /\ Screen \in {"main", "locked"}
    /\ Later(Job("logout", None, None, 0, {}))
    /\ UNCHANGED <<accountVars, localVars, screenVars, sessionVars>>

FinishLogOut(j) ==
    /\ j.kind = "logout"
    /\ Done(j)
    /\ stored' = None
    /\ shown' = None
    /\ locked' = FALSE
    /\ UNCHANGED <<accountVars, localVars, shownQueue, booting, authenticating>>

\* setItem or removeItem rejects: the rest of the handler is skipped.  What was
\* done before the await stays: the current account, the disabled button.
StorageFails(j) ==
    /\ LineOf(j.kind) = "storage"
    /\ Done(j)
    /\ UNCHANGED <<accountVars, localVars, screenVars, sessionVars>>

\* checkSavedSession at launch, and the lock that goes with a saved session.
Launch ==
    /\ booting
    /\ booting' = FALSE
    /\ \/ /\ stored # None
          /\ current' = SwitchTo(stored)
          /\ UNCHANGED <<known, money>>
          /\ shown' = Profile(current)'
          /\ locked' = TRUE
       \/ stored = None /\ UNCHANGED <<accountVars, shown, locked>>
    /\ UNCHANGED <<localVars, shownQueue, authenticating, stored, jobs>>

\* getItem rejects: the app opens at the sign-in, and the id stays stored.
LaunchFails ==
    /\ booting
    /\ booting' = FALSE
    /\ UNCHANGED <<accountVars, localVars, screenVars, locked, authenticating, stored, jobs>>

\* The fingerprint, a phone without a sensor, or the PIN button.
Unlock ==
    /\ Screen = "locked"
    /\ locked' = FALSE
    /\ UNCHANGED <<accountVars, localVars, screenVars, booting, authenticating, stored, jobs>>

\* The app is closed and started: only AsyncStorage is kept.
Restart ==
    /\ ~booting
    /\ known' = Fresh.known /\ money' = Fresh.money /\ current' = Fresh.current
    /\ ledger' = Fresh.ledger /\ sequence' = Fresh.sequence /\ queue' = Fresh.queue
    /\ shown' = None /\ shownQueue' = {}
    /\ booting' = TRUE /\ locked' = FALSE /\ authenticating' = FALSE
    /\ jobs' = NoJobs
    /\ UNCHANGED stored

Press == PressSend \/ PressTap \/ TopUp \/ PressSync \/ PressSignIn \/ PressSwitch
            \/ PressLogOut \/ Unlock

Finish(j) == FinishSend(j) \/ FinishTap(j) \/ FinishSync(j) \/ FinishSignIn(j)
                \/ EnterAccount(j) \/ FinishSwitch(j) \/ FinishLogOut(j)
                \/ StorageFails(j)

MobileNext ==
    \/ Press
    \/ \E j \in Due : Finish(j)
    \/ Launch \/ LaunchFails
    \/ Restart

MobileSpec == MobileInit /\ [][MobileNext]_mobileVars

-----------------------------------------------------------------------------
(* Properties.                                                             *)

Kinds == {"send", "tap", "sync", "signin", "enter", "switch", "logout"}

AccountsOK ==
    /\ known \in SUBSET Accounts /\ Presets \subseteq known
    /\ money \in [Accounts -> Int \cup {None, NaN}]
    /\ current \in known

LedgerOK ==
    /\ ledger \in Seq([kind : {"debit", "credit"}, amount : Nat, after : Nat])
    /\ sequence \in Nat
    /\ queue \subseteq [id : Nat, kind : {"debit", "credit"}, seq : Nat, amount : Nat]

ScreenOK ==
    /\ shown \in [id : Accounts, balance : Int] \cup {None}
    /\ shownQueue \subseteq 1..MaxEntries
    /\ booting \in BOOLEAN /\ locked \in BOOLEAN /\ authenticating \in BOOLEAN
    /\ stored \in Accounts \cup {None}

JobRow ==
    [kind : Kinds, user : Accounts \cup {None}, to : Accounts \cup {None},
     amount : Nat, ids : SUBSET (1..MaxEntries)]

JobFits(l, j) ==
    /\ LineOf(j.kind) = l
    /\ j.kind \in {"send", "tap"} => j.to \in Accounts
    /\ j.kind \notin {"sync", "logout"} => j.user \in Accounts

JobsOK ==
    /\ jobs \in [Lines -> Seq(JobRow)]
    /\ \A l \in Lines : \A k \in DOMAIN jobs[l] : JobFits(l, jobs[l][k])

\* Every variable has its type; the local ledger never shows less than nothing.
MobileTypeOK == AccountsOK /\ LedgerOK /\ ScreenOK /\ JobsOK

\* The balance is checked at the press and spent by the timer, other payments
\* and a stale screen in between: no account is overdrawn.
NoOverdraft == \A u \in Accounts : ~Less(money[u], 0)

\* The sequence number counts the payments in the ledger: whatever overlaps, no
\* number is skipped, and none is used up by a payment that was refused.  A
\* payment that is rounded to nothing takes a number too.
SequenceCountsDebits ==
    sequence = Cardinality({k \in DOMAIN ledger : ledger[k].kind = "debit"})

\* A tap and a transfer that overlap never sign two vouchers under one number:
\* the backend would settle only one of them.
VouchersNumberedOnce ==
    \A v, w \in queue :
        v.kind = "debit" /\ w.kind = "debit" /\ v.seq = w.seq => v = w

\* A voucher made while a sync is running stays in the queue: what leaves it
\* was on the screen when the sync was started.
SyncDropsWhatWasSent ==
    [][\A v \in queue \ queue' :
          \/ booting'
          \/ \E j \in Due : j.kind = "sync" /\ v.id \in j.ids]_mobileVars

\* Timers and answers of the storage that overlap leave one account: once the
\* storage has answered, the account on the screen, the one that a refresh shows
\* and the one that is kept for the next launch are the same.  They go astray
\* only in a step in which the storage fails.
Astray ==
    stored \in known /\ (current # stored \/ (shown # None /\ shown.id # stored))

ScreenIsSession ==
    [][jobs'["storage"] = <<>> /\ ~booting' /\ Astray' =>
          \/ jobs["storage"] = <<>> /\ Astray
          \/ LaunchFails \/ \E j \in Due : StorageFails(j)]_mobileVars

\* Accounts have more money only after a top-up, which is in the ledger with the
\* same sum: a payment never makes money, not even one to oneself.  Only a payer
\* whose balance is no number is out of this.
Money == SumFunction([u \in Accounts |-> OrZero(money[u])])

MoneyComesFromTopUps ==
    [][Money' > Money =>
          \/ booting'
          \/ \E j \in Due \ Due' : j.user # None /\ ~IsNumber(money[j.user])
          \/ /\ Len(ledger') = Len(ledger) + 1
             /\ ledger'[Len(ledger')].kind = "credit"
             /\ ledger'[Len(ledger')].amount = Money' - Money]_mobileVars

\* The vouchers in the queue are of entries in the ledger and numbered by it; a
\* payment that is under way finds room there.
QueueOK ==
    /\ \A v \in queue : /\ v.id \in 1..(Len(ledger) - 1)
                        /\ v.kind = "debit" => v.seq <= sequence
    /\ ledger # <<>>
    /\ Len(ledger) + Len(jobs["send"]) + Len(jobs["tap"]) <= MaxEntries
    /\ Len(jobs["send"]) <= 1 /\ Len(jobs["tap"]) <= 1

LastAnswer == jobs["storage"][Len(jobs["storage"])]

\* The account of the last sign-in or switch that waits for the storage is the
\* current one, and nothing runs while the app starts.
SessionOK ==
    /\ booting => jobs = NoJobs /\ shown = None
    /\ jobs["storage"] # <<>> /\ LastAnswer.kind # "logout" => current = LastAnswer.user

\* The inductive invariant.
MobileInv ==
    /\ MobileTypeOK
    /\ NoOverdraft
    /\ SequenceCountsDebits
    /\ VouchersNumberedOnce
    /\ QueueOK
    /\ SessionOK

\* "Persistent Login": the app resumes as the account that was signed in.
SessionResumes == Screen = "locked" => shown.id = stored
=============================================================================
