------------------------------ MODULE Directory ------------------------------
(***************************************************************************)
(* What registration promises, whatever runs at once, fails or is tried    *)
(* again: an email is given once, for ever, together with a wallet and in  *)
(* one step; a device key is given once, to somebody who has a wallet.     *)
(* Which request does it, and what the client is told, does not show.      *)
(***************************************************************************)
CONSTANTS
    People,  \* ids of users
    Emails,
    Keys     \* device public keys

VARIABLES
    given,   \* pairs of an email and the user who has it
    purses,  \* users who have a wallet
    keys     \* pairs of a device key and the user who has it

dirVars == <<given, purses, keys>>

Taken(relation, x) == \E u \in People : <<x, u>> \in relation

\* Everybody who has an email has a wallet, and no email has two users.
DirInit ==
    /\ given \subseteq Emails \X People
    /\ \A p, q \in given : p[1] = q[1] \/ p[2] = q[2] => p = q
    /\ purses = {p[2] : p \in given}
    /\ keys = {}

Join(e, u) ==
    /\ ~Taken(given, e)
    /\ u \notin purses
    /\ given' = given \cup {<<e, u>>}
    /\ purses' = purses \cup {u}
    /\ UNCHANGED keys

GiveKey(d, u) ==
    /\ ~Taken(keys, d)
    /\ u \in purses
    /\ keys' = keys \cup {<<d, u>>}
    /\ UNCHANGED <<given, purses>>

DirNext == \E u \in People :
    \/ \E e \in Emails : Join(e, u)
    \/ \E d \in Keys : GiveKey(d, u)

DirSpec == DirInit /\ [][DirNext]_dirVars
=============================================================================
