------------------------------ MODULE MCAuth ------------------------------
(***************************************************************************)
(* A small instance of Auth for TLC.                                       *)
(***************************************************************************)
EXTENDS Auth, TLC

CONSTANTS r1, r2, r3, m1, d1

\* One member; a newcomer may register the member's device key.
MCMembers == <<[id |-> m1, email |-> "m", password |-> "p"]>>

\* Two people who want the same email, and a member's login.
MCAccounts == {
    [email |-> "a", password |-> "p"], [email |-> "a", password |-> "q"],
    [email |-> "m", password |-> "p"]}
=============================================================================
