---------------------------- MODULE MCSimulator ----------------------------
(***************************************************************************)
(* A small instance of Simulator for TLC.                                  *)
(***************************************************************************)
EXTENDS Simulator, TLC

CONSTANTS r1, r2, r3, i1, d1, d2, d3

MCHome == [r \in Requests |-> i1]

MCDeviceUser == (d1 :> 1) @@ (d2 :> 2) @@ (d3 :> 3)

MCOpening == [u \in Users |-> [balance |-> 2, allocated |-> 0, lastSeq |-> 0]]

\* Two accounts pay each other and a third one; a draw that is repeated.
MCDraws == {
    [payer |-> 1, payee |-> 2, amount |-> 2], [payer |-> 2, payee |-> 1, amount |-> 1],
    [payer |-> 2, payee |-> 3, amount |-> 1], [payer |-> 1, payee |-> 1, amount |-> 1]}

MCIds == <<"a", "b", "c", "d">>
=============================================================================
