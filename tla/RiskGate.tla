------------------------------ MODULE RiskGate ------------------------------
(***************************************************************************)
(* What a risk guardian promises the trading loop, whatever it checks:     *)
(* orders stop at a halt until an operator resumes, and no window of       *)
(* RateWindow units ever admits more than MaxOrders orders.                *)
(***************************************************************************)
EXTENDS Integers, FiniteSets

CONSTANTS MaxOrders, RateWindow
VARIABLES now, latched, admitted

vars == <<now, latched, admitted>>

Recent == {o \in admitted : now - o.at < RateWindow}

Init == now = 0 /\ latched = FALSE /\ admitted = {}

Advance == now' = now + 1 /\ UNCHANGED <<latched, admitted>>
Trip    == latched' = TRUE /\ UNCHANGED <<now, admitted>>
Resume  == latched /\ latched' = FALSE /\ UNCHANGED <<now, admitted>>
Admit   == /\ ~latched
           /\ Cardinality(Recent) < MaxOrders
           /\ \E o \in admitted' : /\ admitted' = admitted \cup {o}
                                 /\ o.no = Cardinality(admitted) /\ o.at = now
           /\ UNCHANGED <<now, latched>>

Next == Advance \/ Trip \/ Resume \/ Admit
Spec == Init /\ [][Next]_vars
=============================================================================
