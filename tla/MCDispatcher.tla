---------------------------- MODULE MCDispatcher ----------------------------
(* Small instances of Dispatcher: two notifiers of one name, so that they   *)
(* share counters; one may stall.                                           *)
EXTENDS Dispatcher

CONSTANTS n1, n2, slack

OneName  == [n \in Notifiers |-> slack]
OneStall == {{}, {n1}}
=============================================================================
