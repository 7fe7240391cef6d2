------------------------------- MODULE PutAll -------------------------------
(***************************************************************************)
(* What the writing of a notification's items promises, without chunks,    *)
(* retries or limits: items are put in any order and as often as one likes *)
(* until the notification is acknowledged, which takes every key to hold   *)
(* its last item, or given up.  This is what module Correlation assumes of *)
(* the batch writer.                                                       *)
(***************************************************************************)
EXTENDS Integers

VARIABLES
    work,     \* what is to be stored: a set of [key, item, place]
    shelf,    \* [key -> the item it holds]
    outcome

\* Places are pairs: the record of the notification and the line in its object.
Before(p, q) == p[1] < q[1] \/ (p[1] = q[1] /\ p[2] < q[2])

LastOfKey(w) == \A v \in work : v.key = w.key => ~Before(w.place, v.place)

Init ==
    /\ outcome = "open"
    /\ \A w \in work : shelf[w.key] # w.item

\* A key keeps what it holds or gets one of its items.
PutSome ==
    \A k \in DOMAIN shelf : shelf'[k] # shelf[k] =>
        \E w \in work : w.key = k /\ shelf'[k] = w.item

Put == PutSome /\ UNCHANGED outcome

Acknowledge ==
    /\ outcome # "dead"
    /\ \A w \in work : LastOfKey(w) => shelf[w.key] = w.item
    /\ outcome' = "acknowledged"
    /\ UNCHANGED shelf

\* The last try may have put something, and may not have been the first.
GiveUp == PutSome /\ outcome' = "dead"

Next == UNCHANGED work /\ (Put \/ Acknowledge \/ GiveUp)

Spec == Init /\ [][Next]_<<work, shelf, outcome>>

=============================================================================
