------------------------- MODULE AttributionLedger -------------------------
(***************************************************************************)
(* What ingest promises about the address of an event, without saying how  *)
(* it finds it: an event is first recorded, unresolved or with an address  *)
(* its session may have; an unresolved event may later be resolved; an     *)
(* address, once shown, is final.                                          *)
(***************************************************************************)
CONSTANTS
    Event,
    MayBe    \* [Event -> the addresses an event may be shown under]

VARIABLE entry    \* [Event -> {"unstored", "unresolved"} \cup addresses]

Init == entry = [e \in Event |-> "unstored"]

Record(e) ==
    /\ entry[e] = "unstored"
    /\ \E a \in MayBe[e] \cup {"unresolved"} : entry' = [entry EXCEPT ![e] = a]

Resolve(e) ==
    /\ entry[e] = "unresolved"
    /\ \E a \in MayBe[e] : entry' = [entry EXCEPT ![e] = a]

Next == \E e \in Event : Record(e) \/ Resolve(e)

Spec == Init /\ [][Next]_entry

=============================================================================
