------------------------- MODULE StreamAggregatorMC -------------------------
(***************************************************************************)
(* Instances of StreamAggregator for TLC: a login event and the closing    *)
(* event of one session.  The login names two counters, the second only    *)
(* once its address is known; the closing event names one.                 *)
(***************************************************************************)
EXTENDS StreamAggregatorInv, SessionTechnique, Functions, TLC

CONSTANTS login, closed, root, cn, bye, scanner, other, sh1, sh2

MCFields ==
    Restrict((login :> [bare |-> <<root>>, located |-> <<root, cn>>])
             @@ (closed :> [bare |-> <<bye>>, located |-> <<bye>>]), Event)

MCSessionOf == [e \in Event |-> 1]

\* The session closes after one second: a scanner, unless the login is seen.
Seen(view) ==
    [e \in view |-> [eventid |-> IF e = login THEN LoginFailed ELSE "cowrie.session.closed",
                     name    |-> root]]

MCTechniqueOf ==
    [view \in SUBSET Event |->
        CASE TechniqueLabel(Seen(view), 10) = "scanner" -> scanner
          [] TechniqueLabel(Seen(view), 10) # "scanner" -> other]

\* Items of the session on one shard, the aggregator's own on the other.
TwoShards == [k \in Key |-> IF k \in Event THEN sh1 ELSE sh2]

=============================================================================
