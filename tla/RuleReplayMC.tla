---------------------------- MODULE RuleReplayMC ----------------------------
(***************************************************************************)
(* An instance of RuleReplay for TLC, in real microseconds around a minute *)
(* boundary: connections exactly at the boundary, at the edge of the       *)
(* window and behind one address; a truncated file, a line of garbage and  *)
(* two records of one id; and an archive with a record that lacks a field. *)
(***************************************************************************)
EXTENDS RuleReplay, TLC

CONSTANTS ca, la, lb, lc, odd, h1, h2, h3, ip1, ip2, s1, s2, d1, d2, d3, agg, evt

MCLineTime == (ca :> 60000999) @@ (la :> 60500000) @@ (lb :> 60600000) @@ (lc :> 60600000) @@ (odd :> 0)
MCLineUs   == (ca :> 60000999) @@ (la :> 60499999) @@ (lb :> 60600000) @@ (lc :> 60600000) @@ (odd :> 0)
MCSessionOf == (ca :> s1) @@ (la :> s1) @@ (lb :> s1) @@ (lc :> s1) @@ (odd :> s2)
MCIdOf     == (ca :> d1) @@ (la :> d2) @@ (lb :> d3) @@ (lc :> d3) @@ (odd :> d1)
MCArchives == {<<ca, Garbage, la, lb, Broken, lc>>, <<ca, lc, la, odd>>}

MCConnIp   == (h1 :> ip1) @@ (h2 :> ip1) @@ (h3 :> ip2)
MCConnTime == (h1 :> 60000000) @@ (h2 :> 59500999) @@ (h3 :> 59700000)
MCConnUs   == (h1 :> 59999999) @@ (h2 :> 59500999) @@ (h3 :> 59700000)

MCRules    == <<agg, evt>>
MCMatches  == (agg :> {la, lc}) @@ (evt :> {la, lb, lc})

\* d3 before d2, against the order of the archive; the rules one after the other.
MCRank ==
    LET place == (d1 :> 0) @@ (d3 :> 1) @@ (d2 :> 2) @@ (ip1 :> 3) @@ (ip2 :> 4)
    IN  [p \in Rule \X Row |-> place[p[2]] + IF p[1] = agg THEN 5 ELSE 0]

=============================================================================
