--------------------------- MODULE CorrelationMC ---------------------------
(***************************************************************************)
(* Instances of Correlation for TLC.  The window is the deployed one, 1 to *)
(* 500 milliseconds after the connection.                                  *)
(***************************************************************************)
EXTENDS CorrelationInv, Functions, TLC

CONSTANTS s1, s2, a1, a2, b1, h1, h2, ip1, ip2, c1, c2, p1, p2

(* The enricher has a country for ip1, a network for neither.  a2 ships a  *)
(* country and a network, b1 a network alone, which is not enough.         *)
MCGeo   == {"CN", "NL", "AS1"}
Geolocated(country, asn) ==
    [f \in GeoField |-> CASE f = "country" -> country
                          [] f = "asn"     -> asn
                          [] OTHER         -> NoGeo]
MCGeoOf == Restrict((ip1 :> Geolocated("CN", NoGeo)) @@ (ip2 :> NoEnrichment)
                    @@ (Loopback :> NoEnrichment), Address)
MCShipped == Restrict((a1 :> NoEnrichment) @@ (a2 :> Geolocated("NL", "AS1"))
                      @@ (b1 :> Geolocated(NoGeo, "AS1")), Event)
MCConnIp == Restrict((h1 :> ip1) @@ (h2 :> ip2), Conn)
MCSessionOf == Restrict((a1 :> s1) @@ (a2 :> s1) @@ (b1 :> s2), Event)
MCSortKey   == Restrict((a1 :> 1) @@ (a2 :> 2) @@ (b1 :> 1), Event)

AllTunneled  == [s \in Session |-> Loopback]
SecondDirect == Restrict((s1 :> Loopback) @@ (s2 :> ip2), Session)

\* Of the times of these lines the conversion takes one microsecond.
Cut(times, lines) == [x \in DOMAIN times |-> IF x \in lines THEN times[x] - 1
                                                             ELSE times[x]]

(* Overlap: two sessions and two connections within one window.  a1 and b1 *)
(* answer h1 only (b1 shares h2's very microsecond), a2 answers both: h2   *)
(* well within the window, h1 at its end, which the forward pass accepts   *)
(* and the backward pass, one microsecond further, does not.               *)
OverlapEventTs == Restrict((a1 :> 1100000) @@ (a2 :> 1500000)
                           @@ (b1 :> 1200000), Event)
OverlapEventUs == Cut(OverlapEventTs, {a2})
OverlapConnTs  == Restrict((h1 :> 1000000) @@ (h2 :> 1200000), Conn)
OverlapConnUs  == Cut(OverlapConnTs, {h1})
OverlapLines   == (c1 :> <<a1, a2>>) @@ (c2 :> <<b1>>) @@ (p1 :> <<h1, h2>>)

(* Mixed: a batch with a session through the tunnel and one that is not.   *)
MixedLines == (c1 :> <<a1, b1>>) @@ (p1 :> <<h1>>)

(* Apart: each session has a connection to itself.  a1 follows h1 by the   *)
(* longest delay, exactly converted; b1 follows h2 by the shortest and the *)
(* conversion takes as much as both passes allow; a2 comes long after.     *)
(* Every log line travels in an object of its own.                         *)
ApartEventTs == Restrict((a1 :> 1500000) @@ (a2 :> 9000000)
                         @@ (b1 :> 5001001), Event)
ApartEventUs == Cut(ApartEventTs, {b1})
ApartConnTs  == Restrict((h1 :> 1000000) @@ (h2 :> 5000000), Conn)
ApartConnUs  == Cut(ApartConnTs, {})
ApartLines   == (c1 :> <<a1, a2>>) @@ (c2 :> <<b1>>) @@ (p1 :> <<h1>>)
                @@ (p2 :> <<h2>>)

=============================================================================
