------------------------ MODULE OfflineAttribution ------------------------
(***************************************************************************)
(* The timestamp join between the Cowrie and the HAProxy archive, as the   *)
(* lab repeats it offline (elastic/soc_elastic/correlate.py), beside the   *)
(* query the ingest Lambda makes for the same event.  Both decide on       *)
(* microsecond integers (dashboard/functions/shared/haproxy_parser.py).    *)
(* An integer is int(timestamp() * 1_000_000) of a float, so it is the     *)
(* time printed on the line or one microsecond less; the table's minute    *)
(* buckets are cut from the printed time, the window from the integers.    *)
(***************************************************************************)
EXTENDS Integers, FiniteSets

CONSTANTS
    Conn,       \* HAProxy records
    Ip,         \* client addresses
    ConnIp,     \* [Conn -> Ip]
    ConnTime,   \* [Conn -> Int], the time on the line
    ConnUs,     \* [Conn -> Int], HAProxyRecord.ts_us
    Window,     \* CORRELATION_WINDOW_US
    MinDelta    \* CORRELATION_MIN_DELTA_US

Minute == 60000000

\* parse_record, cowrie_ts_to_us: the integer a printed time may become.
Micros(t) == {t - 1, t}

ASSUME ConnAssumption ==
    /\ IsFiniteSet(Conn)
    /\ ConnIp \in [Conn -> Ip]
    /\ ConnTime \in [Conn -> Int]
    /\ ConnUs \in [Conn -> Int]
    /\ \A h \in Conn : ConnUs[h] \in Micros(ConnTime[h])

ASSUME WindowAssumption ==
    /\ Window \in 1..Minute
    /\ MinDelta \in 1..Window

InWindow(us, h) ==
    /\ us - Window <= ConnUs[h]
    /\ ConnUs[h] <= us - MinDelta

-----------------------------------------------------------------------------
(* The Lambda: connections are filed by minute, and a query reads the      *)
(* minutes in which its window begins and ends.                            *)

BucketOf(h) == ConnTime[h] \div Minute

BucketsForWindow_End(us) == {us \div Minute}

BucketsForWindow(us) == {(us - Window) \div Minute, us \div Minute}

QueryHAProxyWindow(log, us) ==
    {h \in log : BucketOf(h) \in BucketsForWindow(us) /\ InWindow(us, h)}

Correlate(log, us) ==
    LET found == Cardinality(QueryHAProxyWindow(log, us))
    IN  CASE found = 0 -> "missed"
          [] found = 1 -> "matched"
          [] OTHER     -> "ambiguous"

-----------------------------------------------------------------------------
(* The lab: HAProxyIndex.candidates and HAProxyIndex.attribute.            *)

Candidates(log, us) == {h \in log : InWindow(us, h)}

Attributed == {"matched", "matched_same_ip"}

Unattributed == {"ambiguous", "missed", "no_haproxy_coverage", "no_connect_event"}

Attribution == [status : Attributed, ip : Ip]
               \cup [status : Unattributed, ip : {"none"}]

BeforeLog(log, us) == \A h \in log : us < ConnUs[h]

Refuse(status) == [status |-> status, ip |-> "none"]

\* UNATTRIBUTED_NO_CONNECT
NoConnect == Refuse("no_connect_event")

Attribute(log, us) ==
    LET found == Candidates(log, us)
        ips   == {ConnIp[h] : h \in found}
    IN  CASE BeforeLog(log, us) -> Refuse("no_haproxy_coverage")
          [] ~BeforeLog(log, us) /\ found = {} -> Refuse("missed")
          [] ~BeforeLog(log, us) /\ found # {} ->
                IF Cardinality(ips) > 1 THEN Refuse("ambiguous")
                ELSE [status |-> IF Cardinality(found) = 1 THEN "matched"
                                 ELSE "matched_same_ip",
                      ip     |-> CHOOSE ip \in Ip : ip \in ips]

-----------------------------------------------------------------------------
\* What the lab calls a session and what the Lambda would call its connect
\* event, both over the same connections.
Agree(log, us) ==
    LET lab    == Attribute(log, us).status
        lambda == Correlate(log, us)
    IN  /\ lab = "matched" <=> lambda = "matched"
        /\ lab \in {"matched_same_ip", "ambiguous"} <=> lambda = "ambiguous"
        /\ lab \in {"missed", "no_haproxy_coverage"} <=> lambda = "missed"

=============================================================================
