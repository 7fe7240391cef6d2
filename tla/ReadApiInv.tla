----------------------------- MODULE ReadApiInv -----------------------------
(***************************************************************************)
(* The inductive invariant behind the safety properties of ReadApi: what a *)
(* fan-out has read so far, and where a listing stands among the rows that *)
(* were there when it began.                                               *)
(***************************************************************************)
EXTENDS ReadApi

\* What was asked lies in the past, and the table has only grown since.
BaseGood ==
    /\ base.limit \in Nat \ {0}
    /\ base.clock \in Hour /\ base.clock <= clock
    /\ base.seen \subseteq stored
    /\ base.oldest \in [Day -> Nat]

\* Of a summary a replica has at least one total, and each was counted.
TotalsGood ==
    \A d \in Day :
        /\ base.oldest[d] \in DOMAIN totals[d]
        /\ Len(totals[d]) <= MaxPuts + 1
        /\ \A i \in DOMAIN totals[d] : totals[d][i] <= DaySize(stored, d)

IdleClean ==
    pc = "idle" => cursor = None /\ listed = <<>> /\ pages = <<>>

\* An hour has read no event that is not its own, and of the values it is
\* through with all that every replica had when it was asked for; a day has
\* read a total that could be read since.
FanOutAt ==
    kind \in FanOut =>
        /\ pc # "page"
        /\ pc # "idle" => DOMAIN left = Work(kind, base.clock)
        /\ kind \in Hourly => \A w \in DOMAIN left :
              /\ got[w] \subseteq Bucket(stored, w)
              /\ \A e \in Bucket(base.seen, w) :
                    ValueOf[e] \in left[w] \/ e \in got[w]
        /\ kind \notin Hourly => \A d \in DOMAIN left :
              left[d] = {} => /\ total[d] \in Offered(d)
                              /\ total[d] <= DaySize(stored, d)
        /\ pc = "done" => Pending = {}

\* The pages of a session follow one another without a gap: a row that was
\* there from the start is on one of them, or past the last.
SessionAt ==
    kind = "session" =>
        /\ pc # "read"
        /\ \A i \in DOMAIN pages :
              /\ pages[i] \cap Fits \subseteq Answered
              /\ pc = "page" => pages[i] # {}
        /\ \A i, j \in DOMAIN pages : i < j =>
              \A e \in pages[i], f \in pages[j] : Older(e, f)
        /\ \A e \in Answered : \E i \in DOMAIN pages : e \in pages[i]
        /\ pc # "idle" => \A e \in base.seen :
              \/ \E i \in DOMAIN pages : e \in pages[i]
              \/ pc = "page" /\ Past(e)

\* A listing of the day has answered nothing older than its cursor, and the
\* cursor has passed no row but those that a page's end fell on.
EventsAt ==
    kind = "events" =>
        /\ pc # "read"
        /\ pc = "page" =>
              /\ \A e \in Answered : cursor # None /\ cursor <= Ts[e]
              /\ \A e \in base.seen \cap Fits :
                    DayOf(e) = base.clock \div HoursPerDay =>
                        \/ e \in Answered
                        \/ TiedAtPageEnd(e)
                        \/ OlderThan(e, cursor)

IInv ==
    /\ TypeOK
    /\ BaseGood
    /\ TotalsGood
    /\ IdleClean
    /\ FanOutAt
    /\ SessionAt
    /\ EventsAt
    /\ ListedInOrder
    /\ GapsExplained
=============================================================================
