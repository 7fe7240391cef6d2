------------------------ MODULE StreamAggregatorInv ------------------------
(***************************************************************************)
(* The inductive invariant behind the safety properties of                 *)
(* StreamAggregator: what a running invocation holds, what a sentinel      *)
(* stands for, and what the mapping's progress stands for.                 *)
(***************************************************************************)
EXTENDS StreamAggregator

Counting == {"count", "technique"}

\* An invocation is somewhere in the range at the head of the queue.
InvocationAt(s) ==
    /\ pc[s] # "idle" =>
          /\ queue[s] # <<>>
          /\ Current(s).lo <= at[s]
          /\ at[s] <= Current(s).hi + 1
    /\ pc[s] \in Counting => at[s] <= Current(s).hi /\ Here(s) \in claims
    /\ pc[s] \notin Counting => todo[s] = <<>>

InvocationGood == \A s \in Shard : InvocationAt(s)

\* What is left to increment has not been incremented for this record.
TodoAt(s) ==
    pc[s] \in Counting =>
        /\ \A i, j \in DOMAIN todo[s] : todo[s][i] = todo[s][j] => i = j
        /\ \A i \in DOMAIN todo[s] : ~Counted(Here(s), todo[s][i])
        /\ pc[s] = "count" =>
              /\ todo[s] \in Seq(Counter \ Technique)
              /\ \A c \in Technique : ~Counted(Here(s), c)
        /\ pc[s] = "technique" => todo[s] \in Seq(Technique)

TodoGood == \A s \in Shard : TodoAt(s)

\* What the invocation at a record has counted or is going to count.
InProgress(r) ==
    LET s == r[1]
        fields == Fields[Rec(r).key][Rec(r).image]
    IN  /\ r = Here(s)
        /\ pc[s] \in Counting
        /\ \A i \in DOMAIN fields :
              \/ Counted(r, fields[i])
              \/ pc[s] = "count" /\ \E j \in DOMAIN todo[s] : todo[s][j] = fields[i]
        /\ pc[s] = "technique" =>
              \/ todo[s] # <<>>
              \/ \E c \in Technique : Counted(r, c)

\* A sentinel stands for a record counted, being counted, or cut short.
ClaimsGood ==
    \A r \in claims :
        /\ Accepts(Rec(r))
        /\ FullyCounted(r) \/ InProgress(r) \/ r \in cut

CountsClaimed == \A c \in Counter : by[c] \subseteq claims

\* Records the mapping is done with, or the running invocation is past.
Passed(r) ==
    LET s == r[1]
    IN  \/ Finished(r)
        \/ pc[s] # "idle" /\ Current(s).lo <= r[2] /\ r[2] < at[s]

PassedGood ==
    \A r \in Published : Passed(r) /\ Accepts(Rec(r)) => r \in claims \cup dlq

IInv ==
    /\ TypeOK
    /\ InvocationGood
    /\ TodoGood
    /\ ClaimsGood
    /\ CountsClaimed
    /\ PassedGood
    /\ CountedAtMostOnce

=============================================================================
