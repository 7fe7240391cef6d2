----------------------------- MODULE RuleReplay -----------------------------
(***************************************************************************)
(* The lab from the archive to the evidence: a load (OfflineLoad), then    *)
(* deploy_rules --replay, which creates every rule disabled, enables one   *)
(* at a time, waits for an execution, and disables it again                *)
(* (elastic/soc_elastic/deploy_rules.py); then export_alerts, which pages  *)
(* through the alerts and compares their number, rule by rule, with the    *)
(* rows the rule's query returns (elastic/soc_elastic/export_alerts.py).   *)
(*                                                                         *)
(* Kibana is modelled from how these scripts use it and from what they     *)
(* say of it: an enabled rule runs at once and then every 24 hours; a rule *)
(* of the aggregating kind alerts on every row of every execution, another *)
(* only on documents it has not processed since it was created; an         *)
(* execution makes at most max_signals alerts, and may outlast the wait.   *)
(***************************************************************************)
EXTENDS OfflineLoad

CONSTANTS
    Rules,        \* sequence of rules, as convert yields them
    Aggregating,  \* those whose query has "| stats "
    Matches,      \* [Rule -> SUBSET Line], what their detection selects
    Threshold,    \* documents of one address for a row of an aggregating rule
    MaxSignals,   \* MAX_SIGNALS
    Page,         \* `page` of iter_alerts
    Rank,         \* [Rule \X Row -> Int], the order of alert ids at one time,
                  \* which no two alerts share
    MaxReplays,   \* bound: runs of deploy_rules
    MaxTime       \* bound: seconds that pass while something depends on them

Rule == {Rules[i] : i \in DOMAIN Rules}

Row == Id \cup Ip

ASSUME RuleAssumption ==
    /\ Rules \in Seq(Rule) /\ Rules # <<>>
    /\ Aggregating \subseteq Rule
    /\ Matches \in [Rule -> SUBSET Line]
    /\ Threshold \in Nat \ {0}
    /\ MaxSignals \in Nat \ {0}
    /\ Page \in Nat \ {0}
    /\ IsFiniteSet(Id) /\ IsFiniteSet(Ip)
    /\ Rank \in [Rule \X Row -> Int]
    /\ \A p, q \in Rule \X Row : Rank[p] = Rank[q] => p = q

VARIABLES
    script,    \* deploy_rules: [at, rule: its index, recreate, started; history:
               \* found, the rules that were enabled when it began]
    results,   \* what it has noted of each rule: [Rule -> status or "none"]
    replays,   \* runs of it begun
    spoiled,   \* rules one of whose enable or disable calls has failed
    now,       \* seconds
    enabled,   \* Kibana: the rules that are enabled,
    due,       \* ... of these, the ones whose execution is due,
    enabler,   \* history: the replay that enabled a rule last
    running,   \* ... executions going on: [Rule -> [date, by: its enabler] or Idle]
    last,      \* ... execution_summary.last_execution of each rule, and its enabler
    processed, \* ... the rows a rule keeps from alerting twice
    alerts,    \* ... the alerts: [rule, row, date]
    runs,      \* history: executions with rows to alert on since alerts were cleared
    export     \* export_alerts: [at, before, rows, after, listed]

kibana == <<enabled, due, enabler, running, last, processed, alerts, runs>>
replayVars == <<script, results, replays, spoiled, now, kibana, export>>
vars == <<loadVars, replayVars>>

Idle == [date |-> -1, by |-> 0]
NoExecution == [date |-> -1, by |-> 0, status |-> "none"]
Finished == {"succeeded", "partial failure", "failed"}

Indexed(r) == {id \in Id : index[id] # NoDoc /\ index[id].line \in Matches[r]}

\* The rows the query of a rule returns over the index.
RowsOf(r) ==
    IF r \in Aggregating
    THEN {ip \in Ip : Cardinality({id \in Indexed(r) :
                         index[id].attribution.ip = ip}) >= Threshold}
    ELSE Indexed(r)

Current == Rules[script.rule]

-----------------------------------------------------------------------------
ReplayInit ==
    /\ script = [at |-> "over", rule |-> 0, recreate |-> FALSE, started |-> 0,
                  found |-> {}]
    /\ results = [r \in Rule |-> "none"]
    /\ replays = 0
    /\ spoiled = {}
    /\ now = 0
    /\ enabled = {}
    /\ due = {}
    /\ enabler = [r \in Rule |-> 0]
    /\ running = [r \in Rule |-> Idle]
    /\ last = [r \in Rule |-> NoExecution]
    /\ processed = [r \in Rule |-> {}]
    /\ alerts = {}
    /\ runs = [r \in Rule |-> 0]
    /\ export = [at |-> "off", before |-> {}, rows |-> <<>>, after |-> <<-1, -1>>,
                  listed |-> [r \in Rule |-> "absent"]]

\* deploy_rules starts, over a completed load.  With --recreate the operator
\* has cleared the alerts index first.  A run takes longer than a second.
StartReplay ==
    /\ load = "done"
    /\ script.at = "over" /\ export.at = "off"
    /\ replays < MaxReplays /\ now < MaxTime
    /\ replays' = replays + 1
    /\ now' = now + 1
    /\ \E recreate \in BOOLEAN :
          /\ script' = [at |-> "deploy", rule |-> 1, recreate |-> recreate,
                        started |-> 0, found |-> enabled]
          /\ alerts' = IF recreate THEN {} ELSE alerts
          /\ runs' = IF recreate THEN [r \in Rule |-> 0] ELSE runs
    /\ results' = [r \in Rule |-> "none"]
    /\ UNCHANGED <<spoiled, enabled, due, enabler, running, last, processed, export>>

\* delete_rule: the rule goes, with its state.
Deleted(r) ==
    /\ running' = [running EXCEPT ![r] = Idle]
    /\ last' = [last EXCEPT ![r] = NoExecution]
    /\ processed' = [processed EXCEPT ![r] = {}]

Disabled(r) == enabled' = enabled \ {r} /\ due' = due \ {r}

\* --recreate deletes the rule; upsert creates or updates it, disabled.
DeployRule ==
    /\ script.at = "deploy"
    /\ Disabled(Current)
    /\ spoiled' = spoiled \ {Current}
    /\ IF script.recreate THEN Deleted(Current)
       ELSE UNCHANGED <<running, last, processed>>
    /\ script' = IF script.rule < Len(Rules)
                 THEN [script EXCEPT !.rule = script.rule + 1]
                 ELSE [script EXCEPT !.rule = 1, !.at = "enable"]
    /\ UNCHANGED <<results, replays, now, enabler, alerts, runs, export>>

\* One of these calls raises: before or after the rule was deleted.
DeployFails ==
    /\ script.at = "deploy"
    /\ script' = [script EXCEPT !.at = "over"]
    /\ \/ UNCHANGED <<enabled, due, running, last, processed>>
       \/ script.recreate /\ Disabled(Current) /\ Deleted(Current)
    /\ UNCHANGED <<results, replays, spoiled, now, enabler, alerts, runs, export>>

\* set_enabled(True): the execution is due at once.
Enabled(r) ==
    /\ enabled' = enabled \cup {r}
    /\ due' = due \cup {r}
    /\ enabler' = [enabler EXCEPT ![r] = replays]

\* No more than a whole second is kept of the start.
EnableRule ==
    /\ script.at = "enable"
    /\ script' = [script EXCEPT !.at = "wait", !.started = now]
    /\ Enabled(Current)
    /\ UNCHANGED <<results, replays, spoiled, now, running, last, processed,
                   alerts, runs, export>>

\* The call is outside the try block: whether it took effect or not, the
\* exception ends the script.
EnableFails ==
    /\ script.at = "enable"
    /\ script' = [script EXCEPT !.at = "over"]
    /\ spoiled' = spoiled \cup {Current}
    /\ Enabled(Current) \/ UNCHANGED <<enabled, due, enabler>>
    /\ UNCHANGED <<results, replays, now, running, last, processed, alerts,
                   runs, export>>

\* wait_for_execution returns the last execution, if it is finished and not
\* dated before the start.
Answers_Any(r) == last[r].status \in Finished

Answers(r) == last[r].status \in Finished /\ last[r].date >= script.started

ExecutionSeen ==
    /\ script.at = "wait"
    /\ Answers(Current)
    /\ results' = [results EXCEPT ![Current] = last[Current].status]
    /\ script' = [script EXCEPT !.at = "disable"]
    /\ UNCHANGED <<replays, spoiled, now, kibana, export>>

WaitTimesOut ==
    /\ script.at = "wait"
    /\ results' = [results EXCEPT ![Current] = "timeout"]
    /\ script' = [script EXCEPT !.at = "disable"]
    /\ UNCHANGED <<replays, spoiled, now, kibana, export>>

\* A failing poll goes through `finally` and then ends the script, without
\* a result.
PollFails_NoFinally ==
    /\ script.at = "wait"
    /\ script' = [script EXCEPT !.at = "over"]
    /\ UNCHANGED <<results, replays, spoiled, now, kibana, export>>

PollFails ==
    /\ script.at = "wait"
    /\ script' = [script EXCEPT !.at = "give_up"]
    /\ UNCHANGED <<results, replays, spoiled, now, kibana, export>>

DisableRule ==
    /\ script.at \in {"disable", "give_up"}
    /\ Disabled(Current)
    /\ script' = IF script.at = "disable" /\ script.rule < Len(Rules)
                 THEN [script EXCEPT !.at = "enable", !.rule = script.rule + 1]
                 ELSE [script EXCEPT !.at = "over"]
    /\ UNCHANGED <<results, replays, spoiled, now, enabler, running, last,
                   processed, alerts, runs, export>>

DisableFails ==
    /\ script.at \in {"disable", "give_up"}
    /\ script' = [script EXCEPT !.at = "over"]
    /\ results' = [results EXCEPT ![Current] = "none"]
    /\ spoiled' = spoiled \cup {Current}
    /\ UNCHANGED <<replays, now, kibana, export>>

-----------------------------------------------------------------------------
(* Kibana *)

RunBegins(r) ==
    /\ r \in enabled \cap due /\ running[r] = Idle
    /\ running' = [running EXCEPT ![r] = [date |-> now, by |-> enabler[r]]]
    /\ due' = due \ {r}
    /\ UNCHANGED <<script, results, replays, spoiled, now, enabled, enabler, last,
                   processed, alerts, runs, export>>

\* All the rows left to alert on, or as many of them as max_signals allows.
RunEnds(r) ==
    /\ running[r] # Idle
    /\ LET rows == RowsOf(r) \ processed[r]
       IN \E made \in SUBSET rows :
            /\ Cardinality(made) = IF Cardinality(rows) > MaxSignals
                                   THEN MaxSignals ELSE Cardinality(rows)
            /\ alerts' = alerts \cup {[rule |-> r, row |-> x, date |-> now] : x \in made}
            /\ last' = [last EXCEPT ![r] =
                  [date |-> running[r].date, by |-> running[r].by,
                   status |-> IF made = rows THEN "succeeded" ELSE "partial failure"]]
            /\ processed' = IF r \in Aggregating THEN processed
                            ELSE [processed EXCEPT ![r] = @ \cup rows]
            /\ runs' = IF rows = {} THEN runs ELSE [runs EXCEPT ![r] = @ + 1]
    /\ running' = [running EXCEPT ![r] = Idle]
    /\ UNCHANGED <<script, results, replays, spoiled, now, enabled, due, enabler,
                   export>>

RunFails(r) ==
    /\ running[r] # Idle
    /\ last' = [last EXCEPT ![r] =
          [date |-> running[r].date, by |-> running[r].by, status |-> "failed"]]
    /\ running' = [running EXCEPT ![r] = Idle]
    /\ UNCHANGED <<script, results, replays, spoiled, now, enabled, due, enabler,
                   processed, alerts, runs, export>>

\* A second passes; when the script is over, it may be a whole day.
Tick ==
    /\ now < MaxTime
    /\ enabled # {} \/ \E r \in Rule : running[r] # Idle
    /\ now' = now + 1
    /\ due' = IF script.at = "over" THEN due \cup enabled ELSE due
    /\ UNCHANGED <<script, results, replays, spoiled, enabled, enabler, running, last,
                   processed, alerts, runs, export>>

-----------------------------------------------------------------------------
(* export_alerts *)

SortKey(a) == <<a.date, Rank[<<a.rule, a.row>>]>>

Sorts(j, k) == j[1] < k[1] \/ (j[1] = k[1] /\ j[2] < k[2])

\* search_after: behind the sort values of the last hit.
After_DateOnly(a, key) == a.date > key[1]

After(a, key) == Sorts(key, SortKey(a))

StartExport ==
    /\ script.at = "over" /\ export.at = "off" /\ replays > 0
    /\ export' = [export EXCEPT !.at = "paging", !.before = alerts]
    /\ UNCHANGED <<script, results, replays, spoiled, now, kibana>>

\* One page: the first alerts, in order, behind the last one of the page before.
NextPage ==
    /\ export.at = "paging"
    /\ LET rest == {a \in alerts : After(a, export.after)}
       IN IF rest = {}
          THEN export' = [export EXCEPT !.at = "counting"]
          ELSE \E k \in 1..Page : \E page \in [1..k -> rest] :
                 /\ k = IF Cardinality(rest) < Page THEN Cardinality(rest) ELSE Page
                 /\ \A i, j \in 1..k : i < j => Sorts(SortKey(page[i]), SortKey(page[j]))
                 /\ \A a \in rest \ {page[i] : i \in 1..k} :
                        Sorts(SortKey(page[k]), SortKey(a))
                 /\ export' = [export EXCEPT !.rows = @ \o page, !.after = SortKey(page[k])]
    /\ UNCHANGED <<script, results, replays, spoiled, now, kibana>>

\* summarize: a rule is listed if it has an alert, beside the number of rows
\* its query returns now.
Exported(r) == {i \in DOMAIN export.rows : export.rows[i].rule = r}

MatchesExpected_AtMost(count, expected) == count <= expected

MatchesExpected(count, expected) == count = expected

Summarize ==
    /\ export.at = "counting"
    /\ export' = [export EXCEPT !.at = "done", !.listed =
          [r \in Rule |->
             CASE Exported(r) = {} -> "absent"
               [] Exported(r) # {} ->
                    IF MatchesExpected(Cardinality(Exported(r)), Cardinality(RowsOf(r)))
                    THEN "matches" ELSE "differs"]]
    /\ UNCHANGED <<script, results, replays, spoiled, now, kibana>>

-----------------------------------------------------------------------------
ReplayNext ==
    \/ StartReplay \/ DeployRule \/ DeployFails \/ EnableRule \/ EnableFails
    \/ ExecutionSeen \/ WaitTimesOut \/ PollFails \/ DisableRule \/ DisableFails
    \/ \E r \in Rule : RunBegins(r) \/ RunEnds(r) \/ RunFails(r)
    \/ Tick
    \/ StartExport \/ NextPage \/ Summarize

Init == LoadInit /\ ReplayInit

\* The lab's README has the archive loaded before the rules are deployed.
Next ==
    \/ replays = 0 /\ LoadNext /\ UNCHANGED replayVars
    \/ ReplayNext /\ UNCHANGED loadVars

Spec == Init /\ [][Next]_vars

-----------------------------------------------------------------------------
Steps == {"over", "deploy", "enable", "wait", "disable", "give_up"}

TypeOK ==
    /\ archive \in Archives
    /\ log \in SUBSET Conn
    /\ load \in {"idle", "sending", "failed", "done"}
    /\ at \in 0..Len(archive)
    /\ loads \in Nat
    /\ index \in [Id -> Doc \cup {NoDoc}]
    /\ script \in [at : Steps, rule : Nat, recreate : BOOLEAN, started : Nat,
                   found : SUBSET Rule]
    /\ script.at # "over" => script.rule \in DOMAIN Rules
    /\ results \in [Rule -> Finished \cup {"none", "timeout"}]
    /\ now \in Nat
    /\ enabled \subseteq Rule /\ due \subseteq Rule
    /\ enabler \in [Rule -> Nat]
    /\ running \in [Rule -> [date : Nat \cup {-1}, by : Nat]]
    /\ last \in [Rule -> [date : Nat \cup {-1}, by : Nat, status : Finished \cup {"none"}]]

\* When the script is over no rule stays enabled, to alert again the next
\* day, except one whose own enable or disable call has failed: a failed or
\* abandoned wait disables its rule all the same.
QuietAfterReplay == script.at = "over" => enabled \subseteq spoiled

\* A result the script notes is that of an execution begun after this very
\* replay enabled the rule, and not of one that an earlier replay left due or
\* going on: with one exception, which the dates, compared in whole seconds,
\* cannot tell apart.  A rule found enabled, because an earlier call for it had
\* failed, may begin before it is deployed, in the second in which it is enabled.
Fresh(r, execution) ==
    \/ execution.by = replays
    \/ r \in script.found /\ execution.date = script.started

ResultIsFresh ==
    [][\A r \in Rule : results'[r] # results[r] /\ results'[r] \in Finished =>
          Fresh(r, last[r])]_vars

\* The export has every alert that was there when it started, and none twice,
\* though alerts are added behind and before its cursor while it pages.
ExportComplete ==
    /\ \A i, j \in DOMAIN export.rows : export.rows[i] = export.rows[j] => i = j
    /\ export.at \in {"counting", "done"} =>
          export.before \subseteq {export.rows[i] : i \in DOMAIN export.rows}

\* matches_expected may be read as "the engine dropped nothing", each row has
\* its one alert, of a rule that alerted in a single execution since the alerts
\* were cleared.  Two that each drop half would match as well: of an aggregating
\* rule any two, of another one before and one after the rule was recreated.
SummaryHonest ==
    \A r \in Rule :
      export.listed[r] = "matches" /\ runs[r] = 1 =>
        \A x \in RowsOf(r) : \E i \in Exported(r) : export.rows[i].row = x

=============================================================================
