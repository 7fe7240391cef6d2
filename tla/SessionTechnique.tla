-------------------------- MODULE SessionTechnique --------------------------
(***************************************************************************)
(* How a closed session is labelled                                        *)
(* (dashboard/functions/shared/technique_classifier.py), from the items of *)
(* it that the aggregator's query returns                                  *)
(* (_classify_session_for_event in dashboard/functions/aggregator).  The   *)
(* query sees what has been stored by then, and one page of it: a `view`   *)
(* is a function to the events seen, from whatever tells them apart.       *)
(* Times are in tenths of a second.                                        *)
(***************************************************************************)
EXTENDS Integers, FiniteSets

CONSTANT NoName   \* no username in the event

LoginFailed  == "cowrie.login.failed"
LoginSuccess == "cowrie.login.success"

ScannerMaxDuration == 20
CredentialStuffingMinUsernames == 10
BruteForceMinFailures == 5

Failures(view) == {i \in DOMAIN view : view[i].eventid = LoginFailed}

Logins(view) == {i \in DOMAIN view : view[i].eventid \in {LoginFailed, LoginSuccess}}

Usernames(view) == {view[i].name : i \in Logins(view)} \ {NoName}

\* classify_session, of the summary that the view makes.
TechniqueLabel(view, duration) ==
    LET usernames == Cardinality(Usernames(view))
        failures  == Cardinality(Failures(view))
    IN  IF usernames >= CredentialStuffingMinUsernames /\ Logins(view) # {}
        THEN "credential_stuffing"
        ELSE IF failures >= BruteForceMinFailures /\ usernames = 1
        THEN "brute_force"
        ELSE IF duration < ScannerMaxDuration /\ Logins(view) = {}
        THEN "scanner"
        ELSE "other"

=============================================================================
