------------------------ MODULE SyntheticSessionsMC ------------------------
(***************************************************************************)
(* Runs of the generator at the limits of what it draws.                   *)
(***************************************************************************)
EXTENDS SyntheticSessions

Draw(cohort, start, handshake, steps, rest) ==
    [cohort |-> cohort, start |-> start, version |-> handshake[1], kex |-> handshake[2],
     ready |-> handshake[3], steps |-> steps, rest |-> rest]

Quick == <<50, 20, 50>>
Slow  == <<250, 150, 300>>

At(at, eventid, name) == [at |-> at, eventid |-> eventid, name |-> name]

FailuresEvery(gap, names) == [i \in DOMAIN names |-> At(i * gap, LoginFailed, names[i])]

\* The shortest scanner closes before its key exchange, the longest is
\* rounded to 1.8 s; the second one is cut by the target.
Scanners ==
    [target |-> 7,
     draws  |-> <<Draw("scanner", Hour - 350, Slow, <<>>, 300),
                  Draw("scanner", Hour, Quick, <<>>, 1800)>>]

ShortScan == [target |-> 4, draws |-> <<Draw("scanner", Hour, Slow, <<>>, 1800)>>]

\* 1.72 s long, over the turn of an hour.
FastestBruteForce ==
    [target |-> 14,
     draws  |-> <<Draw("brute_force", Hour - 800, Quick,
                       FailuresEvery(150, [i \in 1..10 |-> "root"]), 100)>>]

TenNames ==
    [target |-> 14,
     draws  |-> <<Draw("credential_stuffing", Hour - 1500, Quick, FailuresEvery(200,
                   <<"n1", "n2", "n3", "n4", "n5", "n6", "n7", "n8", "n9", "n10">>), 500)>>]

\* Six attempts with two names, one of them five times, 1.82 s long.
TwoNames ==
    [target |-> 10,
     draws  |-> <<Draw("credential_stuffing", 0, Quick,
                       FailuresEvery(200, <<"n1", "n1", "n1", "n1", "n1">>)
                       \o <<At(1200, LoginSuccess, "n2")>>, 500)>>]

\* A download, over the turn of an hour, and a brute force cut by the target.
Interesting ==
    [target |-> 12,
     draws  |-> <<Draw("interesting", Hour - 1000, Quick,
                       <<At(300, LoginSuccess, "root"), At(800, Command, NoName),
                         At(1300, Command, NoName), At(1800, Command, NoName),
                         At(2300, Download, NoName)>>, 2000),
                  Draw("brute_force", Hour, Slow,
                       FailuresEvery(1200, [i \in 1..10 |-> "root"]), 1000)>>]

MCName == {"root", "n1", "n2", "n3", "n4", "n5", "n6", "n7", "n8", "n9", "n10"}

MCPlays == {Scanners, ShortScan, FastestBruteForce, TenNames, TwoNames, Interesting}

=============================================================================
