---------------------------- MODULE BatchWriteMC ----------------------------
(***************************************************************************)
(* Chunks of two instead of 25; the waits and limits are the real ones.    *)
(* Line b1 comes in two versions, in different chunks of one object and,   *)
(* in the object clash, in one; the object torn has a line cut short.      *)
(***************************************************************************)
EXTENDS BatchWrite

MCLine == {"a", "b1", "b2", "c", "bad", "cut"}
MCKey == {"a", "b", "c"}
MCKeyOf == [l \in MCLine |-> CASE l \in {"b1", "b2"} -> "b" [] l = "c" -> "c" [] OTHER -> "a"]
MCVerdict ==
    [l \in MCLine |-> CASE l = "bad" -> "invalid" [] l = "cut" -> "broken" [] OTHER -> "valid"]
MCObject == {"plain", "tail", "clash", "torn", "empty"}
MCLines ==
    [o \in MCObject |->
        CASE o = "plain" -> <<"a", "b1", "bad", "b2", "c">>
          [] o = "tail"  -> <<"b1">>
          [] o = "clash" -> <<"a", "c", "b1", "b2">>
          [] o = "torn"  -> <<"a", "cut">>
          [] o = "empty" -> <<"bad">>]
MCNotification ==
    {<<"malformed", "plain">>, <<"plain", "tail">>, <<"clash">>, <<"tail", "torn">>, <<"empty">>}
=============================================================================
