--------------------------- MODULE MCChatGptWebBridge ---------------------------
EXTENDS ChatGptWebBridge, TLC

\* A machine without the launcher, one that was set up, one that was paused.
Bare   == [app |-> FALSE, running |-> FALSE, runtime |-> FALSE, config |-> "absent", journal |-> "none", daemon |-> "none"]
SetUp  == [app |-> TRUE, running |-> TRUE, runtime |-> TRUE, config |-> "launcher", journal |-> "active", daemon |-> "free"]
\* and one whose launcher is gone, with something else on the port of the route.
Usurped == [Stopped(SetUp) EXCEPT !.daemon = "other"]
MCMachines == {Bare, SetUp, Usurped, Paused(Stopped(SetUp))}

\* The order of SemVer, oldest first; the last one is for another platform.
Number(n) == [word |-> FALSE, rank |-> n]
Word(n)   == [word |-> TRUE, rank |-> n]
Name(numbers, prerelease, platform) == [numbers |-> numbers, prerelease |-> prerelease, platform |-> platform]
MCOrder == <<"0.9.12", "0.10.0-9", "0.10.0-beta", "0.10.0-beta.2", "0.10.0", "0.11.0">>
MCVersions ==
    ("0.9.12"        :> Name(<<0, 9, 12>>, <<>>, "here")) @@
    ("0.10.0-9"      :> Name(<<0, 10, 0>>, <<Number(9)>>, "here")) @@
    ("0.10.0-beta"   :> Name(<<0, 10, 0>>, <<Word(1)>>, "here")) @@
    ("0.10.0-beta.2" :> Name(<<0, 10, 0>>, <<Word(1), Number(2)>>, "here")) @@
    ("0.10.0"        :> Name(<<0, 10, 0>>, <<>>, "here")) @@
    ("0.11.0"        :> Name(<<0, 11, 0>>, <<>>, "elsewhere"))
================================================================================
