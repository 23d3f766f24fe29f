------------------------------ MODULE EngineFiles ------------------------------
(***************************************************************************)
(* What the looks read on the machine: the route in the config of Codex and *)
(* the answer of the daemon (vibe-agents, model/chatgptWeb.ts), and the     *)
(* runtime of the launcher among the versions it installed                  *)
(* (model/launcher/runtime.ts).                                             *)
(*                                                                         *)
(* A config is a sequence of lines, and of a line only what the reader's    *)
(* expressions tell apart.  Left out: arrays over several lines, and        *)
(* pre-release words that begin with a digit.                               *)
(***************************************************************************)
EXTENDS Integers, Sequences, FiniteSets, SequencesExt

CONSTANTS
    MaxLines,   \* bound: lines of a config
    Versions,   \* what the names of the directories of `versions` say
    Order       \* those names, the oldest version first

ASSUME FilesAssumption == MaxLines \in Nat

-----------------------------------------------------------------------------
(* The config of Codex                                                      *)

\* A line that begins a string over several lines, and one that ends it, is named by
\* its quotes; "launcher" and "foreign" have the key of the route.
Quotes == {"basic", "literal"}
Line   == Quotes \cup {"table", "launcher", "foreign", "other"}

\* One line, for a reader that knows no strings, and as it is read.  `open` are the
\* quotes of the string the reader is in; `ended` after the key or the first table.
ReadLineFlat(read, line) ==
    CASE read.ended \/ line \in Quotes \cup {"other"} -> read
      [] ~read.ended /\ line = "table" -> [read EXCEPT !.ended = TRUE]
      [] OTHER -> [read EXCEPT !.ended = TRUE, !.route = line]
ReadLine(read, line) ==
    LET outside == ~read.ended /\ read.open = "none" IN
    CASE ~read.ended /\ read.open # "none" -> [read EXCEPT !.open = IF line = @ THEN "none" ELSE @]
      [] outside /\ line \in Quotes -> [read EXCEPT !.open = line]
      [] outside /\ line = "table" -> [read EXCEPT !.ended = TRUE]
      [] outside /\ line \in {"launcher", "foreign"} -> [read EXCEPT !.ended = TRUE, !.route = line]
      [] OTHER -> read

ReadFrom(text) ==
    LET read[n \in 0 .. Len(text)] ==
            IF n = 0 THEN [route |-> "absent", open |-> "none", ended |-> FALSE]
            ELSE ReadLine(read[n - 1], text[n])
    IN  read
ParseLauncherRoute(text) == ReadFrom(text)[Len(text)].route

\* What TOML says: a line is in a string when one before it began it, outside of any
\* other, and none between ended it.
IsMarked(text, inside) ==
    \A i \in DOMAIN text :
        inside[i] <=> \E j \in 1 .. i - 1 :
            /\ text[j] \in Quotes /\ ~inside[j]
            /\ \A k \in j + 1 .. i - 1 : text[k] # text[j]
TopLevelRoute(text) ==
    LET inside == CHOOSE marks \in [DOMAIN text -> BOOLEAN] : IsMarked(text, marks)
        ends == {i \in DOMAIN text : ~inside[i] /\ text[i] \in {"table", "launcher", "foreign"}}
        end  == CHOOSE i \in ends : \A j \in ends : i <= j
    IN  IF ends = {} \/ text[end] = "table" THEN "absent" ELSE text[end]

\* The configs with a route, and what is read from them.
ConfigTexts(route) ==
    {text \in UNION {[1 .. n -> Line] : n \in 0 .. MaxLines} : TopLevelRoute(text) = route}
RoutesRead ==
    [route \in {"absent", "launcher", "foreign"} |-> {ParseLauncherRoute(text) : text \in ConfigTexts(route)}]

-----------------------------------------------------------------------------
(* The answer of the daemon                                                 *)

\* Anything else that answers on its port is no daemon.
ParseHealth(answer) == IF answer \in {"draining", "busy", "free"} THEN answer ELSE "none"

-----------------------------------------------------------------------------
(* The runtime of the launcher                                              *)

\* What the name of a directory of `versions` says.  The parts of a pre-release are
\* numbers or words, and words compare by their rank.
VersionName ==
    [numbers : [1 .. 3 -> Nat], prerelease : Seq([word : BOOLEAN, rank : Nat]), platform : STRING]

FirstDifference(a, b, n) == CHOOSE i \in 1 .. n : a[i] # b[i] /\ \A j \in 1 .. i - 1 : a[j] = b[j]

\* comparePrerelease: part by part, and what has more parts is newer.
ComparePart(a, b) == IF a.word = b.word THEN a.rank - b.rank ELSE IF b.word THEN -1 ELSE 1
CompareParts(a, b) ==
    LET both == IF Len(a) < Len(b) THEN Len(a) ELSE Len(b)
    IN  IF \A i \in 1 .. both : a[i] = b[i] THEN Len(a) - Len(b)
        ELSE LET i == FirstDifference(a, b, both) IN ComparePart(a[i], b[i])

\* A release is newer than its pre-releases.
ComparePrerelease(a, b) ==
    CASE a = <<>> /\ b # <<>> -> 1
      [] a # <<>> /\ b = <<>> -> -1
      [] OTHER -> CompareParts(a, b)

\* compareVersions: positive when `a` is the newer one.
CompareVersions(a, b) ==
    IF a.numbers = b.numbers THEN ComparePrerelease(a.prerelease, b.prerelease)
    ELSE LET i == FirstDifference(a.numbers, b.numbers, 3) IN a.numbers[i] - b.numbers[i]

\* runtimeCandidates: the newest version of this platform first, then PATH.  A setting
\* is the only candidate, and one that is no absolute path is none.  `versions` says
\* what the names of directories say.
NoSetting == ""
Relative  == "relative"
RuntimeCandidates(setting, names, versions, platform, onPath) ==
    LET here == {name \in names : versions[name].platform = platform}
        Newer(name) == {other \in here : CompareVersions(versions[other], versions[name]) > 0}
        Installed ==
            [place \in 1 .. Cardinality(here) |->
                CHOOSE name \in here : Cardinality(Newer(name)) = place - 1]
    IN  CASE setting = Relative  -> <<>>
          [] setting = NoSetting -> Installed \o onPath
          [] OTHER -> <<setting>>

\* findRuntime: the first that exists.
NoRuntime == "none"
FindRuntime(candidates, exists) ==
    LET found == {i \in DOMAIN candidates : candidates[i] \in exists}
    IN  IF found = {} THEN NoRuntime ELSE candidates[CHOOSE i \in found : \A j \in found : i <= j]

-----------------------------------------------------------------------------
(* What NewestRuns (ChatGptWebBridge) says of every choice                  *)

\* The precedence of SemVer.
PartPrecedes(a, b) == IF a.word = b.word THEN a.rank < b.rank ELSE b.word
PrereleasePrecedes(a, b) ==
    /\ a # <<>>
    /\ \/ b = <<>>
       \/ Len(a) < Len(b) /\ \A i \in DOMAIN a : a[i] = b[i]
       \/ \E i \in DOMAIN a \cap DOMAIN b :
              PartPrecedes(a[i], b[i]) /\ \A j \in 1 .. i - 1 : a[j] = b[j]
Precedes(a, b) ==
    \/ a.numbers = b.numbers /\ PrereleasePrecedes(a.prerelease, b.prerelease)
    \/ \E i \in 1 .. 3 :
           a.numbers[i] < b.numbers[i] /\ \A j \in 1 .. i - 1 : a.numbers[j] = b.numbers[j]

\* The launcher names a directory after its version and its platform: no two of a
\* platform are of one version.  None is the path of the setting or of PATH.
ASSUME VersionsAssumption ==
    /\ Versions \in [DOMAIN Versions -> VersionName]
    /\ \A a, b \in DOMAIN Versions : Versions[a] = Versions[b] => a = b
    /\ {"setting", "path"} \cap DOMAIN Versions = {}
    /\ Order \in Seq(DOMAIN Versions) /\ ToSet(Order) = DOMAIN Versions /\ IsInjective(Order)
    /\ \A i, j \in DOMAIN Order : i < j => ~Precedes(Versions[Order[j]], Versions[Order[i]])

\* FindRuntime against the order in which the versions were released.
NewestIsFound ==
    \A names \in SUBSET DOMAIN Versions : \A exists \in SUBSET (names \cup {"path"}) :
        LET here   == {i \in DOMAIN Order : Order[i] \in exists \cap names /\ Versions[Order[i]].platform = "here"}
            newest == CHOOSE i \in here : \A j \in here : j <= i
            Found(setting) == FindRuntime(RuntimeCandidates(setting, names, Versions, "here", <<"path">>), exists)
        IN  /\ Found(NoSetting) = (CASE here # {} -> Order[newest]
                                     [] here = {} /\ "path" \in exists -> "path"
                                     [] OTHER -> NoRuntime)
            /\ Found("setting") = NoRuntime /\ Found(Relative) = NoRuntime
================================================================================
