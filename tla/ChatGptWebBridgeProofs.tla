---------------------------- MODULE ChatGptWebBridgeProofs ----------------------------
(***************************************************************************)
(* Whatever the machine does under the looks, and whatever the user         *)
(* switches meanwhile: the row of the Sessions view tells the state that    *)
(* the panel tells.  Of a config of any length a look reads the top-level   *)
(* key, the compact view offers what can be pressed once, and of whatever   *)
(* versions are installed the newest runs.                                  *)
(*                                                                          *)
(* The reader of the config is a recursion over its lines; that it exists,  *)
(* and what it has read after each line, is shown of the first line where   *)
(* it would be false (LeastOfNat).                                          *)
(***************************************************************************)
EXTENDS ChatGptWebBridge, FiniteSetTheorems, WellFoundedInduction, TLAPS

-----------------------------------------------------------------------------
(* The row                                                                  *)

\* A row that is turned off is not there.
OffHasNoRow == ~enabled => shown = NoRow

\* What was heard of last is what is known, but for a start at which nothing was.
ToldIsKnown == told = "none" \/ told = ClassifyBridge(facts)

IInv == OffHasNoRow /\ ToldIsKnown /\ RowTellsOneStory

\* Every bridge has a state.
LEMMA StateIsNamed == ASSUME NEW f PROVE ClassifyBridge(f) # "none"
<1>1. CASE IsRouteActive(f)
  BY <1>1 DEF ClassifyBridge
<1>2. CASE ~IsRouteActive(f)
  <2>1. CASE f.app = "no"
    BY <1>2, <2>1 DEF ClassifyBridge
  <2>2. CASE f.app # "no" /\ f.config = "foreign"
    BY <1>2, <2>2 DEF ClassifyBridge
  <2>3. CASE f.app # "no" /\ f.config # "foreign"
    BY <1>2, <2>3 DEF ClassifyBridge
  <2>4. QED
    BY <2>1, <2>2, <2>3
<1>3. QED
  BY <1>1, <1>2

\* The row that is presented tells the state.
LEMMA PresentedTells == ASSUME NEW f PROVE PresentBridge(f).state = ClassifyBridge(f)
BY DEF PresentBridge

\* factsChanged: what is heard is told, and shown where no look of the row is under way.
LEMMA HeardKeeps ==
    ASSUME IInv, UNCHANGED <<enabled, looking>>, Heard(facts', enabled)
    PROVE  IInv'
<1> USE DEF IInv, OffHasNoRow, ToldIsKnown, RowTellsOneStory
<1>1. CASE ClassifyBridge(facts') = told
  <2>1. UNCHANGED <<told, shown>>
    BY <1>1 DEF Heard
  <2>2. told = ClassifyBridge(facts)
    BY <1>1, StateIsNamed
  <2>3. ClassifyBridge(facts') = ClassifyBridge(facts)
    BY <1>1, <2>2
  <2>4. QED
    BY <1>1, <2>1, <2>3
<1>2. CASE ClassifyBridge(facts') # told
  <2>1. /\ told' = ClassifyBridge(facts')
        /\ shown' = IF enabled /\ ~looking THEN PresentBridge(facts') ELSE shown
    BY <1>2 DEF Heard
  <2>2. PresentBridge(facts').state = ClassifyBridge(facts')
    BY PresentedTells
  <2>3. QED
    BY <2>1, <2>2
<1>3. QED
  BY <1>1, <1>2

\* Nothing that the row depends on changes, but that a look of it may begin.
LEMMA LookBegins ==
    ASSUME IInv, UNCHANGED <<facts, told, shown, enabled>>, looking' \/ (UNCHANGED looking)
    PROVE  IInv'
BY DEF IInv, OffHasNoRow, ToldIsKnown, RowTellsOneStory

\* The row follows what is known through every step: its own look ends with what is
\* known then, and the setting takes it away.
LEMMA NextKeeps == IInv /\ [Next]_vars => IInv'
<1> SUFFICES ASSUME IInv, [Next]_vars PROVE IInv'
  OBVIOUS
<1> USE DEF control, row
<1>1. CASE Look
  BY <1>1, HeardKeeps DEF Look
<1>2. CASE Act
  BY <1>2, LookBegins DEF Act
<1>3. CASE Done
  <2>1. UNCHANGED <<facts, told, enabled>> /\ looking' = (looking /\ ~Waits)
    BY <1>3 DEF Done, EndsLook
  <2>2. CASE Waits
    <3>1. shown' = IF enabled THEN PresentBridge(facts) ELSE shown
      BY <1>3, <2>2 DEF Done, Show
    <3>2. PresentBridge(facts).state = ClassifyBridge(facts)
      BY PresentedTells
    <3>3. QED
      BY <2>1, <3>1, <3>2 DEF IInv, OffHasNoRow, ToldIsKnown, RowTellsOneStory
  <2>3. CASE ~Waits
    <3>1. UNCHANGED shown
      BY <1>3, <2>3 DEF Done
    <3>2. QED
      BY <2>1, <2>3, <3>1 DEF IInv, OffHasNoRow, ToldIsKnown, RowTellsOneStory
  <2>4. QED
    BY <2>2, <2>3
<1>4. CASE Change \/ TurnEnds
  BY <1>4, LookBegins DEF Change, TurnEnds
<1>5. CASE OnInterval \/ SetVisible \/ PrepareLaunch
  BY <1>5, LookBegins DEF OnInterval, SetVisible, PrepareLaunch, Check
<1>6. CASE ConfigurationChanged
  <2>1. UNCHANGED <<facts, told>> /\ enabled' = ~enabled /\ shown' = IF enabled THEN NoRow ELSE shown
    BY <1>6 DEF ConfigurationChanged
  <2>2. shown' = NoRow
    BY <2>1 DEF IInv, OffHasNoRow
  <2>3. QED
    BY <2>1, <2>2 DEF IInv, OffHasNoRow, ToldIsKnown, RowTellsOneStory
<1>7. CASE AnswerRefusal
  BY <1>7, LookBegins DEF AnswerRefusal, Check
<1>8. CASE PickModel \/ Starts
  BY <1>8, LookBegins DEF PickModel, Starts
<1>9. CASE Refresh \/ TakeNextStep \/ Press
  BY <1>9, LookBegins DEF Refresh, TakeNextStep, Press
<1>10. CASE UNCHANGED vars
  BY <1>10, LookBegins DEF vars
<1>11. QED
  BY <1>1, <1>2, <1>3, <1>4, <1>5, <1>6, <1>7, <1>8, <1>9, <1>10 DEF Next

THEOREM IInvHolds == Spec => []IInv
<1>1. Init => IInv
  BY DEF Init, IInv, OffHasNoRow, ToldIsKnown, RowTellsOneStory
<1>2. QED
  BY <1>1, NextKeeps, PTL DEF Spec

\* The row and the panel tell one story: whenever no look of the row is under way, the
\* row that is shown has the state of what is known (chatgptWeb.ts:factsChanged,
\* check and configurationChanged).
THEOREM RowTellsOneStoryHolds == Spec => []RowTellsOneStory
<1>1. IInv => RowTellsOneStory
  BY DEF IInv
<1>2. QED
  BY <1>1, IInvHolds, PTL

\* A row that is turned off stays away: no look that was under way then brings it back
\* (chatgptWeb.ts:show).
THEOREM OffStaysAway == Spec => []OffHasNoRow
<1>1. IInv => OffHasNoRow
  BY DEF IInv
<1>2. QED
  BY <1>1, IInvHolds, PTL

-----------------------------------------------------------------------------
(* The config of Codex                                                      *)

LEMMA LeastOfNat ==
    ASSUME NEW T \in SUBSET Nat, T # {}
    PROVE  \E m \in T : \A k \in T : m <= k
<1> DEFINE R == {ss \in Nat \X Nat : ss[1] < ss[2]}
<1>1. IsWellFoundedOn(R, Nat)
  BY NatLessThanWellFounded DEF OpToRel
<1> HIDE DEF R
<1>2. PICK m \in T : \A y \in T : ~ (<<y, m>> \in R)
  BY <1>1, WFMin
<1>3. \A y \in T : ~(y < m)
  BY <1>2 DEF R
<1> QED BY <1>3

\* What line i of a config is, as far as the lines before it tell.
Begins(text, inside, j, i) ==
    /\ text[j] \in Quotes /\ ~inside[j]
    /\ \A k \in j + 1 .. i - 1 : text[k] # text[j]
MarkedTo(text, inside, m) ==
    /\ inside \in [1 .. m -> BOOLEAN]
    /\ \A i \in 1 .. m : inside[i] <=> \E j \in 1 .. i - 1 : Begins(text, inside, j, i)

LEMMA MarksExist ==
    ASSUME NEW text \in Seq(Line)
    PROVE  \E marks \in [DOMAIN text -> BOOLEAN] : IsMarked(text, marks)
<1> DEFINE n == Len(text)
           T == {m \in 0 .. n : ~ \E f : MarkedTo(text, f, m)}
<1>0. n \in Nat /\ DOMAIN text = 1 .. n /\ n \in 0 .. n
  OBVIOUS
<1>1. \E f : MarkedTo(text, f, n)
  <2> HIDE DEF n
  <2> SUFFICES ASSUME T # {} PROVE FALSE
    BY <1>0
  <2>1. T \in SUBSET Nat
    BY <1>0
  <2>2. PICK m \in T : \A k \in T : m <= k
    <3> HIDE DEF T
    <3> QED BY <2>1, LeastOfNat
  <2>3. m \in 0 .. n /\ ~ \E f : MarkedTo(text, f, m)
    OBVIOUS
  <2>4. m # 0
    <3>1. MarkedTo(text, [k \in 1 .. 0 |-> FALSE], 0)
      BY DEF MarkedTo
    <3> QED BY <2>3, <3>1
  <2>5. m - 1 \in 0 .. n /\ m - 1 \notin T
    <3> HIDE DEF T
    <3> QED BY <1>0, <2>2, <2>3, <2>4
  <2>6. PICK f : MarkedTo(text, f, m - 1)
    BY <2>5
  <2> DEFINE b == \E j \in 1 .. m - 1 : Begins(text, f, j, m)
             h == [k \in 1 .. m |-> IF k = m THEN b ELSE f[k]]
  <2> HIDE DEF T
  <2>7. m \in Nat /\ (\A k \in 1 .. m : k = m \/ k \in 1 .. (m - 1)) /\ m \in 1 .. m
        /\ \A k \in 1 .. (m - 1) : k \in 1 .. m /\ k # m
    BY <1>0, <2>3, <2>4
  <2>8. b \in BOOLEAN
    OBVIOUS
  <2> HIDE DEF b
  <2>9. /\ h \in [1 .. m -> BOOLEAN] /\ h[m] = b
        /\ \A k \in 1 .. (m - 1) : h[k] = f[k]
    BY <2>6, <2>7, <2>8 DEF MarkedTo
  <2> HIDE DEF h
  <2>10. \A i \in 1 .. m : \A j \in 1 .. i - 1 : Begins(text, h, j, i) <=> Begins(text, f, j, i)
    <3> SUFFICES ASSUME NEW i \in 1 .. m, NEW j \in 1 .. i - 1
                 PROVE  Begins(text, h, j, i) <=> Begins(text, f, j, i)
      OBVIOUS
    <3>1. j \in 1 .. (m - 1)
      BY <2>7
    <3> QED BY <2>9, <3>1 DEF Begins
  <2>11. \A i \in 1 .. m : h[i] <=> \E j \in 1 .. i - 1 : Begins(text, h, j, i)
    <3> SUFFICES ASSUME NEW i \in 1 .. m
                 PROVE  h[i] <=> \E j \in 1 .. i - 1 : Begins(text, h, j, i)
      OBVIOUS
    <3>1. CASE i = m
      BY <2>9, <2>10, <3>1 DEF b
    <3>2. CASE i # m
      <4>1. i \in 1 .. (m - 1)
        BY <2>7, <3>2
      <4>2. h[i] = f[i] /\ (f[i] <=> \E j \in 1 .. i - 1 : Begins(text, f, j, i))
        BY <2>6, <2>9, <4>1 DEF MarkedTo
      <4> QED BY <2>10, <4>2
    <3> QED BY <3>1, <3>2
  <2>12. MarkedTo(text, h, m)
    BY <2>9, <2>11 DEF MarkedTo
  <2> QED BY <2>3, <2>12
<1>2. PICK f : MarkedTo(text, f, n)
  BY <1>1
<1>3. f \in [DOMAIN text -> BOOLEAN] /\ IsMarked(text, f)
  BY <1>0, <1>2 DEF MarkedTo, IsMarked, Begins
<1> QED BY <1>3

\* The recursion of ReadFrom.
Unread == [route |-> "absent", open |-> "none", ended |-> FALSE]
Reader == [route : Routes, open : Quotes \cup {"none"}, ended : BOOLEAN]

LEMMA ReadFromIs ==
    ASSUME NEW text \in Seq(Line)
    PROVE  /\ ReadFrom(text) = [k \in 0 .. Len(text) |->
                  IF k = 0 THEN Unread ELSE ReadLine(ReadFrom(text)[k - 1], text[k])]
<1> DEFINE n == Len(text)
           Solves(f, m) == f = [k \in 0 .. m |-> IF k = 0 THEN Unread ELSE ReadLine(f[k - 1], text[k])]
           T == {m \in 0 .. n : ~ \E f : Solves(f, m)}
<1>0. n \in Nat /\ n \in 0 .. n
  OBVIOUS
<1>1. \E f : Solves(f, n)
  <2> HIDE DEF n
  <2> SUFFICES ASSUME T # {} PROVE FALSE
    <3> HIDE DEF Solves
    <3> QED BY <1>0
  <2>1. T \in SUBSET Nat
    BY <1>0
  <2>2. PICK m \in T : \A k \in T : m <= k
    <3> HIDE DEF T
    <3> QED BY <2>1, LeastOfNat
  <2>3. m # 0
    <3>1. Solves([k \in 0 .. 0 |-> Unread], 0)
      OBVIOUS
    <3> QED BY <3>1
  <2>4. m - 1 \in 0 .. n /\ m - 1 \notin T
    <3>1. m \in 0 .. n
      OBVIOUS
    <3> HIDE DEF T
    <3> QED BY <1>0, <2>2, <2>3, <3>1
  <2>5. PICK f : Solves(f, m - 1)
    <3> HIDE DEF Solves
    <3> QED BY <2>4
  <2> DEFINE h == [k \in 0 .. m |-> IF k = m THEN ReadLine(f[m - 1], text[m]) ELSE f[k]]
  <2>6. \A k \in 0 .. (m - 1) : h[k] = f[k] /\ (k # 0 => k - 1 \in 0 .. (m - 1))
    BY <1>0, <2>4
  <2>7. m \in Nat /\ \A k \in 0 .. m : k = m \/ k \in 0 .. (m - 1)
    BY <1>0, <2>4
  <2>8. h[m] = ReadLine(h[m - 1], text[m])
    BY <2>3, <2>4, <2>6, <2>7
  <2>9. \A k \in 0 .. (m - 1) : h[k] = IF k = 0 THEN Unread ELSE ReadLine(h[k - 1], text[k])
    <3> HIDE DEF h
    <3>1. \A k \in 0 .. (m - 1) : f[k] = IF k = 0 THEN Unread ELSE ReadLine(f[k - 1], text[k])
      BY <2>5
    <3> QED BY <2>6, <3>1
  <2>10. Solves(h, m)
    BY <2>3, <2>7, <2>8, <2>9
  <2> QED BY <2>10
<1> QED BY <1>0, <1>1 DEF ReadFrom, Unread

\* What one line does to what is read.
LEMMA ReadLineIs ==
    ASSUME NEW read \in Reader, NEW line \in Line
    PROVE  LET r == ReadLine(read, line) IN
           /\ r \in Reader
           /\ read.ended \/ (read.open = "none" /\ line = "other") => r = read
           /\ read.ended = FALSE /\ read.open # "none" =>
                 /\ r.ended = FALSE /\ r.route = read.route
                 /\ r.open = IF line = read.open THEN "none" ELSE read.open
           /\ read.ended = FALSE /\ read.open = "none" /\ line \in Quotes =>
                 r.ended = FALSE /\ r.route = read.route /\ r.open = line
           /\ read.ended = FALSE /\ read.open = "none" /\ line \in {"table", "launcher", "foreign"} =>
                 r.ended = TRUE /\ r.route = IF line = "table" THEN read.route ELSE line
<1> USE DEF Reader, Line, Quotes, Routes
<1>1. CASE read.ended = FALSE /\ read.open # "none"
  <2>1. ReadLine(read, line) = [read EXCEPT !.open = IF line = read.open THEN "none" ELSE read.open]
    BY <1>1 DEF ReadLine
  <2> QED BY <1>1, <2>1
<1>2. CASE read.ended = FALSE /\ read.open = "none" /\ line \in Quotes
  <2>1. ReadLine(read, line) = [read EXCEPT !.open = line]
    BY <1>2 DEF ReadLine
  <2> QED BY <1>2, <2>1
<1>3. CASE read.ended = FALSE /\ read.open = "none" /\ line = "table"
  <2>1. ReadLine(read, line) = [read EXCEPT !.ended = TRUE]
    BY <1>3 DEF ReadLine
  <2> QED BY <1>3, <2>1
<1>4. CASE read.ended = FALSE /\ read.open = "none" /\ line \in {"launcher", "foreign"}
  <2>1. ReadLine(read, line) = [read EXCEPT !.ended = TRUE, !.route = line]
    BY <1>4 DEF ReadLine
  <2> QED BY <1>4, <2>1
<1>5. CASE read.ended \/ (read.open = "none" /\ line = "other")
  <2>1. ReadLine(read, line) = read
    BY <1>5 DEF ReadLine
  <2> QED BY <1>5, <2>1
<1> QED BY <1>1, <1>2, <1>3, <1>4, <1>5

\* A line that TOML reads, and that ends what is looked for.
Stops(text, inside, i) == ~inside[i] /\ text[i] \in {"table", "launcher", "foreign"}

\* What is read of the first k lines.  In a string its start is known; outside of one every
\* start has met its end.
ReadTo(text, inside, k, r) ==
    /\ r \in Reader
    /\ r.ended = FALSE =>
         /\ r.route = "absent"
         /\ \A i \in 1 .. k : ~Stops(text, inside, i)
         /\ r.open # "none" => \E j \in 1 .. k : text[j] = r.open /\ Begins(text, inside, j, k + 1)
         /\ r.open = "none" => \A j \in 1 .. k : ~Begins(text, inside, j, k + 1)
    /\ r.ended =>
         \E e \in 1 .. k : /\ Stops(text, inside, e)
                           /\ \A i \in 1 .. e - 1 : ~Stops(text, inside, i)
                           /\ r.route = IF text[e] = "table" THEN "absent" ELSE text[e]

LEMMA LineIsRead ==
    ASSUME NEW text \in Seq(Line), NEW inside \in [DOMAIN text -> BOOLEAN], IsMarked(text, inside),
           NEW k \in Nat, k < Len(text), NEW r, ReadTo(text, inside, k, r)
    PROVE  ReadTo(text, inside, k + 1, ReadLine(r, text[k + 1]))
<1> DEFINE line == text[k + 1]
           s == ReadLine(r, line)
<1>0. /\ k + 1 \in DOMAIN text /\ DOMAIN text = 1 .. Len(text)
      /\ line \in Line /\ r \in Reader
      /\ \A j \in 1 .. k + 1 : j = k + 1 \/ j \in 1 .. k
      /\ \A j \in 1 .. k : j \in 1 .. k + 1 /\ j \in DOMAIN text
      /\ k + 1 \in 1 .. k + 1
  BY DEF ReadTo
<1>1. inside[k + 1] <=> \E j \in 1 .. k : Begins(text, inside, j, k + 1)
  <2>1. \A i \in DOMAIN text : inside[i] <=> \E j \in 1 .. i - 1 : Begins(text, inside, j, i)
    BY DEF IsMarked, Begins
  <2>2. k + 1 - 1 = k
    OBVIOUS
  <2> QED BY <1>0, <2>1, <2>2
<1>2. \A j \in 1 .. k : Begins(text, inside, j, k + 2) <=> Begins(text, inside, j, k + 1) /\ line # text[j]
  <2> SUFFICES ASSUME NEW j \in 1 .. k
               PROVE  Begins(text, inside, j, k + 2) <=> Begins(text, inside, j, k + 1) /\ line # text[j]
    OBVIOUS
  <2>1. \A l : l \in j + 1 .. k + 1 <=> l = k + 1 \/ l \in j + 1 .. k
    OBVIOUS
  <2>2. k + 2 - 1 = k + 1 /\ k + 1 - 1 = k
    OBVIOUS
  <2> QED BY <2>1, <2>2 DEF Begins
<1>3. Begins(text, inside, k + 1, k + 2) <=> line \in Quotes /\ ~inside[k + 1]
  BY DEF Begins
<1>4. k + 1 + 1 = k + 2
  OBVIOUS
<1>5. /\ s \in Reader
      /\ r.ended \/ (r.open = "none" /\ line = "other") => s = r
      /\ r.ended = FALSE /\ r.open # "none" =>
            /\ s.ended = FALSE /\ s.route = r.route
            /\ s.open = IF line = r.open THEN "none" ELSE r.open
      /\ r.ended = FALSE /\ r.open = "none" /\ line \in Quotes =>
            s.ended = FALSE /\ s.route = r.route /\ s.open = line
      /\ r.ended = FALSE /\ r.open = "none" /\ line \in {"table", "launcher", "foreign"} =>
            s.ended = TRUE /\ s.route = IF line = "table" THEN r.route ELSE line
  BY <1>0, ReadLineIs
<1> HIDE DEF s, line
<1>6. r.ended \in BOOLEAN /\ r.open \in Quotes \cup {"none"} /\ inside[k + 1] \in BOOLEAN
  BY <1>0 DEF Reader
<1>7. CASE r.ended
  <2>1. PICK e \in 1 .. k : /\ Stops(text, inside, e)
                            /\ \A i \in 1 .. e - 1 : ~Stops(text, inside, i)
                            /\ r.route = IF text[e] = "table" THEN "absent" ELSE text[e]
    BY <1>7 DEF ReadTo
  <2>2. s = r /\ e \in 1 .. k + 1
    BY <1>0, <1>5, <1>7
  <2>3. ReadTo(text, inside, k + 1, s)
    BY <1>0, <1>7, <2>1, <2>2 DEF ReadTo
  <2> QED BY <2>3 DEF s, line
<1>8. CASE r.ended = FALSE /\ r.open # "none"
  <2>1. PICK j \in 1 .. k : text[j] = r.open /\ Begins(text, inside, j, k + 1)
    BY <1>8 DEF ReadTo
  <2>2. inside[k + 1]
    BY <1>1, <2>1
  <2>3. \A i \in 1 .. k + 1 : ~Stops(text, inside, i)
    BY <1>0, <1>8, <2>2 DEF ReadTo, Stops
  <2>4. CASE line # r.open
    <3>1. Begins(text, inside, j, k + 2) /\ j \in 1 .. k + 1
      BY <1>0, <1>2, <2>1, <2>4
    <3>2. s.open = r.open /\ s.ended = FALSE /\ s.route = "absent"
      BY <1>5, <1>8, <2>4 DEF ReadTo
    <3>3. ReadTo(text, inside, k + 1, s)
      BY <1>4, <1>5, <1>8, <2>1, <2>3, <3>1, <3>2 DEF ReadTo
    <3> QED BY <3>3 DEF s, line
  <2>5. CASE line = r.open
    <3>1. \A i \in 1 .. k : Begins(text, inside, i, k + 1) => i = j
      <4> SUFFICES ASSUME NEW i \in 1 .. k, Begins(text, inside, i, k + 1), i # j PROVE FALSE
        OBVIOUS
      <4>1. CASE i < j
        <5>1. i \in 1 .. j - 1 /\ j \in DOMAIN text /\ \A l \in i + 1 .. j - 1 : l \in i + 1 .. k + 1 - 1
          BY <1>0, <4>1
        <5>2. Begins(text, inside, i, j)
          BY <5>1 DEF Begins
        <5>3. inside[j]
          BY <5>1, <5>2 DEF IsMarked, Begins
        <5> QED BY <2>1, <5>3 DEF Begins
      <4>2. CASE j < i
        <5>1. j \in 1 .. i - 1 /\ i \in DOMAIN text /\ \A l \in j + 1 .. i - 1 : l \in j + 1 .. k + 1 - 1
          BY <1>0, <4>2
        <5>2. Begins(text, inside, j, i)
          BY <2>1, <5>1 DEF Begins
        <5>3. inside[i]
          BY <5>1, <5>2 DEF IsMarked, Begins
        <5> QED BY <5>3 DEF Begins
      <4> QED BY <4>1, <4>2
    <3>2. \A i \in 1 .. k + 1 : ~Begins(text, inside, i, k + 2)
      BY <1>0, <1>2, <1>3, <2>1, <2>2, <2>5, <3>1
    <3>3. s.open = "none" /\ s.ended = FALSE /\ s.route = "absent"
      BY <1>5, <1>8, <2>5 DEF ReadTo
    <3>4. ReadTo(text, inside, k + 1, s)
      BY <1>4, <1>5, <2>3, <3>2, <3>3 DEF ReadTo
    <3> QED BY <3>4 DEF s, line
  <2> QED BY <2>4, <2>5
<1>9. CASE r.ended = FALSE /\ r.open = "none"
  <2>1. /\ r.route = "absent"
        /\ \A i \in 1 .. k : ~Stops(text, inside, i)
        /\ \A j \in 1 .. k : ~Begins(text, inside, j, k + 1)
    BY <1>9 DEF ReadTo
  <2>2. inside[k + 1] = FALSE
    BY <1>1, <1>6, <2>1
  <2>3. \A j \in 1 .. k : ~Begins(text, inside, j, k + 2)
    BY <1>2, <2>1
  <2>4. CASE line \in Quotes
    <3>1. s.open = line /\ s.ended = FALSE /\ s.route = "absent" /\ s.open # "none"
      BY <1>5, <1>9, <2>1, <2>4 DEF Quotes
    <3>2. Begins(text, inside, k + 1, k + 2) /\ text[k + 1] = s.open
      BY <1>3, <2>2, <2>4, <3>1 DEF line
    <3>3. \A i \in 1 .. k + 1 : ~Stops(text, inside, i)
      BY <1>0, <2>1, <2>4 DEF Stops, Quotes, line
    <3>4. ReadTo(text, inside, k + 1, s)
      BY <1>0, <1>4, <1>5, <3>1, <3>2, <3>3 DEF ReadTo
    <3> QED BY <3>4 DEF s, line
  <2>5. CASE line = "other"
    <3>1. s = r
      BY <1>5, <1>9, <2>5
    <3>2. \A i \in 1 .. k + 1 : ~Stops(text, inside, i)
      BY <1>0, <2>1, <2>5 DEF Stops, line
    <3>3. \A i \in 1 .. k + 1 : ~Begins(text, inside, i, k + 2)
      BY <1>0, <1>3, <2>3, <2>5 DEF Quotes
    <3>4. ReadTo(text, inside, k + 1, s)
      BY <1>4, <1>5, <1>9, <2>1, <3>1, <3>2, <3>3 DEF ReadTo
    <3> QED BY <3>4 DEF s, line
  <2>6. CASE line \in {"table", "launcher", "foreign"}
    <3>1. s.ended = TRUE /\ s.route = IF line = "table" THEN "absent" ELSE line
      BY <1>5, <1>9, <2>1, <2>6
    <3>2. Stops(text, inside, k + 1) /\ k + 1 - 1 = k
      BY <2>2, <2>6 DEF Stops, line
    <3>3. ReadTo(text, inside, k + 1, s)
      <4>1. \E e \in 1 .. k + 1 : /\ Stops(text, inside, e)
                                  /\ \A i \in 1 .. e - 1 : ~Stops(text, inside, i)
                                  /\ s.route = IF text[e] = "table" THEN "absent" ELSE text[e]
        BY <1>0, <2>1, <3>1, <3>2 DEF line
      <4> QED BY <1>5, <3>1, <4>1 DEF ReadTo
    <3> QED BY <3>3 DEF s, line
  <2> QED BY <1>0, <2>4, <2>5, <2>6 DEF Line
<1> QED BY <1>6, <1>7, <1>8, <1>9

\* Of every config the reader reads the top-level key of TOML.
LEMMA ReadsTopLevel ==
    ASSUME NEW text \in Seq(Line)
    PROVE  ParseLauncherRoute(text) = TopLevelRoute(text)
<1> DEFINE inside == CHOOSE marks \in [DOMAIN text -> BOOLEAN] : IsMarked(text, marks)
           n == Len(text)
           R == ReadFrom(text)
           T == {k \in 0 .. n : ~ReadTo(text, inside, k, R[k])}
<1>1. inside \in [DOMAIN text -> BOOLEAN] /\ IsMarked(text, inside)
  BY MarksExist
<1>2. n \in Nat /\ DOMAIN text = 1 .. n
      /\ \A k \in 0 .. n : R[k] = IF k = 0 THEN Unread ELSE ReadLine(R[k - 1], text[k])
  BY ReadFromIs
<1> DEFINE ends == {i \in DOMAIN text : ~inside[i] /\ text[i] \in {"table", "launcher", "foreign"}}
           end  == CHOOSE i \in ends : \A j \in ends : i <= j
<1>3. /\ ParseLauncherRoute(text) = R[n].route
      /\ TopLevelRoute(text) = IF ends = {} \/ text[end] = "table" THEN "absent" ELSE text[end]
  BY DEF ParseLauncherRoute, TopLevelRoute
<1> HIDE DEF inside, n, R
<1>4. T = {}
  <2> SUFFICES ASSUME T # {} PROVE FALSE
    OBVIOUS
  <2>1. T \in SUBSET Nat
    BY <1>2
  <2>2. PICK m \in T : \A k \in T : m <= k
    <3> HIDE DEF T
    <3> QED BY <2>1, LeastOfNat
  <2>3. m \in 0 .. n /\ ~ReadTo(text, inside, m, R[m])
    OBVIOUS
  <2>4. m # 0
    <3>1. Unread \in Reader /\ Unread.ended = FALSE /\ Unread.route = "absent" /\ Unread.open = "none"
      BY DEF Unread, Reader, Routes
    <3>2. ReadTo(text, inside, 0, Unread)
      BY <3>1 DEF ReadTo
    <3>3. 0 \in 0 .. n
      BY <1>2
    <3>4. R[0] = Unread
      BY <1>2, <3>3
    <3> QED BY <2>3, <3>2, <3>4
  <2>5. m - 1 \in 0 .. n /\ m - 1 \notin T /\ m - 1 \in Nat /\ m - 1 < n /\ m - 1 + 1 = m
    <3> HIDE DEF T
    <3> QED BY <1>2, <2>2, <2>3, <2>4
  <2>6. ReadTo(text, inside, m - 1, R[m - 1])
    BY <2>5
  <2>7. ReadTo(text, inside, m - 1 + 1, ReadLine(R[m - 1], text[m - 1 + 1]))
    <3> HIDE DEF T
    <3> QED BY <1>1, <2>5, <2>6, LineIsRead DEF n
  <2>8. R[m] = ReadLine(R[m - 1], text[m])
    BY <1>2, <2>3, <2>4
  <2> QED BY <2>3, <2>5, <2>7, <2>8
<1>5. n \in 0 .. n
  BY <1>2
<1>6. ReadTo(text, inside, n, R[n])
  BY <1>4, <1>5
<1> HIDE DEF T
<1>7. \A i \in 1 .. n : i \in ends <=> Stops(text, inside, i)
  BY <1>2 DEF Stops
<1>8. CASE R[n].ended = FALSE
  <2>1. R[n].route = "absent" /\ ends = {}
    BY <1>2, <1>6, <1>7, <1>8 DEF ReadTo
  <2> HIDE DEF ends, end
  <2> QED BY <1>3, <2>1
<1>9. CASE R[n].ended
  <2>1. PICK e \in 1 .. n : /\ Stops(text, inside, e)
                            /\ \A i \in 1 .. e - 1 : ~Stops(text, inside, i)
                            /\ R[n].route = IF text[e] = "table" THEN "absent" ELSE text[e]
    BY <1>6, <1>9 DEF ReadTo
  <2>2. e \in ends /\ ends \subseteq 1 .. n
    BY <1>2, <1>7, <2>1
  <2>3. \A i \in ends : e <= i
    <3> SUFFICES ASSUME NEW i \in ends, i < e PROVE FALSE
      BY <1>2, <2>2
    <3>1. i \in 1 .. e - 1 /\ Stops(text, inside, i)
      BY <1>2, <1>7, <2>2
    <3> QED BY <2>1, <3>1
  <2>4. end = e
    <3> HIDE DEF ends
    <3>1. end \in ends /\ \A j \in ends : end <= j
      BY <2>2, <2>3
    <3> HIDE DEF end
    <3>2. end \in Int /\ e \in Int
      BY <1>2, <2>2, <3>1
    <3> QED BY <2>2, <2>3, <3>1, <3>2
  <2> HIDE DEF ends, end
  <2> QED BY <1>3, <2>1, <2>2, <2>4
<1>10. R[n].ended \in BOOLEAN
  BY <1>6 DEF ReadTo, Reader
<1> QED BY <1>8, <1>9, <1>10

\* Whatever config is read, its route is that of the machine.
LEMMA RoutesReadIs ==
    ASSUME NEW config \in Routes, NEW route \in RoutesRead[config]
    PROVE  route = config
<1>1. PICK text \in ConfigTexts(config) : route = ParseLauncherRoute(text)
  BY DEF RoutesRead, Routes
<1>2. PICK m \in 0 .. MaxLines : text \in [1 .. m -> Line]
  BY <1>1 DEF ConfigTexts
<1>3. TopLevelRoute(text) = config
  BY <1>1 DEF ConfigTexts
<1>4. text \in Seq(Line)
  BY <1>2, FilesAssumption
<1> QED BY <1>1, <1>3, <1>4, ReadsTopLevel

-----------------------------------------------------------------------------
(* The types                                                                *)

Key  == Looks \cup Operation
Task == Probe \cup {"act"}

LEMMA ProbedTypes ==
    ASSUME NEW f \in LauncherFacts, NEW m \in Machine, NEW probe \in Probe
    PROVE  Probed(probe, f, m) \in LauncherFacts
<1> USE DEF LauncherFacts, Machine, Known, Routes
<1>1. CASE probe = "engine"
  <2>1. Probed(probe, f, m) = [f EXCEPT !.app = YesOrNo(m.app), !.running = YesOrNo(m.running)]
    BY <1>1 DEF Probed
  <2>2. YesOrNo(m.app) \in Known /\ YesOrNo(m.running) \in Known
    BY DEF YesOrNo
  <2> QED BY <2>1, <2>2
<1>2. CASE probe = "route"
  <2>1. Probed(probe, f, m) = [f EXCEPT !.config = m.config]
    BY <1>2 DEF Probed
  <2> QED BY <2>1
<1>3. CASE probe = "health"
  <2>1. Probed(probe, f, m) = [f EXCEPT !.health = IF HasPort(f) THEN ParseHealth(m.daemon) ELSE "none"]
    BY <1>3 DEF Probed
  <2>2. ParseHealth(m.daemon) \in {"none", "draining", "busy", "free"}
    BY DEF ParseHealth
  <2> QED BY <2>1, <2>2
<1>4. CASE probe = "runtime"
  <2>1. Probed(probe, f, m) = [f EXCEPT !.runtime = m.runtime]
    BY <1>4 DEF Probed
  <2> QED BY <2>1
<1>5. CASE probe = "status"
  <2>1. Probed(probe, f, m) = [f EXCEPT !.journal = IF f.runtime /\ m.runtime THEN m.journal ELSE "failed"]
    BY <1>5 DEF Probed
  <2> QED BY <2>1
<1> QED BY <1>1, <1>2, <1>3, <1>4, <1>5 DEF Probe

LEMMA PlanTypes == ASSUME NEW key, NEW f PROVE Plan(key, f) \in Seq(Task)
<1> USE DEF Task, Probe
<1>1. /\ FreeProbes \in Seq(Task) /\ OpenProbes \in Seq(Task) /\ <<"runtime">> \in Seq(Task)
      /\ <<"act">> \in Seq(Task) /\ <<>> \in Seq(Task)
  BY DEF FreeProbes, OpenProbes
<1>2. CASE key = "interval"
  BY <1>1, <1>2 DEF Plan
<1>3. CASE key = "open"
  BY <1>1, <1>3 DEF Plan
<1>4. CASE key = "probe.runtime"
  BY <1>1, <1>4 DEF Plan
<1>5. CASE key \notin {"interval", "open", "probe.runtime"}
  <2> DEFINE first == IF "runtime" \in Preconditions(key) /\ ~f.runtime THEN <<"runtime">> ELSE <<>>
  <2>1. Plan(key, f) = first \o FreeProbes \o <<"act">>
    BY <1>5 DEF Plan
  <2>2. first \in Seq(Task)
    BY <1>1
  <2> HIDE DEF first
  <2> QED BY <1>1, <2>1, <2>2
<1> QED BY <1>2, <1>3, <1>4, <1>5

LEMMA ReprobeTypes == ASSUME NEW key PROVE Reprobe(key) \in Seq(Task)
<1>1. /\ <<"status", "route", "health">> \in Seq(Task) /\ <<"engine", "route", "health">> \in Seq(Task)
      /\ <<"health">> \in Seq(Task) /\ <<>> \in Seq(Task)
  BY DEF Task, Probe
<1> HIDE DEF Task
<1> QED BY <1>1 DEF Reprobe

LEMMA EffectTypes ==
    ASSUME NEW m \in Machine, NEW op
    PROVE  /\ Effect(op, m) \in Machine
           /\ {Started(m), Stopped(m), Paused(m), Connected(m), Removed(m)} \subseteq Machine
<1> USE DEF Machine, Routes
<1>1. /\ Started(m) \in Machine /\ Stopped(m) \in Machine /\ Paused(m) \in Machine
      /\ Connected(m) \in Machine /\ Removed(m) \in Machine
  BY DEF Started, Stopped, Paused, Connected, Removed
<1>2. Connected(Started(m)) \in Machine
  <2>1. Started(m) \in Machine
    BY <1>1
  <2> QED BY <2>1 DEF Connected
<1>3. [m EXCEPT !.daemon = IF m.daemon = "busy" THEN "free" ELSE m.daemon] \in Machine
  OBVIOUS
<1> QED BY <1>1, <1>2, <1>3 DEF Effect, Handoff

LEMMA StateTypes ==
    ASSUME NEW f
    PROVE  /\ ClassifyBridge(f) \in BridgeState
           /\ PresentBridge(f) \in [state : BridgeState \cup {"none"}, closed : BOOLEAN]
<1>1. ClassifyBridge(f) \in BridgeState
  BY DEF ClassifyBridge, BridgeState
<1>2. PresentBridge(f) \in [state : BridgeState \cup {"none"}, closed : BOOLEAN]
  BY <1>1 DEF PresentBridge
<1> QED BY <1>1, <1>2

LEMMA OpenStepIs ==
    ASSUME NEW f
    PROVE  OpenSteps(Steps(f)) # {} => NextStep(f) \in {Steps(f)[i] : i \in 1 .. 7}
<1> SUFFICES ASSUME OpenSteps(Steps(f)) # {} PROVE NextStep(f) \in {Steps(f)[i] : i \in 1 .. 7}
  OBVIOUS
<1>1. DOMAIN Steps(f) = 1 .. 7
  BY DEF Steps
<1>2. OpenSteps(Steps(f)) \subseteq 1 .. 7
  BY <1>1 DEF OpenSteps
<1>3. OpenSteps(Steps(f)) \in SUBSET Nat
  BY <1>2
<1>4. \E m \in OpenSteps(Steps(f)) : \A k \in OpenSteps(Steps(f)) : m <= k
  BY <1>3, LeastOfNat
<1>5. Min(OpenSteps(Steps(f))) \in OpenSteps(Steps(f))
  BY <1>4 DEF Min
<1>6. NextStep(f) = Steps(f)[Min(OpenSteps(Steps(f)))]
  BY DEF NextStep, FirstOpen
<1> QED BY <1>2, <1>5, <1>6

\* What is offered is in the catalogue.
LEMMA OfferedTypes ==
    ASSUME NEW f
    PROVE  /\ NextStep(f).operations \subseteq Operation
           /\ \A i \in DOMAIN CompactItems(f) : CompactItems(f)[i] \subseteq Operation
<1> USE DEF Operation, ShowsWindow, Handoff
<1>1. \A i \in 1 .. 7 : Steps(f)[i].operations \subseteq Operation
  <2>1. /\ LauncherStep(f).operations \subseteq Operation
        /\ RuntimeStep(f).operations \subseteq Operation
        /\ EngineStep(f).operations \subseteq Operation
        /\ SignInStep(f).operations \subseteq Operation
    BY DEF LauncherStep, RuntimeStep, EngineStep, SignInStep, Step
  <2>2. /\ SmokeStep(f).operations \subseteq Operation
        /\ InstallStep(f).operations \subseteq Operation
        /\ ConnectStep(f).operations \subseteq Operation
    BY DEF SmokeStep, InstallStep, ConnectStep, Step
  <2>3. \A i \in 1 .. 7 : i \in {1, 2, 3, 4, 5, 6, 7}
    OBVIOUS
  <2> HIDE DEF Operation
  <2>4. /\ Steps(f)[1] = LauncherStep(f) /\ Steps(f)[2] = RuntimeStep(f) /\ Steps(f)[3] = EngineStep(f)
        /\ Steps(f)[4] = SignInStep(f) /\ Steps(f)[5] = SmokeStep(f) /\ Steps(f)[6] = InstallStep(f)
        /\ Steps(f)[7] = ConnectStep(f)
    BY DEF Steps
  <2> QED BY <2>1, <2>2, <2>3, <2>4
<1>2. NextStep(f).operations \subseteq Operation
  <2>1. CASE OpenSteps(Steps(f)) = {}
    <3>1. NextStep(f).operations = {}
      BY <2>1 DEF NextStep, FirstOpen, NoStep, Step
    <3> QED BY <3>1
  <2>2. CASE OpenSteps(Steps(f)) # {}
    BY <1>1, <2>2, OpenStepIs
  <2> QED BY <2>1, <2>2
<1>3. OfState(f) \subseteq Operation
  BY DEF OfState
<1>4. StateOperations(f) \subseteq Operation
  BY <1>2, <1>3 DEF StateOperations
<1>5. RouteOperation(f) \in Operation /\ ProcessOperations(f) \subseteq Operation
  BY DEF RouteOperation, ProcessOperations
<1> HIDE DEF Operation
<1>6. /\ Attention(f) \subseteq Operation /\ NextItem(f) \subseteq Operation
      /\ BridgeItem(f) \subseteq Operation /\ EngineItem(f) \subseteq Operation
  BY <1>2, <1>4, <1>5 DEF Attention, NextItem, BridgeItem, KeptRoute, EngineItem
<1> QED BY <1>2, <1>6 DEF CompactItems

LEMMA EnqueueTypes ==
    ASSUME jobs \in Seq(Key), todo \in Seq(Task), NEW key \in Key, Enqueue(key)
    PROVE  jobs' \in Seq(Key) /\ todo' \in Seq(Task)
<1>1. Plan(key, facts) \in Seq(Task)
  BY PlanTypes
<1>2. CASE \E i \in DOMAIN jobs : jobs[i] = key
  BY <1>2 DEF Enqueue, control
<1>3. CASE ~ \E i \in DOMAIN jobs : jobs[i] = key
  <2>1. jobs' = Append(jobs, key) /\ todo' = IF jobs = <<>> THEN Plan(key, facts) ELSE todo
    BY <1>3 DEF Enqueue
  <2> QED BY <1>1, <2>1
<1> QED BY <1>2, <1>3

LEMMA CheckTypes ==
    ASSUME jobs \in Seq(Key), todo \in Seq(Task), Check
    PROVE  jobs' \in Seq(Key) /\ todo' \in Seq(Task) /\ looking' \in BOOLEAN
<1>1. "interval" \in Key
  BY DEF Key, Looks
<1>2. CASE looking
  BY <1>2 DEF Check, control
<1>3. CASE ~looking
  BY <1>1, <1>3, EnqueueTypes DEF Check
<1> QED BY <1>2, <1>3

LEMMA InitTypes == Init => TypeOK
<1> SUFFICES ASSUME Init PROVE TypeOK
  OBVIOUS
<1>1. machine \in Machine
  BY MachinesAssumption DEF Init
<1>2. facts \in LauncherFacts
  BY DEF Init, EmptyFacts, LauncherFacts, Known, Routes
<1>3. <<>> \in Seq(Looks \cup Operation) /\ <<>> \in Seq(Probe \cup {"act"})
  OBVIOUS
<1>4. shown \in [state : BridgeState \cup {"none"}, closed : BOOLEAN]
  BY DEF Init, NoRow
<1>5. jobs \in Seq(Looks \cup Operation) /\ todo \in Seq(Probe \cup {"act"})
  BY <1>3 DEF Init
<1>6. {visible, enabled, looking} \subseteq BOOLEAN
  BY DEF Init
<1>7. changes \in 0..MaxChanges /\ asks \in 0..MaxAsks
  BY BoundsAssumption DEF Init
<1>8. /\ told \in BridgeState \cup {"none"} /\ launch \in {"none", "looks", "picks", "starts"}
      /\ refusal \in {"none", "open-panel", "recheck", "project-page"}
  BY DEF Init
<1> QED BY <1>1, <1>2, <1>4, <1>5, <1>6, <1>7, <1>8 DEF TypeOK

LEMMA NextTypes == TypeOK /\ [Next]_vars => TypeOK'
<1> SUFFICES ASSUME TypeOK, [Next]_vars PROVE TypeOK'
  OBVIOUS
<1> USE DEF control, row
<1>0. /\ jobs \in Seq(Key) /\ todo \in Seq(Task)
      /\ visible \in BOOLEAN /\ enabled \in BOOLEAN /\ looking \in BOOLEAN
      /\ machine \in Machine /\ facts \in LauncherFacts
  BY DEF TypeOK, Key, Task
<1>1. CASE Look
  <2>1. todo # <<>> /\ Head(todo) # "act"
    BY <1>1 DEF Look
  <2>2. Head(todo) \in Probe /\ Tail(todo) \in Seq(Task)
    <3>1. Head(todo) \in Task /\ Tail(todo) \in Seq(Task)
      BY <1>0, <2>1
    <3> QED BY <2>1, <3>1 DEF Task
  <2>3. PICK route \in RoutesRead[machine.config] :
           facts' = Probed(Head(todo), facts, [machine EXCEPT !.config = route])
    BY <1>1 DEF Look
  <2>4. machine.config \in Routes
    BY <1>0 DEF Machine
  <2>5. route = machine.config
    BY <2>4, RoutesReadIs
  <2>6. [machine EXCEPT !.config = route] \in Machine
    BY <1>0, <2>4, <2>5 DEF Machine
  <2>7. facts' \in LauncherFacts
    BY <1>0, <2>2, <2>3, <2>6, ProbedTypes
  <2>8. todo' \in Seq(Task)
    <3>1. "status" \in Task
      BY DEF Task, Probe
    <3> QED BY <1>1, <2>2, <3>1 DEF Look
  <2>9. /\ told' \in BridgeState \cup {"none"}
        /\ shown' \in [state : BridgeState \cup {"none"}, closed : BOOLEAN]
    <3>1. Heard(facts', enabled)
      BY <1>1 DEF Look
    <3>2. ClassifyBridge(facts') \in BridgeState
      BY StateTypes
    <3>3. PresentBridge(facts') \in [state : BridgeState \cup {"none"}, closed : BOOLEAN]
      BY StateTypes
    <3> QED BY <3>1, <3>2, <3>3 DEF Heard, TypeOK
  <2> QED BY <1>1, <2>7, <2>8, <2>9 DEF Look, TypeOK, Task
<1>2. CASE Act
  <2>1. Effect(Head(jobs), machine) \in Machine
    BY <1>0, EffectTypes
  <2>2. Reprobe(Head(jobs)) \in Seq(Task) /\ <<>> \in Seq(Task)
    BY ReprobeTypes
  <2>3. machine' \in Machine /\ todo' \in Seq(Task)
    BY <1>0, <1>2, <2>1, <2>2 DEF Act
  <2> QED BY <1>2, <2>3 DEF Act, TypeOK, Task
<1>3. CASE Done
  <2>1. jobs' \in Seq(Key)
    <3>1. jobs # <<>> /\ jobs' = Tail(jobs)
      BY <1>3 DEF Done
    <3> QED BY <1>0, <3>1
  <2>2. todo' \in Seq(Task)
    <3>1. todo' = IF Tail(jobs) = <<>> THEN <<>> ELSE Plan(Head(Tail(jobs)), facts)
      BY <1>3 DEF Done
    <3>2. Plan(Head(Tail(jobs)), facts) \in Seq(Task) /\ <<>> \in Seq(Task)
      BY PlanTypes
    <3> QED BY <3>1, <3>2
  <2>3. looking' \in BOOLEAN
    BY <1>3 DEF Done, EndsLook
  <2>4. shown' \in [state : BridgeState \cup {"none"}, closed : BOOLEAN]
    <3>1. IF Waits THEN Show(PresentBridge(facts), enabled) ELSE UNCHANGED shown
      BY <1>3 DEF Done
    <3>2. PresentBridge(facts) \in [state : BridgeState \cup {"none"}, closed : BOOLEAN]
      BY StateTypes
    <3> QED BY <3>1, <3>2 DEF Show, TypeOK
  <2>5. /\ launch' \in {"none", "looks", "picks", "starts"}
        /\ refusal' \in {"none", "open-panel", "recheck", "project-page"}
    <3>1. CASE Waits /\ launch = "looks" /\ IsReadyState(ClassifyBridge(facts))
      BY <1>3, <3>1 DEF Done, TypeOK
    <3>2. CASE Waits /\ launch = "looks" /\ ~IsReadyState(ClassifyBridge(facts))
      <4>1. launch' = "none" /\ Refuse(ClassifyBridge(facts))
        BY <1>3, <3>2 DEF Done
      <4>2. ActionOf(ClassifyBridge(facts)) \in {"none", "open-panel", "recheck", "project-page"}
        BY DEF ActionOf
      <4> QED BY <4>1, <4>2 DEF Refuse, TypeOK
    <3>3. CASE ~(Waits /\ launch = "looks")
      BY <1>3, <3>3 DEF Done, TypeOK
    <3> QED BY <3>1, <3>2, <3>3
  <2>6. UNCHANGED <<machine, facts, visible, enabled, told, changes, asks>>
    BY <1>3 DEF Done
  <2> QED BY <2>1, <2>2, <2>3, <2>4, <2>5, <2>6 DEF TypeOK, Key, Task
<1>4. CASE Change
  <2>1. machine' \in Machine
    <3>1. /\ [machine EXCEPT !.app = TRUE] \in Machine
          /\ [machine EXCEPT !.config = "foreign"] \in Machine
          /\ [machine EXCEPT !.config = "absent"] \in Machine
          /\ [machine EXCEPT !.daemon = "busy"] \in Machine
      BY <1>0 DEF Machine, Routes
    <3>2. {Started(machine), Stopped(machine), Paused(machine), Removed(machine)} \subseteq Machine
      BY <1>0, EffectTypes
    <3> QED BY <1>4, <3>1, <3>2 DEF Change
  <2>2. changes' \in 0 .. MaxChanges
    BY <1>4, BoundsAssumption DEF Change, TypeOK
  <2> QED BY <1>4, <2>1, <2>2 DEF Change, TypeOK
<1>5. CASE TurnEnds
  <2>1. machine' \in Machine
    BY <1>0, <1>5 DEF TurnEnds, Machine
  <2> QED BY <1>5, <2>1 DEF TurnEnds, TypeOK
<1>6. CASE OnInterval
  <2>1. jobs' \in Seq(Key) /\ todo' \in Seq(Task) /\ looking' \in BOOLEAN
    BY <1>0, <1>6, CheckTypes DEF OnInterval
  <2> QED BY <1>6, <2>1 DEF OnInterval, TypeOK, Key, Task
<1>7. CASE SetVisible
  <2>1. jobs' \in Seq(Key) /\ todo' \in Seq(Task) /\ looking' \in BOOLEAN
    BY <1>0, <1>7, CheckTypes DEF SetVisible
  <2>2. asks' \in 0 .. MaxAsks
    BY <1>7, BoundsAssumption DEF SetVisible, TypeOK
  <2> QED BY <1>7, <2>1, <2>2 DEF SetVisible, TypeOK, Key, Task
<1>8. CASE ConfigurationChanged
  <2>1. jobs' \in Seq(Key) /\ todo' \in Seq(Task) /\ looking' \in BOOLEAN
    BY <1>0, <1>8, CheckTypes DEF ConfigurationChanged
  <2>2. asks' \in 0 .. MaxAsks
    BY <1>8, BoundsAssumption DEF ConfigurationChanged, TypeOK
  <2>3. shown' \in [state : BridgeState \cup {"none"}, closed : BOOLEAN]
    BY <1>8 DEF ConfigurationChanged, NoRow, TypeOK
  <2> QED BY <1>8, <2>1, <2>2, <2>3 DEF ConfigurationChanged, TypeOK, Key, Task
<1>9. CASE PrepareLaunch
  <2>1. jobs' \in Seq(Key) /\ todo' \in Seq(Task) /\ looking' \in BOOLEAN
    BY <1>0, <1>9, CheckTypes DEF PrepareLaunch
  <2>2. asks' \in 0 .. MaxAsks
    BY <1>9, BoundsAssumption DEF PrepareLaunch, TypeOK
  <2> QED BY <1>9, <2>1, <2>2 DEF PrepareLaunch, TypeOK, Key, Task
<1>10. CASE AnswerRefusal
  <2>1. "open" \in Key
    BY DEF Key, Looks
  <2>2. jobs' \in Seq(Key) /\ todo' \in Seq(Task) /\ looking' \in BOOLEAN
    BY <1>0, <1>10, <2>1, CheckTypes, EnqueueTypes DEF AnswerRefusal
  <2> QED BY <1>10, <2>2 DEF AnswerRefusal, TypeOK, Key, Task
<1>11. CASE PickModel \/ Starts
  BY <1>11 DEF PickModel, Starts, TypeOK
<1>12. CASE Refresh
  <2>1. "open" \in Key
    BY DEF Key, Looks
  <2>2. jobs' \in Seq(Key) /\ todo' \in Seq(Task)
    BY <1>0, <1>12, <2>1, EnqueueTypes DEF Refresh
  <2> QED BY <1>12, <2>2 DEF Refresh, TypeOK, Key, Task
<1>13. CASE TakeNextStep
  <2>1. PICK op \in NextStep(facts).operations :
           \/ machine' = [machine EXCEPT !.app = TRUE] /\ UNCHANGED control
           \/ Enqueue(op) /\ UNCHANGED machine
    BY <1>13 DEF TakeNextStep
  <2>2. op \in Key
    BY <2>1, OfferedTypes DEF Key
  <2>3. jobs' \in Seq(Key) /\ todo' \in Seq(Task)
    BY <1>0, <2>1, <2>2, EnqueueTypes
  <2>4. [machine EXCEPT !.app = TRUE] \in Machine
    BY <1>0 DEF Machine
  <2>5. machine' \in Machine
    BY <1>0, <2>1, <2>4
  <2> QED BY <1>13, <2>3, <2>5 DEF TakeNextStep, TypeOK, Key, Task
<1>14. CASE Press
  <2>1. PICK i \in DOMAIN CompactItems(facts) : \E o \in CompactItems(facts)[i] : Enqueue(o)
    BY <1>14 DEF Press
  <2>2. PICK op \in CompactItems(facts)[i] : Enqueue(op)
    BY <2>1
  <2>3. op \in Key
    BY <2>2, OfferedTypes DEF Key
  <2>4. jobs' \in Seq(Key) /\ todo' \in Seq(Task)
    BY <1>0, <2>2, <2>3, EnqueueTypes
  <2>5. asks' \in 0 .. MaxAsks
    BY <1>14, BoundsAssumption DEF Press, TypeOK
  <2> QED BY <1>14, <2>4, <2>5 DEF Press, TypeOK, Key, Task
<1>15. CASE UNCHANGED vars
  BY <1>15 DEF vars, TypeOK
<1> QED BY <1>1, <1>2, <1>3, <1>4, <1>5, <1>6, <1>7, <1>8, <1>9, <1>10, <1>11, <1>12, <1>13, <1>14, <1>15 DEF Next

\* The variables keep their types: above all, what is known is one of the states that the
\* bridge can be in, whatever config is read (chatgptWeb.ts, parseLauncherRoute).
THEOREM TypeCorrect == Spec => []TypeOK
BY InitTypes, NextTypes, PTL DEF Spec

\* The route that a look reads from a config of any length is the value of its top-level
\* key (parseLauncherRoute).
THEOREM ReadsTheTopLevelKeyHolds == Spec => ReadsTheTopLevelKey
<1> DEFINE Reads == Look /\ Head(todo) = "route" => facts'.config = machine.config
<1>1. TypeOK /\ [Next]_vars => [Reads]_vars
  <2> SUFFICES ASSUME TypeOK, Look, Head(todo) = "route" PROVE facts'.config = machine.config
    OBVIOUS
  <2>1. PICK route \in RoutesRead[machine.config] :
           facts' = Probed("route", facts, [machine EXCEPT !.config = route])
    BY DEF Look
  <2>2. machine.config \in Routes /\ facts \in LauncherFacts /\ machine \in Machine
    BY DEF TypeOK, Machine
  <2>3. route = machine.config
    BY <2>1, <2>2, RoutesReadIs
  <2>4. facts' = [facts EXCEPT !.config = route]
    BY <2>1, <2>2 DEF Probed, Machine
  <2> QED BY <2>2, <2>3, <2>4 DEF LauncherFacts
<1>2. ReadsTheTopLevelKey <=> [][Reads]_vars
  BY DEF ReadsTheTopLevelKey
<1> HIDE DEF Reads
<1> QED BY <1>1, <1>2, TypeCorrect, PTL DEF Spec

\* The compact view offers what can be pressed of the way out, the next step, the bridge
\* and the engine, and each once (compactModelOf).
THEOREM CompactOffersOnceHolds == Spec => []CompactOffersOnce
<1>1. ASSUME NEW f
      PROVE  LET items == CompactItems(f)
                 shownAt(op) == {i \in DOMAIN items : op \in items[i]}
                 offered == (IF ClassifyBridge(f) = "route-dead" THEN StateOperations(f) ELSE {})
                            \cup NextStep(f).operations \cup {RouteOperation(f)} \cup ProcessOperations(f)
             IN  \A op \in Operation :
                     /\ Cardinality(shownAt(op)) <= 1
                     /\ op \in offered /\ Enabled(op, f) => shownAt(op) # {}
  <2> DEFINE items == CompactItems(f)
             shownAt(op) == {i \in DOMAIN items : op \in items[i]}
             offered == (IF ClassifyBridge(f) = "route-dead" THEN StateOperations(f) ELSE {})
                        \cup NextStep(f).operations \cup {RouteOperation(f)} \cup ProcessOperations(f)
  <2>1. /\ DOMAIN items = {1, 2, 3, 4}
        /\ items[1] = Attention(f) /\ items[2] = NextItem(f)
        /\ items[3] = BridgeItem(f) /\ items[4] = EngineItem(f)
    BY DEF CompactItems
  <2> HIDE DEF items
  <2> SUFFICES ASSUME NEW op \in Operation
               PROVE  /\ Cardinality(shownAt(op)) <= 1
                      /\ op \in offered /\ Enabled(op, f) => shownAt(op) # {}
    BY DEF items
  <2>2. \A i, j \in DOMAIN items : op \in items[i] /\ op \in items[j] => i = j
    BY <2>1 DEF NextItem, BridgeItem, EngineItem
  <2>3. Cardinality(shownAt(op)) <= 1
    <3>1. CASE shownAt(op) = {}
      <4> DEFINE S == shownAt(op)
      <4>1. S = {}
        BY <3>1
      <4> HIDE DEF S
      <4>2. Cardinality(S) = 0
        BY <4>1, FS_EmptySet
      <4> QED BY <4>2 DEF S
    <3>2. CASE shownAt(op) # {}
      <4>1. PICK i \in DOMAIN items : op \in items[i]
        BY <3>2
      <4>2. shownAt(op) = {i}
        BY <2>2, <4>1
      <4> DEFINE S == shownAt(op)
      <4> HIDE DEF S
      <4>3. Cardinality(S) = 1
        BY <4>2, FS_Singleton DEF S
      <4> QED BY <4>3 DEF S
    <3> QED BY <3>1, <3>2
  <2>4. op \in offered /\ Enabled(op, f) => \E i \in DOMAIN items : op \in items[i]
    <3>1. op \in offered /\ Enabled(op, f) =>
             op \in Attention(f) \cup NextItem(f) \cup BridgeItem(f) \cup EngineItem(f)
      BY DEF Attention, NextItem, BridgeItem, KeptRoute, EngineItem
    <3> HIDE DEF offered
    <3> QED BY <2>1, <3>1
  <2> QED BY <2>3, <2>4
<1>2. TypeOK => CompactOffersOnce
  BY <1>1 DEF CompactOffersOnce
<1> QED BY <1>2, TypeCorrect, PTL

-----------------------------------------------------------------------------
(* The runtime of the launcher                                              *)

\* In a total order no two elements have as many before them.
LEMMA RanksAreDistinct ==
    ASSUME NEW S, IsFiniteSet(S), NEW R \in SUBSET (S \X S),
           \A x \in S : <<x, x>> \notin R,
           \A x, y, z \in S : <<x, y>> \in R /\ <<y, z>> \in R => <<x, z>> \in R,
           \A x, y \in S : x = y \/ <<x, y>> \in R \/ <<y, x>> \in R
    PROVE  LET rank(x) == Cardinality({y \in S : <<y, x>> \in R})
           IN  /\ \A x \in S : rank(x) \in 0 .. Cardinality(S) - 1
               /\ \A x, y \in S : <<x, y>> \in R <=> rank(x) < rank(y)
               /\ \A x, y \in S : rank(x) = rank(y) => x = y
               /\ \A k \in 0 .. Cardinality(S) - 1 : \E x \in S : rank(x) = k
<1> DEFINE below(x) == {y \in S : <<y, x>> \in R}
           rank(x) == Cardinality(below(x))
           n == Cardinality(S)
<1>1. /\ n \in Nat
      /\ \A x \in S : IsFiniteSet(below(x)) /\ rank(x) \in Nat
  <2>1. \A x \in S : below(x) \in SUBSET S
    OBVIOUS
  <2>2. \A x \in S : IsFiniteSet(below(x))
    <3> HIDE DEF below
    <3> QED BY <2>1, FS_Subset
  <2>3. \A x \in S : rank(x) \in Nat
    <3> HIDE DEF below
    <3> QED BY <2>2, FS_CardinalityType
  <2> QED BY <2>2, <2>3, FS_CardinalityType
<1>2. \A x \in S : rank(x) < n
  <2> SUFFICES ASSUME NEW x \in S PROVE rank(x) < n
    OBVIOUS
  <2>1. below(x) \in SUBSET S /\ below(x) # S
    OBVIOUS
  <2> HIDE DEF below
  <2>2. rank(x) <= n /\ rank(x) # n
    BY <2>1, FS_Subset
  <2> QED BY <1>1, <2>2
<1>3. ASSUME NEW x \in S, NEW y \in S, <<x, y>> \in R
      PROVE  rank(x) < rank(y)
  <2>1. below(x) \in SUBSET below(y) /\ below(x) # below(y)
    BY <1>3
  <2>2. IsFiniteSet(below(y)) /\ rank(x) \in Nat /\ rank(y) \in Nat
    BY <1>1
  <2> HIDE DEF below
  <2>3. rank(x) <= rank(y) /\ rank(x) # rank(y)
    BY <2>1, <2>2, FS_Subset
  <2> QED BY <2>2, <2>3
<1>4. \A x, y \in S : <<x, y>> \in R <=> rank(x) < rank(y)
  <2> SUFFICES ASSUME NEW x \in S, NEW y \in S, rank(x) < rank(y) PROVE <<x, y>> \in R
    BY <1>3
  <2>1. rank(x) \in Nat /\ rank(y) \in Nat
    BY <1>1
  <2>2. x # y
    <3> HIDE DEF rank
    <3> QED BY <2>1
  <2>3. <<y, x>> \notin R
    <3> SUFFICES ASSUME <<y, x>> \in R PROVE FALSE
      OBVIOUS
    <3>1. rank(y) < rank(x)
      BY <1>3
    <3> HIDE DEF rank
    <3> QED BY <2>1, <3>1
  <2> QED BY <2>2, <2>3
<1>5. \A x, y \in S : rank(x) = rank(y) => x = y
  <2> SUFFICES ASSUME NEW x \in S, NEW y \in S, rank(x) = rank(y), x # y PROVE FALSE
    OBVIOUS
  <2>1. <<x, y>> \in R \/ <<y, x>> \in R
    OBVIOUS
  <2>2. rank(x) \in Nat /\ rank(y) \in Nat
    BY <1>1
  <2> HIDE DEF rank
  <2> QED BY <1>3, <2>1, <2>2
<1>6. \A k \in 0 .. n - 1 : \E x \in S : rank(x) = k
  <2> DEFINE f == [x \in S |-> rank(x)]
  <2> HIDE DEF rank
  <2>1. f \in Injection(S, 0 .. n - 1)
    <3>1. f \in [S -> 0 .. n - 1]
      <4> SUFFICES ASSUME NEW x \in S PROVE rank(x) \in 0 .. n - 1
        OBVIOUS
      <4>1. rank(x) \in Nat /\ n \in Nat /\ rank(x) < n
        BY <1>1, <1>2
      <4> HIDE DEF rank, n
      <4> QED BY <4>1
    <3>2. IsInjective(f)
      BY <1>5 DEF IsInjective
    <3> HIDE DEF f, n
    <3> QED BY <3>1, <3>2 DEF Injection
  <2>2. IsFiniteSet(0 .. n - 1) /\ Cardinality(0 .. n - 1) = n
    <3>1. 0 \in Int /\ n - 1 \in Int
      BY <1>1
    <3> HIDE DEF n
    <3>2. IsFiniteSet(0 .. n - 1) /\ Cardinality(0 .. n - 1) = IF 0 > n - 1 THEN 0 ELSE n - 1 - 0 + 1
      BY <3>1, FS_Interval
    <3> QED BY <1>1, <3>2
  <2> HIDE DEF f
  <2>3. f \in Surjection(S, 0 .. n - 1)
    BY <2>1, <2>2, FS_Injection
  <2> QED BY <2>3 DEF Surjection, f
<1> HIDE DEF rank, below
<1>7. /\ \A x \in S : rank(x) \in 0 .. n - 1
      /\ \A x, y \in S : <<x, y>> \in R <=> rank(x) < rank(y)
      /\ \A x, y \in S : rank(x) = rank(y) => x = y
      /\ \A k \in 0 .. n - 1 : \E x \in S : rank(x) = k
  BY <1>1, <1>2, <1>4, <1>5, <1>6
<1> QED BY <1>7 DEF rank, below

\* The parts of a pre-release.
Part == [word : BOOLEAN, rank : Nat]

LEMMA FirstDifferenceIs ==
    ASSUME NEW n \in Nat, NEW a, NEW b, \E i \in 1 .. n : a[i] # b[i]
    PROVE  /\ FirstDifference(a, b, n) \in 1 .. n
           /\ a[FirstDifference(a, b, n)] # b[FirstDifference(a, b, n)]
           /\ \A j \in 1 .. FirstDifference(a, b, n) - 1 : a[j] = b[j]
<1> DEFINE T == {i \in 1 .. n : a[i] # b[i]}
<1>1. T \in SUBSET Nat /\ T # {}
  OBVIOUS
<1> HIDE DEF T
<1>2. PICK m \in T : \A k \in T : m <= k
  BY <1>1, LeastOfNat
<1>3. /\ m \in 1 .. n /\ a[m] # b[m]
      /\ \A j \in 1 .. m - 1 : a[j] = b[j]
  <2>1. m \in 1 .. n /\ a[m] # b[m]
    BY DEF T
  <2>2. ASSUME NEW j \in 1 .. m - 1, a[j] # b[j] PROVE FALSE
    <3>1. j \in T /\ j < m
      BY <2>1, <2>2 DEF T
    <3> QED BY <1>1, <1>2, <2>1, <3>1
  <2> QED BY <2>1, <2>2
<1> QED BY <1>3 DEF FirstDifference

\* Two parts that differ are in one order or the other, and that is what is compared.
LEMMA PartIs ==
    ASSUME NEW a \in Part, NEW b \in Part
    PROVE  /\ ComparePart(a, b) \in Int
           /\ ComparePart(a, b) > 0 <=> PartPrecedes(b, a)
           /\ ~PartPrecedes(a, a)
           /\ a # b => PartPrecedes(a, b) \/ PartPrecedes(b, a)
           /\ ~(PartPrecedes(a, b) /\ PartPrecedes(b, a))
<1>1. /\ a.word \in BOOLEAN /\ a.rank \in Nat /\ b.word \in BOOLEAN /\ b.rank \in Nat
      /\ a = [word |-> a.word, rank |-> a.rank] /\ b = [word |-> b.word, rank |-> b.rank]
  BY DEF Part
<1>2. a # b => a.word # b.word \/ a.rank # b.rank
  BY <1>1
<1>3. CASE a.word = b.word
  BY <1>1, <1>2, <1>3 DEF ComparePart, PartPrecedes
<1>4. CASE a.word # b.word
  BY <1>1, <1>4 DEF ComparePart, PartPrecedes
<1> QED BY <1>3, <1>4

\* Where two sequences of parts begin to differ, one precedes the other.
FirstPrecedes(a, b) ==
    \E i \in DOMAIN a \cap DOMAIN b : PartPrecedes(a[i], b[i]) /\ \A j \in 1 .. i - 1 : a[j] = b[j]

LEMMA FirstDecides ==
    ASSUME NEW a \in Seq(Part), NEW b \in Seq(Part), NEW i \in DOMAIN a \cap DOMAIN b,
           a[i] # b[i], \A j \in 1 .. i - 1 : a[j] = b[j]
    PROVE  FirstPrecedes(a, b) <=> PartPrecedes(a[i], b[i])
<1>1. SUFFICES ASSUME FirstPrecedes(a, b) PROVE PartPrecedes(a[i], b[i])
  BY DEF FirstPrecedes
<1>2. PICK k \in DOMAIN a \cap DOMAIN b : PartPrecedes(a[k], b[k]) /\ \A j \in 1 .. k - 1 : a[j] = b[j]
  BY <1>1 DEF FirstPrecedes
<1>3. i \in Nat \ {0} /\ k \in Nat \ {0} /\ a[k] \in Part
  OBVIOUS
<1>4. a[k] # b[k]
  BY <1>2, <1>3, PartIs
<1>5. ~(k < i)
  BY <1>3, <1>4
<1>6. ~(i < k)
  BY <1>2, <1>3
<1>7. i = k
  BY <1>3, <1>5, <1>6
<1> QED BY <1>2, <1>7

\* comparePrerelease, of two pre-releases.
LEMMA PartsAre ==
    ASSUME NEW a \in Seq(Part), NEW b \in Seq(Part)
    PROVE  /\ CompareParts(a, b) > 0 <=>
                 \/ Len(b) < Len(a) /\ \A i \in DOMAIN b : b[i] = a[i]
                 \/ FirstPrecedes(b, a)
           /\ ~FirstPrecedes(a, a)
           /\ a # b => \/ CompareParts(a, b) > 0 
                       \/ CompareParts(b, a) > 0
<1> DEFINE both == IF Len(a) < Len(b) THEN Len(a) ELSE Len(b)
           same == IF Len(b) < Len(a) THEN Len(b) ELSE Len(a)
<1>1. /\ Len(a) \in Nat /\ Len(b) \in Nat /\ both \in Nat /\ same = both
      /\ DOMAIN a = 1 .. Len(a) /\ DOMAIN b = 1 .. Len(b)
      /\ 1 .. both = DOMAIN a \cap DOMAIN b
      /\ \A i \in 1 .. both : a[i] \in Part /\ b[i] \in Part
  OBVIOUS
<1>0. /\ Len(a) \in Nat /\ Len(b) \in Nat
      /\ Len(b) < Len(a) => both = Len(b)
  OBVIOUS
<1>2. ~FirstPrecedes(a, a)
  <2>1. \A i \in DOMAIN a : ~PartPrecedes(a[i], a[i])
    BY PartIs
  <2> QED BY <2>1 DEF FirstPrecedes
<1>3. CompareParts(a, b) = IF \A i \in 1 .. both : a[i] = b[i] THEN Len(a) - Len(b)
                           ELSE ComparePart(a[FirstDifference(a, b, both)], b[FirstDifference(a, b, both)])
  BY DEF CompareParts
<1>4. CompareParts(b, a) = IF \A i \in 1 .. both : b[i] = a[i] THEN Len(b) - Len(a)
                           ELSE ComparePart(b[FirstDifference(b, a, both)], a[FirstDifference(b, a, both)])
  BY <1>1 DEF CompareParts
<1> HIDE DEF both, same
<1>5. CASE \A i \in 1 .. both : a[i] = b[i]
  <2>1. CompareParts(a, b) = Len(a) - Len(b) /\ CompareParts(b, a) = Len(b) - Len(a)
    BY <1>3, <1>4, <1>5
  <2>2. ~FirstPrecedes(b, a)
    <3>1. \A i \in DOMAIN a \cap DOMAIN b : b[i] = a[i] /\ ~PartPrecedes(b[i], b[i])
      BY <1>1, <1>5, PartIs
    <3> QED BY <3>1 DEF FirstPrecedes
  <2>3. Len(b) < Len(a) => DOMAIN b = 1 .. both
    BY <1>0, <1>1
  <2>4. a # b => Len(a) # Len(b)
    <3>1. SUFFICES ASSUME Len(a) = Len(b) PROVE a = b
      OBVIOUS
    <3>2. both = Len(a)
      BY <1>1, <3>1 DEF both
    <3>3. \A i \in 1 .. Len(a) : a[i] = b[i]
      BY <1>5, <3>2
    <3> QED BY <3>1, <3>3
  <2>5. Len(b) < Len(a) => \A i \in DOMAIN b : b[i] = a[i]
    BY <1>5, <2>3
  <2>6. Len(a) - Len(b) > 0 <=> Len(b) < Len(a)
    BY <1>1
  <2>7. a # b => Len(a) - Len(b) > 0 \/ Len(b) - Len(a) > 0
    BY <1>0, <2>4
  <2> QED BY <1>2, <2>1, <2>2, <2>5, <2>6, <2>7
<1>6. CASE \E i \in 1 .. both : a[i] # b[i]
  <2> DEFINE i == FirstDifference(a, b, both)
             k == FirstDifference(b, a, both)
  <2>1. i \in 1 .. both /\ a[i] # b[i] /\ \A j \in 1 .. i - 1 : a[j] = b[j]
    BY <1>1, <1>6, FirstDifferenceIs
  <2>2. k \in 1 .. both /\ b[k] # a[k] /\ \A j \in 1 .. k - 1 : b[j] = a[j]
    BY <1>1, <1>6, FirstDifferenceIs
  <2>3. CompareParts(a, b) = ComparePart(a[i], b[i]) /\ CompareParts(b, a) = ComparePart(b[k], a[k])
    BY <1>3, <1>4, <1>6
  <2> HIDE DEF i, k
  <2>4. i = k
    <3>1. ~(i < k) /\ ~(k < i)
      BY <1>1, <2>1, <2>2
    <3> QED BY <1>1, <2>1, <2>2, <3>1
  <2>5. a[i] \in Part /\ b[i] \in Part /\ i \in DOMAIN a \cap DOMAIN b
    BY <1>1, <2>1
  <2>6. FirstPrecedes(b, a) <=> PartPrecedes(b[i], a[i])
    <3>1. b[i] # a[i] /\ \A j \in 1 .. i - 1 : b[j] = a[j]
      BY <2>1
    <3> QED BY <2>5, <3>1, FirstDecides
  <2>7. /\ ComparePart(a[i], b[i]) > 0 <=> PartPrecedes(b[i], a[i])
        /\ ComparePart(b[i], a[i]) > 0 <=> PartPrecedes(a[i], b[i])
        /\ PartPrecedes(a[i], b[i]) \/ PartPrecedes(b[i], a[i])
    BY <2>1, <2>5, PartIs
  <2>8. ~(Len(b) < Len(a) /\ \A j \in DOMAIN b : b[j] = a[j])
    BY <2>1, <2>5
  <2> QED BY <1>2, <2>3, <2>4, <2>6, <2>7, <2>8
<1> QED BY <1>5, <1>6

LEMMA PrereleasesAre ==
    ASSUME NEW a \in Seq(Part), NEW b \in Seq(Part)
    PROVE  /\ ComparePrerelease(a, b) > 0 <=> PrereleasePrecedes(b, a)
           /\ ~PrereleasePrecedes(a, a)
           /\ a # b => PrereleasePrecedes(a, b) \/ PrereleasePrecedes(b, a)
<1>1. \A p, q \in Seq(Part) : PrereleasePrecedes(p, q) <=>
         /\ p # <<>>
         /\ \/ q = <<>>
            \/ Len(p) < Len(q) /\ \A i \in DOMAIN p : p[i] = q[i]
            \/ FirstPrecedes(p, q)
  BY DEF PrereleasePrecedes, FirstPrecedes
<1>2. /\ CompareParts(a, b) > 0 <=>
            \/ Len(b) < Len(a) /\ \A i \in DOMAIN b : b[i] = a[i]
            \/ FirstPrecedes(b, a)
      /\ CompareParts(b, a) > 0 <=>
            \/ Len(a) < Len(b) /\ \A i \in DOMAIN a : a[i] = b[i]
            \/ FirstPrecedes(a, b)
      /\ ~FirstPrecedes(a, a)
      /\ a # b => CompareParts(a, b) > 0 \/ CompareParts(b, a) > 0
  BY PartsAre
<1>3. ~PrereleasePrecedes(a, a)
  BY <1>1, <1>2
<1>4. CASE a = <<>> /\ b # <<>>
  <2>1. ComparePrerelease(a, b) = 1
    BY <1>4 DEF ComparePrerelease
  <2>2. PrereleasePrecedes(b, a)
    BY <1>4 DEF PrereleasePrecedes
  <2> QED BY <1>3, <2>1, <2>2
<1>5. CASE a # <<>> /\ b = <<>>
  <2>1. ComparePrerelease(a, b) = -1
    BY <1>5 DEF ComparePrerelease
  <2>2. PrereleasePrecedes(a, b) /\ ~PrereleasePrecedes(b, a)
    BY <1>5 DEF PrereleasePrecedes
  <2> QED BY <1>3, <2>1, <2>2
<1>6. CASE a = <<>> /\ b = <<>>
  <2>1. ComparePrerelease(a, b) = CompareParts(a, b) /\ a = b
    BY <1>6 DEF ComparePrerelease
  <2>2. ~FirstPrecedes(b, a) /\ ~(Len(b) < Len(a))
    BY <1>2, <2>1
  <2> QED BY <1>2, <1>3, <2>1, <2>2
<1>7. CASE a # <<>> /\ b # <<>>
  <2>1. ComparePrerelease(a, b) = CompareParts(a, b)
    BY <1>7 DEF ComparePrerelease
  <2> QED BY <1>1, <1>2, <1>3, <1>7, <2>1
<1> QED BY <1>4, <1>5, <1>6, <1>7

\* compareVersions: what is positive is newer, and of two versions one is.
LEMMA VersionsAre ==
    ASSUME NEW a \in VersionName, NEW b \in VersionName
    PROVE  /\ CompareVersions(a, b) > 0 <=> Precedes(b, a)
           /\ ~Precedes(a, a)
           /\ \/ a.numbers = b.numbers /\ a.prerelease = b.prerelease
              \/ Precedes(a, b) \/ Precedes(b, a)
<1>1. /\ a.numbers \in [1 .. 3 -> Nat] /\ b.numbers \in [1 .. 3 -> Nat]
      /\ a.prerelease \in Seq(Part) /\ b.prerelease \in Seq(Part)
  BY DEF VersionName, Part
<1> DEFINE p == a.numbers
           q == b.numbers
           Lower(x, y) == \E i \in 1 .. 3 : x[i] < y[i] /\ \A j \in 1 .. i - 1 : x[j] = y[j]
<1>2. /\ Precedes(a, b) <=> (p = q /\ PrereleasePrecedes(a.prerelease, b.prerelease)) \/ Lower(p, q)
      /\ Precedes(b, a) <=> (q = p /\ PrereleasePrecedes(b.prerelease, a.prerelease)) \/ Lower(q, p)
      /\ Precedes(a, a) <=> PrereleasePrecedes(a.prerelease, a.prerelease) \/ Lower(p, p)
  BY DEF Precedes
<1>3. CompareVersions(a, b) = IF p = q THEN ComparePrerelease(a.prerelease, b.prerelease)
                              ELSE p[FirstDifference(p, q, 3)] - q[FirstDifference(p, q, 3)]
  BY DEF CompareVersions
<1>4. /\ ComparePrerelease(a.prerelease, b.prerelease) > 0 <=> PrereleasePrecedes(b.prerelease, a.prerelease)
      /\ ~PrereleasePrecedes(a.prerelease, a.prerelease)
      /\ a.prerelease # b.prerelease => \/ PrereleasePrecedes(a.prerelease, b.prerelease)
                                        \/ PrereleasePrecedes(b.prerelease, a.prerelease)
  BY <1>1, PrereleasesAre
<1>5. p \in [1 .. 3 -> Nat] /\ q \in [1 .. 3 -> Nat]
  BY <1>1
<1> HIDE DEF p, q
<1>6. ~Lower(p, p)
  <2>1. \A i \in 1 .. 3 : ~(p[i] < p[i])
    BY <1>5
  <2> QED BY <2>1
<1>7. CASE p = q
  <2>1. ~Lower(q, p)
    BY <1>6, <1>7
  <2> HIDE DEF Lower
  <2> QED BY <1>2, <1>3, <1>4, <1>6, <1>7, <2>1 DEF p, q
<1>8. CASE p # q
  <2> DEFINE i == FirstDifference(p, q, 3)
  <2>1. \E k \in 1 .. 3 : p[k] # q[k]
    BY <1>5, <1>8
  <2>2. i \in 1 .. 3 /\ p[i] # q[i] /\ \A j \in 1 .. i - 1 : p[j] = q[j]
    BY <2>1, FirstDifferenceIs
  <2> HIDE DEF i
  <2>3. p[i] \in Nat /\ q[i] \in Nat
    BY <1>5, <2>2
  <2>4. p[i] - q[i] > 0 <=> q[i] < p[i]
    BY <2>3
  <2>5. Lower(q, p) <=> q[i] < p[i]
    <3>1. q[i] < p[i] => Lower(q, p)
      BY <2>2
    <3>2. ASSUME NEW k \in 1 .. 3, q[k] < p[k], \A j \in 1 .. k - 1 : q[j] = p[j]
          PROVE  q[i] < p[i]
      <4>1. q[k] # p[k]
        BY <1>5, <3>2
      <4>2. ~(k < i) /\ ~(i < k)
        BY <2>2, <3>2, <4>1
      <4>3. i = k
        BY <2>2, <4>2
      <4> QED BY <3>2, <4>3
    <3> QED BY <3>1, <3>2
  <2>6. p[i] < q[i] => Lower(p, q)
    BY <2>2
  <2>7. p[i] < q[i] \/ q[i] < p[i]
    BY <2>2, <2>3
  <2>8. CompareVersions(a, b) = p[i] - q[i]
    BY <1>3, <1>8 DEF i
  <2> HIDE DEF Lower
  <2> QED BY <1>2, <1>6, <1>4, <1>8, <2>4, <2>5, <2>6, <2>7, <2>8
<1> QED BY <1>7, <1>8

\* The place of a version in the order of their releases.
Place == [name \in DOMAIN Versions |-> CHOOSE i \in DOMAIN Order : Order[i] = name]

\* Among the versions of a platform the newer one is the one further on in that order.
LEMMA PlacesOrder ==
    ASSUME NEW a \in DOMAIN Versions, NEW b \in DOMAIN Versions, a # b,
           Versions[a].platform = Versions[b].platform,
           NEW i \in DOMAIN Order, Order[i] = a, NEW j \in DOMAIN Order, Order[j] = b
    PROVE  CompareVersions(Versions[a], Versions[b]) > 0 <=> j < i
<1>1. /\ Versions[a] \in VersionName /\ Versions[b] \in VersionName
      /\ Versions[a] # Versions[b]
      /\ i < j => ~Precedes(Versions[b], Versions[a])
      /\ j < i => ~Precedes(Versions[a], Versions[b])
  BY VersionsAssumption
<1>2. i \in Nat /\ j \in Nat /\ i # j
  BY VersionsAssumption
<1>3. /\ CompareVersions(Versions[a], Versions[b]) > 0 <=> Precedes(Versions[b], Versions[a])
      /\ \/ Versions[a].numbers = Versions[b].numbers /\ Versions[a].prerelease = Versions[b].prerelease
         \/ Precedes(Versions[a], Versions[b]) \/ Precedes(Versions[b], Versions[a])
  BY <1>1, VersionsAre
<1>4. ~(Versions[a].numbers = Versions[b].numbers /\ Versions[a].prerelease = Versions[b].prerelease)
  BY <1>1 DEF VersionName
<1> QED BY <1>1, <1>2, <1>3, <1>4

LEMMA PlaceIs ==
    /\ \A a \in DOMAIN Versions : Place[a] \in DOMAIN Order /\ Order[Place[a]] = a
    /\ \A a \in DOMAIN Versions : ~(CompareVersions(Versions[a], Versions[a]) > 0)
    /\ DOMAIN Order \subseteq Nat
    /\ IsFiniteSet(DOMAIN Versions)
<1>1. ASSUME NEW a \in DOMAIN Versions
      PROVE  Place[a] \in DOMAIN Order /\ Order[Place[a]] = a
  <2>1. \E i \in DOMAIN Order : Order[i] = a
    BY VersionsAssumption DEF ToSet
  <2> QED BY <2>1 DEF Place
<1>2. ASSUME NEW a \in DOMAIN Versions PROVE ~(CompareVersions(Versions[a], Versions[a]) > 0)
  <2>1. Versions[a] \in VersionName
    BY VersionsAssumption
  <2> QED BY <2>1, VersionsAre
<1>3. DOMAIN Order = 1 .. Len(Order) /\ Len(Order) \in Nat /\ DOMAIN Order \subseteq Nat
  BY VersionsAssumption
<1>4. IsFiniteSet(DOMAIN Versions)
  <2>1. IsFiniteSet(DOMAIN Order)
    BY <1>3, FS_Interval
  <2>2. Order \in Surjection(DOMAIN Order, DOMAIN Versions)
    <3>1. Order \in [DOMAIN Order -> DOMAIN Versions]
      BY VersionsAssumption
    <3>2. \A a \in DOMAIN Versions : \E i \in DOMAIN Order : Order[i] = a
      BY <1>1
    <3> QED BY <3>1, <3>2 DEF Surjection
  <2> QED BY <2>1, <2>2, FS_Surjection
<1> QED BY <1>1, <1>2, <1>3, <1>4

\* runtimeCandidates: the versions of this platform, the newest first, then PATH.
LEMMA CandidatesAre ==
    ASSUME NEW names \in SUBSET DOMAIN Versions
    PROVE  LET here == {name \in names : Versions[name].platform = "here"}
               list == RuntimeCandidates(NoSetting, names, Versions, "here", <<"path">>)
           IN  \E n \in Nat :
                  /\ DOMAIN list = 1 .. n + 1 /\ list[n + 1] = "path"
                  /\ \A k \in 1 .. n : list[k] \in here
                  /\ \A name \in here : \E k \in 1 .. n : list[k] = name
                  /\ \A k, l \in 1 .. n : k < l => Place[list[l]] < Place[list[k]]
<1> DEFINE here == {name \in names : Versions[name].platform = "here"}
           list == RuntimeCandidates(NoSetting, names, Versions, "here", <<"path">>)
           n    == Cardinality(here)
           R    == {s \in here \X here : Place[s[2]] < Place[s[1]]}
           above(name) == {other \in here : CompareVersions(Versions[other], Versions[name]) > 0}
           installed == [place \in 1 .. n |-> CHOOSE name \in here : Cardinality(above(name)) = place - 1]
<1>1. here \in SUBSET DOMAIN Versions
  OBVIOUS
<1> SUFFICES \E m \in Nat :
                  /\ DOMAIN list = 1 .. m + 1 /\ list[m + 1] = "path"
                  /\ \A k \in 1 .. m : list[k] \in here
                  /\ \A name \in here : \E k \in 1 .. m : list[k] = name
                  /\ \A k, l \in 1 .. m : k < l => Place[list[l]] < Place[list[k]]
  OBVIOUS
<1>2. \A a \in here : Place[a] \in Nat /\ Place[a] \in DOMAIN Order /\ Order[Place[a]] = a
  BY <1>1, PlaceIs
<1>3. IsFiniteSet(here) /\ n \in Nat
  BY <1>1, PlaceIs, FS_Subset, FS_CardinalityType
<1>4. \A a, b \in here : <<a, b>> \in R <=> CompareVersions(Versions[a], Versions[b]) > 0
  <2> SUFFICES ASSUME NEW a \in here, NEW b \in here
               PROVE  <<a, b>> \in R <=> CompareVersions(Versions[a], Versions[b]) > 0
    OBVIOUS
  <2>1. CASE a = b
    <3>1. ~(CompareVersions(Versions[a], Versions[b]) > 0)
      BY <1>1, <2>1, PlaceIs
    <3>2. ~(Place[b] < Place[a])
      BY <1>2, <2>1
    <3> QED BY <3>1, <3>2
  <2>2. CASE a # b
    <3>1. Versions[a].platform = Versions[b].platform
      OBVIOUS
    <3>2. CompareVersions(Versions[a], Versions[b]) > 0 <=> Place[b] < Place[a]
      <4> HIDE DEF here
      <4> QED BY <1>1, <1>2, <2>2, <3>1, PlacesOrder
    <3> QED BY <3>2
  <2> QED BY <2>1, <2>2
<1>5. /\ R \in SUBSET (here \X here)
      /\ \A x \in here : <<x, x>> \notin R
      /\ \A x, y, z \in here : <<x, y>> \in R /\ <<y, z>> \in R => <<x, z>> \in R
      /\ \A x, y \in here : x = y \/ <<x, y>> \in R \/ <<y, x>> \in R
  <2>1. \A x, y \in here : <<x, y>> \in R <=> Place[y] < Place[x]
    OBVIOUS
  <2>2. R \in SUBSET (here \X here)
    OBVIOUS
  <2> HIDE DEF here, R
  <2>3. \A x \in here : ~(Place[x] < Place[x])
    BY <1>2
  <2>4. \A x, y, z \in here : Place[y] < Place[x] /\ Place[z] < Place[y] => Place[z] < Place[x]
    BY <1>2
  <2>5. \A x, y \in here : x = y \/ Place[y] < Place[x] \/ Place[x] < Place[y]
    <3>1. \A x, y \in here : Place[x] = Place[y] => x = y
      BY <1>2
    <3> QED BY <1>2, <3>1
  <2> QED BY <2>1, <2>2, <2>3, <2>4, <2>5
<1>6. /\ \A x \in here : Cardinality(above(x)) \in 0 .. n - 1
      /\ \A x, y \in here : <<x, y>> \in R <=> Cardinality(above(x)) < Cardinality(above(y))
      /\ \A x, y \in here : Cardinality(above(x)) = Cardinality(above(y)) => x = y
      /\ \A k \in 0 .. n - 1 : \E x \in here : Cardinality(above(x)) = k
  <2> DEFINE below(x) == {y \in here : <<y, x>> \in R}
  <2>1. /\ \A x \in here : Cardinality(below(x)) \in 0 .. n - 1
        /\ \A x, y \in here : <<x, y>> \in R <=> Cardinality(below(x)) < Cardinality(below(y))
        /\ \A x, y \in here : Cardinality(below(x)) = Cardinality(below(y)) => x = y
        /\ \A k \in 0 .. n - 1 : \E x \in here : Cardinality(below(x)) = k
    <3> HIDE DEF here, R
    <3> QED BY <1>3, <1>5, RanksAreDistinct
  <2> HIDE DEF here, R
  <2>2. \A x \in here : below(x) = above(x)
    BY <1>4
  <2> HIDE DEF below, above, n
  <2> QED BY <2>1, <2>2
<1>7. list = installed \o <<"path">>
  BY DEF RuntimeCandidates, NoSetting, Relative
<1> HIDE DEF n, above
<1>8. \A k \in 1 .. n : installed[k] \in here /\ Cardinality(above(installed[k])) = k - 1
  <2> SUFFICES ASSUME NEW k \in 1 .. n
               PROVE  installed[k] \in here /\ Cardinality(above(installed[k])) = k - 1
    OBVIOUS
  <2>1. \E x \in here : Cardinality(above(x)) = k - 1
    BY <1>3, <1>6
  <2>2. installed[k] = CHOOSE x \in here : Cardinality(above(x)) = k - 1
    OBVIOUS
  <2> HIDE DEF installed
  <2> QED BY <2>1, <2>2
<1>9. installed \in Seq(here) /\ Len(installed) = n
  <2>1. installed \in [1 .. n -> here]
    BY <1>8
  <2> QED BY <1>3, <2>1
<1> HIDE DEF installed, here, list
<1>10. /\ DOMAIN list = 1 .. n + 1 /\ list[n + 1] = "path"
       /\ \A k \in 1 .. n : list[k] = installed[k]
  <2>1. installed \in Seq(here \cup {"path"}) /\ <<"path">> \in Seq(here \cup {"path"})
    BY <1>9
  <2>2. Len(list) = n + 1 /\ list \in Seq(here \cup {"path"})
    BY <1>3, <1>7, <1>9, <2>1
  <2>3. list[n + 1] = "path" /\ \A k \in 1 .. n : list[k] = installed[k]
    BY <1>3, <1>7, <1>9, <2>1
  <2> QED BY <2>2, <2>3
<1>11. ASSUME NEW name \in here PROVE \E k \in 1 .. n : list[k] = name
  <2>1. Cardinality(above(name)) \in 0 .. n - 1
    BY <1>6
  <2> DEFINE k == Cardinality(above(name)) + 1
  <2>2. k \in 1 .. n /\ k - 1 = Cardinality(above(name))
    BY <1>3, <2>1
  <2> HIDE DEF k
  <2>3. installed[k] = name
    BY <1>6, <1>8, <2>2
  <2> QED BY <1>10, <2>2, <2>3
<1>12. ASSUME NEW k \in 1 .. n, NEW l \in 1 .. n, k < l
       PROVE  Place[list[l]] < Place[list[k]]
  <2>1. /\ installed[k] \in here /\ installed[l] \in here
        /\ Cardinality(above(installed[k])) = k - 1 /\ Cardinality(above(installed[l])) = l - 1
    BY <1>8
  <2>2. Cardinality(above(installed[k])) < Cardinality(above(installed[l]))
    BY <1>3, <1>12, <2>1
  <2>3. <<installed[k], installed[l]>> \in R
    BY <1>6, <2>1, <2>2
  <2> QED BY <1>10, <2>3 
<1> QED BY <1>3, <1>8, <1>10, <1>11, <1>12

\* findRuntime: the first that exists.
LEMMA FirstIsFound ==
    ASSUME NEW list, DOMAIN list \subseteq Nat, NEW exists
    PROVE  \/ /\ FindRuntime(list, exists) = NoRuntime
              /\ \A i \in DOMAIN list : list[i] \notin exists
           \/ \E i \in DOMAIN list : /\ FindRuntime(list, exists) = list[i] /\ list[i] \in exists
                                     /\ \A j \in DOMAIN list : list[j] \in exists => i <= j
<1> DEFINE found == {i \in DOMAIN list : list[i] \in exists}
<1>1. FindRuntime(list, exists) =
         IF found = {} THEN NoRuntime ELSE list[CHOOSE i \in found : \A j \in found : i <= j]
  BY DEF FindRuntime
<1>2. CASE found = {}
  BY <1>1, <1>2
<1>3. CASE found # {}
  <2>1. found \in SUBSET Nat
    OBVIOUS
  <2>2. \E i \in found : \A j \in found : i <= j
    <3> HIDE DEF found
    <3> QED BY <1>3, <2>1, LeastOfNat
  <2> DEFINE first == CHOOSE i \in found : \A j \in found : i <= j
  <2>3. first \in found /\ \A j \in found : first <= j
    <3> HIDE DEF found
    <3> QED BY <2>2
  <2>4. FindRuntime(list, exists) = list[first]
    BY <1>1, <1>3
  <2> HIDE DEF first
  <2> QED BY <2>3, <2>4
<1> QED BY <1>2, <1>3

LEMMA NewestOfNames ==
    ASSUME NEW names \in SUBSET DOMAIN Versions, NEW exists \in SUBSET (names \cup {"path"})
    PROVE  LET here   == {i \in DOMAIN Order : Order[i] \in exists \cap names /\ Versions[Order[i]].platform = "here"}
               newest == CHOOSE i \in here : \A j \in here : j <= i
           IN  FindRuntime(RuntimeCandidates(NoSetting, names, Versions, "here", <<"path">>), exists)
                  = (CASE here # {} -> Order[newest]
                       [] here = {} /\ "path" \in exists -> "path"
                       [] OTHER -> NoRuntime)
<1> DEFINE here   == {i \in DOMAIN Order : Order[i] \in exists \cap names /\ Versions[Order[i]].platform = "here"}
           newest == CHOOSE i \in here : \A j \in here : j <= i
           mine   == {name \in names : Versions[name].platform = "here"}
           list   == RuntimeCandidates(NoSetting, names, Versions, "here", <<"path">>)
           found  == FindRuntime(list, exists)
<1>1. PICK n \in Nat :
         /\ DOMAIN list = 1 .. n + 1 /\ list[n + 1] = "path"
         /\ \A k \in 1 .. n : list[k] \in mine
         /\ \A name \in mine : \E k \in 1 .. n : list[k] = name
         /\ \A k, l \in 1 .. n : k < l => Place[list[l]] < Place[list[k]]
  <2> HIDE DEF list
  <2> QED BY CandidatesAre DEF list
<1>2. \/ /\ found = NoRuntime
         /\ \A i \in DOMAIN list : list[i] \notin exists
      \/ \E i \in DOMAIN list : /\ found = list[i] /\ list[i] \in exists
                                /\ \A j \in DOMAIN list : list[j] \in exists => i <= j
  <2>1. DOMAIN list \subseteq Nat
    <3> HIDE DEF list, mine
    <3> QED BY <1>1
  <2> HIDE DEF list
  <2> QED BY <2>1, FirstIsFound
<1>3. ASSUME NEW i \in here PROVE i \in Nat /\ Order[i] \in mine /\ Order[i] \in exists
  BY PlaceIs
<1>4. ASSUME NEW name \in mine, name \in exists PROVE Place[name] \in here /\ Order[Place[name]] = name
  BY <1>4, PlaceIs
<1>5. "path" \notin names
  BY VersionsAssumption
<1> SUFFICES found = (CASE here # {} -> Order[newest]
                        [] here = {} /\ "path" \in exists -> "path"
                        [] OTHER -> NoRuntime)
  OBVIOUS
<1> HIDE DEF list, found, here
<1>6. ASSUME NEW i \in here PROVE \E k \in 1 .. n : list[k] = Order[i] /\ list[k] \in exists
  BY <1>1, <1>3, <1>6
<1>7. CASE here # {}
  <2>1. PICK o \in here : TRUE
    BY <1>7
  <2>2. PICK k \in DOMAIN list : /\ found = list[k] /\ list[k] \in exists
                                 /\ \A j \in DOMAIN list : list[j] \in exists => k <= j
    <3>1. \E j \in DOMAIN list : list[j] \in exists
      <4>1. PICK j \in 1 .. n : list[j] \in exists
        BY <1>6, <2>1
      <4>2. j \in DOMAIN list
        BY <1>1, <4>1
      <4> QED BY <4>1, <4>2
    <3> QED BY <1>2, <3>1
  <2>3. k \in 1 .. n
    <3>1. PICK j \in 1 .. n : list[j] \in exists
      BY <1>6, <2>1
    <3>2. j \in 1 .. n + 1 /\ k \in 1 .. n + 1
      BY <1>1, <3>1
    <3>3. k <= j
      BY <1>1, <2>2, <3>1, <3>2
    <3> QED BY <3>1, <3>2, <3>3
  <2>4. list[k] \in mine
    BY <1>1, <2>3
  <2>5. Place[list[k]] \in here /\ Order[Place[list[k]]] = list[k]
    BY <1>4, <2>2, <2>4
  <2>6. ASSUME NEW i \in here PROVE i <= Place[list[k]]
    <3>1. PICK l \in 1 .. n : list[l] = Order[i] /\ list[l] \in exists
      BY <1>6
    <3>2. k <= l
      BY <1>1, <2>2, <3>1
    <3>3. Place[Order[i]] = i
      BY <1>3, PlaceIs, VersionsAssumption DEF here, IsInjective
    <3>4. k = l \/ i < Place[list[k]]
      BY <1>1, <2>3, <3>1, <3>2, <3>3
    <3> QED BY <1>3, <3>1, <3>3, <3>4, <2>5
  <2>7. newest = Place[list[k]]
    <3>1. /\ Place[list[k]] \in here
          /\ \A j \in here : j <= Place[list[k]]
      BY <2>5, <2>6
    <3>2. newest \in here /\ \A j \in here : j <= newest
      BY <3>1
    <3> HIDE DEF newest
    <3>3. newest <= Place[list[k]] /\ Place[list[k]] <= newest
      BY <3>1, <3>2
    <3> QED BY <1>3, <3>1, <3>2, <3>3
  <2> QED BY <1>7, <2>2, <2>5, <2>7
<1>8. CASE here = {}
  <2>1. \A k \in 1 .. n : list[k] \notin exists
    BY <1>1, <1>4, <1>8
  <2>2. \A k \in DOMAIN list : list[k] \in exists => k = n + 1
    <3>1. \A k \in 1 .. n + 1 : k \in 1 .. n \/ k = n + 1
      OBVIOUS
    <3> QED BY <1>1, <2>1, <3>1
  <2>3. n + 1 \in DOMAIN list
    BY <1>1
  <2>4. found = IF "path" \in exists THEN "path" ELSE NoRuntime
    BY <1>1, <1>2, <2>2, <2>3
  <2> QED BY <1>8, <2>4
<1> QED BY <1>7, <1>8

LEMMA NewestFound == NewestIsFound
<1> SUFFICES ASSUME NEW names \in SUBSET DOMAIN Versions, NEW exists \in SUBSET (names \cup {"path"})
             PROVE  /\ LET here   == {i \in DOMAIN Order : Order[i] \in exists \cap names /\ Versions[Order[i]].platform = "here"}
                           newest == CHOOSE i \in here : \A j \in here : j <= i
                       IN  FindRuntime(RuntimeCandidates(NoSetting, names, Versions, "here", <<"path">>), exists)
                              = (CASE here # {} -> Order[newest]
                                   [] here = {} /\ "path" \in exists -> "path"
                                   [] OTHER -> NoRuntime)
                    /\ FindRuntime(RuntimeCandidates("setting", names, Versions, "here", <<"path">>), exists) = NoRuntime
                    /\ FindRuntime(RuntimeCandidates(Relative, names, Versions, "here", <<"path">>), exists) = NoRuntime
  BY DEF NewestIsFound
<1>1. "setting" \notin exists
  BY VersionsAssumption
<1>2. RuntimeCandidates("setting", names, Versions, "here", <<"path">>) = <<"setting">>
  BY DEF RuntimeCandidates, NoSetting, Relative
<1>3. RuntimeCandidates(Relative, names, Versions, "here", <<"path">>) = <<>>
  BY DEF RuntimeCandidates, NoSetting, Relative
<1>4. FindRuntime(<<"setting">>, exists) = NoRuntime
  BY <1>1 DEF FindRuntime
<1>5. FindRuntime(<<>>, exists) = NoRuntime
  BY DEF FindRuntime
<1> QED BY <1>2, <1>3, <1>4, <1>5, NewestOfNames

\* Whatever is installed, the newest version of this platform that has its program runs,
\* as runtimeCandidates and findRuntime choose it: what compareVersions tells is the
\* precedence of SemVer, and the candidates are listed by it.
THEOREM NewestRunsHolds == Spec => []NewestRuns
<1>1. NewestRuns
  BY NewestFound DEF NewestRuns
<1> QED BY <1>1, PTL
================================================================================
