------------------------- MODULE LauncherPanelProofs -------------------------
(***************************************************************************)
(* For any number of runs, questions, views and acts: an operation that    *)
(* asks runs only where the user went ahead, a panel shows the screen that *)
(* was asked for last since it was created, and a view that shows is       *)
(* current once nothing runs and no message is on its way.                 *)
(***************************************************************************)
EXTENDS LauncherPanel, SequenceTheorems, TLAPS

\* A key waits once, and what waits confirmed was gone ahead with.
QueueIsSane(q, gone) ==
    /\ q \in Seq(Ticket)
    /\ \A i, j \in DOMAIN q : q[i].key = q[j].key => i = j
    /\ \A i \in DOMAIN q : q[i].confirmed => q[i].key \in gone

\* A page that drew something was greeted, and drew what it was sent last; what is not
\* attached has no page.
ViewIsReady(view) ==
    /\ (view.ready \/ view.says \/ view.page # "none") => view.attached
    /\ view.page = "mounted" => view.says \/ view.ready
    /\ view.shown # None => view.ready
    /\ (view.page = "mounted" /\ ~view.says /\ view.posted # None) => view.shown = view.posted
ViewsAreReady == \A layout \in Layouts : ViewIsReady(views[layout])

\* The screen that was asked for last is the one of the panel, or waits for its page.
ScreenIsKept ==
    /\ views["panel"].ready => pendingScreen = None
    /\ wanted # None => wanted = IF pendingScreen = None THEN screen ELSE pendingScreen
    /\ ~views["panel"].attached => screen = "overview"

\* With nothing queued the model is this one, and every view that shows has it, or a
\* message is about to go out.
AtRest == [facts |-> facts, result |-> result, running |-> None, queued |-> {}]
IsCurrent(view, model) == (view.page = "mounted" /\ ~view.says /\ view.visible) => view.shown = model
QuietIsCurrent == (~postPending /\ jobs = <<>>) => \A layout \in Layouts : IsCurrent(views[layout], AtRest)

IInv ==
    /\ TypeOK
    /\ QueueIsSane(jobs, consents)
    /\ unasked = {}
    /\ ViewsAreReady
    /\ ScreenIsKept
    /\ QuietIsCurrent

-----------------------------------------------------------------------------
(* Lemmas about the queue                                                   *)

\* What is asked for again never waits twice; it is confirmed where it was gone ahead with.
LEMMA EnqueueKeeps ==
    ASSUME NEW gone, QueueIsSane(jobs, gone),
           NEW key \in Key, NEW confirmed \in BOOLEAN, confirmed => key \in gone,
           Enqueue(key, confirmed)
    PROVE  QueueIsSane(jobs', gone)
<1> DEFINE job == Job(key, confirmed)
<1>1. job \in Ticket /\ job.key = key /\ job.confirmed = confirmed
  BY DEF Job, Ticket
<1>2. CASE Queued(key) = {}
  <2> HIDE DEF job
  <2>1. jobs' = Append(jobs, job) /\ jobs \in Seq(Ticket)
    BY <1>2 DEF Enqueue, QueueIsSane, job
  <2>2. /\ DOMAIN jobs' = 1 .. Len(jobs) + 1 /\ DOMAIN jobs = 1 .. Len(jobs) /\ Len(jobs) \in Nat
        /\ jobs' \in Seq(Ticket) /\ jobs'[Len(jobs) + 1] = job
        /\ \A i \in 1 .. Len(jobs) : jobs'[i] = jobs[i]
    BY <2>1, <1>1
  <2>3. \A i \in DOMAIN jobs : jobs[i].key # key
    BY <1>2 DEF Queued
  <2>4. QED
    BY <1>1, <2>2, <2>3 DEF QueueIsSane
<1>3. CASE Queued(key) # {}
  <2>1. jobs \in Seq(Ticket) /\ \A i \in DOMAIN jobs : jobs[i] \in Ticket
    BY DEF QueueIsSane
  <2>2. jobs' = [i \in DOMAIN jobs |-> IF i \in Queued(key) \ {1} /\ confirmed
                                      THEN [jobs[i] EXCEPT !.confirmed = TRUE] ELSE jobs[i]]
    BY <1>3 DEF Enqueue
  <2>3. \A i \in DOMAIN jobs :
            /\ jobs'[i] \in Ticket /\ jobs'[i].key = jobs[i].key
            /\ jobs'[i].confirmed => jobs[i].confirmed \/ (confirmed /\ jobs[i].key = key)
    BY <2>1, <2>2 DEF Ticket, Queued
  <2>4. DOMAIN jobs' = DOMAIN jobs /\ jobs' \in Seq(Ticket)
    <3>1. DOMAIN jobs' = 1 .. Len(jobs) /\ DOMAIN jobs = 1 .. Len(jobs) /\ Len(jobs) \in Nat
      BY <2>1, <2>2
    <3>2. jobs' \in [1 .. Len(jobs) -> Ticket]
      BY <2>2, <2>3, <3>1
    <3> QED
      BY <3>1, <3>2
  <2>5. QED
    BY <2>3, <2>4 DEF QueueIsSane
<1>4. QED
  BY <1>2, <1>3

\* The first job ends, and whoever went ahead with it went ahead with nothing else.
LEMMA TailKeeps ==
    ASSUME NEW gone, QueueIsSane(jobs, gone), jobs # <<>>
    PROVE  /\ QueueIsSane(Tail(jobs), gone)
           /\ QueueIsSane(Tail(jobs), gone \ {jobs[1].key})
           /\ jobs[1] \in Ticket /\ 1 \in DOMAIN jobs
<1>1. /\ jobs \in Seq(Ticket) /\ DOMAIN jobs = 1 .. Len(jobs) /\ Len(jobs) \in Nat \ {0}
      /\ Tail(jobs) \in Seq(Ticket) /\ DOMAIN Tail(jobs) = 1 .. Len(jobs) - 1
      /\ \A i \in 1 .. Len(jobs) - 1 : Tail(jobs)[i] = jobs[i + 1]
  BY DEF QueueIsSane
<1>2. 1 \in DOMAIN jobs /\ \A i \in DOMAIN Tail(jobs) : i + 1 \in DOMAIN jobs /\ i + 1 # 1
  BY <1>1
<1>3. \A i \in DOMAIN Tail(jobs) : jobs[i + 1].key # jobs[1].key
  BY <1>2 DEF QueueIsSane
<1>4. \A i, j \in DOMAIN Tail(jobs) : i + 1 = j + 1 => i = j
  BY <1>1
<1>5. QED
  BY <1>1, <1>2, <1>3, <1>4 DEF QueueIsSane

\* What waits is taken out, or what runs is told to end.
LEMMA CancelKeeps ==
    ASSUME NEW gone, QueueIsSane(jobs, gone), NEW key, Cancel(key)
    PROVE  QueueIsSane(jobs', gone)
<1>1. PICK i \in Queued(key) :
        \/ i # 1 /\ jobs' = RemoveAt(jobs, i)
        \/ i = 1 /\ jobs' = [jobs EXCEPT ![1].aborted = TRUE]
  BY DEF Cancel
<1>2. /\ jobs \in Seq(Ticket) /\ DOMAIN jobs = 1 .. Len(jobs) /\ Len(jobs) \in Nat
      /\ i \in 1 .. Len(jobs) /\ \A k \in 1 .. Len(jobs) : jobs[k] \in Ticket
  BY DEF QueueIsSane, Queued
<1>3. CASE jobs' = RemoveAt(jobs, i)
  <2> DEFINE From(k) == IF k < i THEN k ELSE k + 1
             front == SubSeq(jobs, 1, i - 1)
             back == SubSeq(jobs, i + 1, Len(jobs))
  <2>1. /\ front \in Seq(Ticket) /\ Len(front) = i - 1
        /\ \A k \in 1 .. i - 1 : front[k] = jobs[k]
    BY <1>2
  <2>2. /\ back \in Seq(Ticket) /\ Len(back) = Len(jobs) - i
        /\ \A k \in 1 .. Len(jobs) - i : back[k] = jobs[i + k]
    <3>1. i + 1 \in 1 .. Len(jobs) + 1 /\ Len(jobs) - (i + 1) + 1 = Len(jobs) - i
          /\ \A k \in Int : (i + 1) + k - 1 = i + k
      BY <1>2
    <3>2. /\ back \in Seq(Ticket)
          /\ Len(back) = IF i + 1 <= Len(jobs) THEN Len(jobs) - (i + 1) + 1 ELSE 0
          /\ \A k \in 1 .. Len(jobs) - (i + 1) + 1 : back[k] = jobs[(i + 1) + k - 1]
      BY <1>2, <3>1, SubSeqProperties
    <3>3. Len(back) = Len(jobs) - i
      <4>1. i \in Int /\ Len(jobs) \in Int /\ i <= Len(jobs)
        BY <1>2
      <4>2. Len(back) = IF i + 1 <= Len(jobs) THEN Len(jobs) - (i + 1) + 1 ELSE 0
        BY <3>2
      <4>3. \A a, b \in Int : a <= b => b - a = IF a + 1 <= b THEN b - (a + 1) + 1 ELSE 0
        OBVIOUS
      <4> QED
        BY <4>1, <4>2, <4>3
    <3>4. ASSUME NEW k \in 1 .. Len(jobs) - i PROVE back[k] = jobs[i + k]
      <4>1. k \in 1 .. Len(jobs) - (i + 1) + 1 /\ (i + 1) + k - 1 = i + k
        BY <1>2, <3>1
      <4> HIDE DEF back
      <4> QED
        BY <3>2, <4>1
    <3>5. QED
      BY <3>2, <3>3, <3>4
  <2>3. jobs' = front \o back
    BY <1>3 DEF RemoveAt
  <2> HIDE DEF front, back
  <2>4. /\ jobs' \in Seq(Ticket) /\ DOMAIN jobs' = 1 .. Len(jobs) - 1
        /\ \A k \in 1 .. Len(jobs) - 1 : jobs'[k] = jobs[From(k)]
    <3>1. /\ jobs' \in Seq(Ticket) /\ Len(jobs') = Len(jobs) - 1
          /\ \A k \in 1 .. Len(jobs) - 1 : jobs'[k] = IF k < i THEN front[k] ELSE back[k - (i - 1)]
      <4>1. /\ front \o back \in Seq(Ticket) /\ Len(front \o back) = (i - 1) + (Len(jobs) - i)
            /\ \A k \in 1 .. (i - 1) + (Len(jobs) - i) :
                    (front \o back)[k] = IF k <= i - 1 THEN front[k] ELSE back[k - (i - 1)]
        BY <2>1, <2>2, ConcatProperties
      <4>2. (i - 1) + (Len(jobs) - i) = Len(jobs) - 1 /\ \A k \in Int : k <= i - 1 <=> k < i
        BY <1>2
      <4> QED
        BY <2>3, <4>1, <4>2
    <3>2. \A k \in 1 .. Len(jobs) - 1 :
            IF k < i THEN k \in 1 .. i - 1 ELSE k - (i - 1) \in 1 .. Len(jobs) - i /\ i + (k - (i - 1)) = k + 1
      BY <1>2
    <3>3. QED
      <4>1. ASSUME NEW k \in 1 .. Len(jobs) - 1 PROVE jobs'[k] = jobs[From(k)]
        BY <2>1, <2>2, <3>1, <3>2
      <4>2. DOMAIN jobs' = 1 .. Len(jobs')
        BY <3>1
      <4> QED
        BY <3>1, <4>1, <4>2
  <2>5. \A k, l \in 1 .. Len(jobs) - 1 : From(k) \in DOMAIN jobs /\ (From(k) = From(l) => k = l)
    BY <1>2
  <2> HIDE DEF From
  <2>6. QED
    BY <2>4, <2>5 DEF QueueIsSane
<1>4. CASE jobs' = [jobs EXCEPT ![1].aborted = TRUE] /\ i = 1
  <2>1. /\ jobs' \in Seq(Ticket) /\ DOMAIN jobs' = DOMAIN jobs
        /\ \A k \in DOMAIN jobs : jobs'[k].key = jobs[k].key /\ jobs'[k].confirmed = jobs[k].confirmed
    <3>1. [jobs[1] EXCEPT !.aborted = TRUE] \in Ticket
      BY <1>2, <1>4 DEF Ticket
    <3>2. jobs' = [jobs EXCEPT ![1] = [jobs[1] EXCEPT !.aborted = TRUE]]
      BY <1>4
    <3>3. [jobs[1] EXCEPT !.aborted = TRUE].key = jobs[1].key
          /\ [jobs[1] EXCEPT !.aborted = TRUE].confirmed = jobs[1].confirmed
      BY <1>2, <1>4 DEF Ticket
    <3> QED
      BY <1>2, <1>4, <3>1, <3>2, <3>3
  <2>2. QED
    BY <2>1 DEF QueueIsSane
<1>5. QED
  BY <1>1, <1>3, <1>4
-----------------------------------------------------------------------------
(* Lemmas about runs and views                                              *)

LEMMA FactsOfIsFacts ==
    ASSUME NEW m \in [running : BOOLEAN, routed : BOOLEAN]
    PROVE  FactsOf(m) \in LauncherFacts
BY DEF FactsOf, LauncherFacts, EmptyFacts, Known, Routes

\* A call waits for its ticket, or has its answer.
LEMMA RequestedIsCall ==
    ASSUME NEW op \in Operation, NEW asked \in Nat, NEW confirmed
    PROVE  Requested(op, asked, confirmed) \in RunCall
BY DEF Requested, Call, RunCall, AnswerTo, Outcomes, Needs

\* Whoever waits for a ticket is told how it ended.
LEMMA ToldAreRuns ==
    ASSUME runs \in [Slots -> Seq(RunCall)], NEW key, NEW outcome \in Outcomes
    PROVE  Told(key, outcome) \in [Slots -> Seq(RunCall)]
<1> SUFFICES ASSUME NEW slot \in Slots
             PROVE  (IF runs[slot] # <<>> /\ Last(runs[slot]).at = "waits" /\ Last(runs[slot]).op = key
                     THEN ReplaceAt(runs[slot], Len(runs[slot]), [Last(runs[slot]) EXCEPT !.at = outcome])
                     ELSE runs[slot]) \in Seq(RunCall)
  BY DEF Told
<1> DEFINE r == runs[slot]
<1>1. r \in Seq(RunCall)
  OBVIOUS
<1> HIDE DEF r
<1>2. ASSUME r # <<>>
      PROVE  ReplaceAt(r, Len(r), [Last(r) EXCEPT !.at = outcome]) \in Seq(RunCall)
  <2>1. Len(r) \in 1 .. Len(r) /\ r[Len(r)] \in RunCall
    BY <1>1, <1>2
  <2>2. [r[Len(r)] EXCEPT !.at = outcome] \in RunCall
    BY <2>1 DEF RunCall
  <2>3. QED
    BY <1>1, <2>1, <2>2 DEF ReplaceAt, Last
<1>3. QED
  BY <1>1, <1>2 DEF r

\* The call that runs is the last one.
LEMMA TopIsCall ==
    ASSUME runs \in [Slots -> Seq(RunCall)], NEW slot \in Slots, runs[slot] # <<>>
    PROVE  /\ Top(slot) \in RunCall
           /\ Head(runs[slot]) \in RunCall
           /\ Top(slot).op \in Operation /\ Top(slot).asked \in Nat
           /\ Head(runs[slot]).op \in Operation /\ Head(runs[slot]).asked \in Nat
<1>1. runs[slot] \in Seq(RunCall) /\ Len(runs[slot]) \in 1 .. Len(runs[slot])
  OBVIOUS
<1>2. Top(slot) \in RunCall /\ Head(runs[slot]) \in RunCall
  BY <1>1 DEF Top, Last
<1>3. QED
  BY <1>2 DEF RunCall

LEMMA BecomesRuns ==
    ASSUME runs \in [Slots -> Seq(RunCall)], NEW slot \in Slots, runs[slot] # <<>>,
           NEW call \in RunCall, Becomes(slot, call)
    PROVE  runs' \in [Slots -> Seq(RunCall)]
<1>1. runs[slot] \in Seq(RunCall) /\ Len(runs[slot]) \in 1 .. Len(runs[slot])
  OBVIOUS
<1>2. ReplaceAt(runs[slot], Len(runs[slot]), call) \in Seq(RunCall)
  BY <1>1 DEF ReplaceAt
<1>3. runs' = [runs EXCEPT ![slot] = ReplaceAt(runs[slot], Len(runs[slot]), call)]
  BY DEF Becomes
<1>4. QED
  BY <1>2, <1>3

\* What a view is sent; with nothing queued it is the same before and after a look opened.
LEMMA ModelIsModel ==
    ASSUME TypeOK
    PROVE  Model \in PanelModel /\ Model # None /\ (jobs = <<>> => Model = AtRest)
<1>1. jobs \in Seq(Ticket) /\ facts \in LauncherFacts /\ result \in Result \cup {None}
  BY DEF TypeOK
<1>2. \A i \in 1 .. Len(jobs) : jobs[i].key \in Key
  <2>1. \A i \in 1 .. Len(jobs) : jobs[i] \in Ticket
    BY <1>1
  <2>2. QED
    BY <2>1 DEF Ticket
<1>3. (IF jobs # <<>> /\ IsNews(jobs[1].key) THEN jobs[1].key ELSE None) \in Key \cup {None}
  BY <1>1, <1>2
<1>4. {key \in {jobs[i].key : i \in 2 .. Len(jobs)} : IsNews(key)} \in SUBSET Key
  BY <1>1, <1>2
<1>5. Model \in PanelModel
  BY <1>1, <1>3, <1>4 DEF Model, PanelModel
<1>6. ASSUME jobs = <<>> PROVE Model = AtRest
  <2>1. 2 .. Len(jobs) = {}
    BY <1>6
  <2>2. {key \in {jobs[i].key : i \in 2 .. Len(jobs)} : IsNews(key)} = {}
    BY <2>1
  <2>3. QED
    BY <1>6, <2>2 DEF Model, AtRest
<1>7. QED
  BY <1>5, <1>6, NoneAssumption

\* A view that is sent a model keeps everything but that; where it shows, it has it.
LEMMA PostedIsView ==
    ASSUME NEW view \in View, NEW model \in PanelModel
    PROVE  /\ Posted(view, model) \in View
           /\ Posted(view, model).page = view.page /\ Posted(view, model).says = view.says
           /\ Posted(view, model).ready = view.ready /\ Posted(view, model).visible = view.visible
           /\ Posted(view, model).attached = view.attached
           /\ ViewIsReady(view) =>
                /\ ViewIsReady(Posted(view, model))
                /\ (view.page = "mounted" /\ ~view.says /\ view.visible) => Posted(view, model).shown = model
<1>1. model # None
  BY NoneAssumption
<1>2. view.visible \in BOOLEAN /\ view.ready \in BOOLEAN /\ view.says \in BOOLEAN
  BY DEF View
<1>3. CASE Posted(view, model) = view /\ ~(view.ready /\ view.visible /\ view.posted # model)
  BY <1>1, <1>2, <1>3 DEF ViewIsReady
<1>4. CASE /\ view.ready /\ view.visible /\ view.page = "mounted"
           /\ Posted(view, model) = [view EXCEPT !.posted = model, !.shown = model]
  BY <1>1, <1>2, <1>4 DEF ViewIsReady, View
<1>5. CASE /\ view.ready /\ view.visible /\ view.page # "mounted"
           /\ Posted(view, model) = [view EXCEPT !.posted = model]
  BY <1>1, <1>2, <1>5 DEF ViewIsReady, View
<1>6. QED
  BY <1>3, <1>4, <1>5 DEF Posted, Delivered
-----------------------------------------------------------------------------
(* The queue: nothing runs that was not gone ahead with                     *)

\* What a request leaves of the queue.
LEMMA RequestKeeps ==
    ASSUME NEW gone, QueueIsSane(jobs, gone), NEW op \in Operation, NEW confirmed \in BOOLEAN,
           confirmed => op \in gone, Request(op, confirmed)
    PROVE  QueueIsSane(jobs', gone)
<1>1. op \in Key
  BY DEF Key
<1>2. CASE UNCHANGED jobs
  BY <1>2 DEF QueueIsSane
<1>3. CASE Enqueue(op, confirmed)
  BY <1>1, <1>3, EnqueueKeeps
<1>4. QED
  BY <1>2, <1>3 DEF Request

\* What was gone ahead with stays so, until it runs.
LEMMA MoreGone ==
    ASSUME NEW q, NEW gone, NEW more, QueueIsSane(q, gone), gone \subseteq more
    PROVE  QueueIsSane(q, more)
BY DEF QueueIsSane

LEMMA QueueKept ==
    ASSUME IInv, [Next]_vars
    PROVE  QueueIsSane(jobs', consents') /\ unasked' = {}
<1> USE DEF User, engine, queue, dialogs, opened, panel, ghosts
<1>0. /\ QueueIsSane(jobs, consents) /\ unasked = {} /\ TypeOK
      /\ runs \in [Slots -> Seq(RunCall)] /\ result \in Result \cup {None}
  BY DEF IInv, TypeOK
<1>1. ASSUME UNCHANGED <<jobs, consents, unasked>>
      PROVE  QueueIsSane(jobs', consents') /\ unasked' = {}
  BY <1>0, <1>1
<1>2. ASSUME QueueIsSane(jobs', consents), UNCHANGED <<consents, unasked>>
      PROVE  QueueIsSane(jobs', consents') /\ unasked' = {}
  BY <1>0, <1>2
<1>3. "open" \in Key /\ "interval" \in Key /\ "bridge.pause" \in Operation
  BY DEF Key, Operation
<1>4. CASE Jobs
  <2>1. CASE JobLooks
    BY <2>1, <1>1 DEF JobLooks
  <2>2. CASE RefreshEnds \/ Refuses \/ NeedsConfirmation
    <3>1. jobs # <<>> /\ jobs' = Tail(jobs) /\ UNCHANGED <<consents, unasked>>
      BY <2>2 DEF RefreshEnds, Refuses, NeedsConfirmation, Ends
    <3>2. QED
      BY <1>0, <1>2, <3>1, TailKeeps
  <2>3. CASE Executes
    <3>1. jobs # <<>> /\ jobs' = Tail(jobs) /\ consents' = consents \ {jobs[1].key}
      BY <2>3 DEF Executes, Ends
    <3>2. QueueIsSane(jobs', consents')
      BY <1>0, <3>1, TailKeeps
    <3>3. 1 \in DOMAIN jobs
      BY <1>0, <3>1, TailKeeps
    <3>4. jobs[1].confirmed => jobs[1].key \in consents
      BY <1>0, <3>3 DEF QueueIsSane
    <3>5. unasked' = IF Asks(jobs[1].key, facts) THEN unasked \cup ({jobs[1].key} \ consents) ELSE unasked
      BY <2>3 DEF Executes
    <3>6. ~Asks(jobs[1].key, facts) \/ jobs[1].confirmed
      BY <2>3 DEF Executes
    <3>7. unasked' = {}
      BY <1>0, <3>4, <3>5, <3>6
    <3>8. QED
      BY <3>2, <3>7
  <2>4. QED
    BY <1>4, <2>1, <2>2, <2>3 DEF Jobs
<1>5. CASE Promises
  <2>1. CASE PostSoon \/ OpeningEnds
    BY <2>1, <1>1 DEF PostSoon, OpeningEnds
  <2>2. ASSUME NEW slot \in Slots, AsksUser(slot)
        PROVE  QueueIsSane(jobs', consents') /\ unasked' = {}
    BY <2>2, <1>1 DEF AsksUser
  <2>3. ASSUME NEW slot \in Slots, Returns(slot)
        PROVE  QueueIsSane(jobs', consents') /\ unasked' = {}
    <3>1. UNCHANGED <<consents, unasked>> /\ runs[slot] # <<>>
      BY <2>3 DEF Returns, IsTold
    <3>2. UNCHANGED jobs \/ Request(Head(runs[slot]).op, FALSE)
      BY <2>3 DEF Returns, RequestAgain
    <3>3. Head(runs[slot]).op \in Operation
      BY <1>0, <3>1, TopIsCall
    <3>4. QED
      BY <1>0, <1>1, <1>2, <3>1, <3>2, <3>3, RequestKeeps
  <2>4. QED
    BY <1>5, <2>1, <2>2, <2>3 DEF Promises
<1>6. CASE Views
  <2>1. CASE OpenPanel \/ SelectScreen
    BY <2>1, <1>1 DEF OpenPanel, SelectScreen
  <2>2. CASE RefreshAsked
    <3>1. UNCHANGED <<consents, unasked>> /\ (UNCHANGED jobs \/ Enqueue("open", FALSE))
      BY <2>2 DEF RefreshAsked, Refresh
    <3>2. QED
      BY <1>0, <1>1, <1>2, <1>3, <3>1, EnqueueKeeps
  <2>3. CASE CancelShown
    <3>1. UNCHANGED <<consents, unasked>> /\ \E key : Cancel(key)
      BY <2>3 DEF CancelShown
    <3>2. QED
      BY <1>0, <1>2, <3>1, CancelKeeps
  <2>4. ASSUME NEW layout \in Layouts,
               ResolveView(layout) \/ PageLoads(layout) \/ Hide(layout) \/ Reveal(layout) \/ Dispose(layout)
        PROVE  QueueIsSane(jobs', consents') /\ unasked' = {}
    BY <2>4, <1>1 DEF ResolveView, PageLoads, Hide, Reveal, Dispose
  <2>5. ASSUME NEW layout \in Layouts, OnReady(layout)
        PROVE  QueueIsSane(jobs', consents') /\ unasked' = {}
    <3>1. UNCHANGED <<consents, unasked>> /\ (UNCHANGED jobs \/ Enqueue("open", FALSE))
      BY <2>5 DEF OnReady, Refresh
    <3>2. QED
      BY <1>0, <1>1, <1>2, <1>3, <3>1, EnqueueKeeps
  <2>6. ASSUME NEW layout \in Layouts, SetVisible(layout)
        PROVE  QueueIsSane(jobs', consents') /\ unasked' = {}
    <3>1. UNCHANGED <<consents, unasked>> /\ (UNCHANGED jobs \/ Enqueue("interval", FALSE))
      BY <2>6 DEF SetVisible, Interval
    <3>2. QED
      BY <1>0, <1>1, <1>2, <1>3, <3>1, EnqueueKeeps
  <2>7. QED
    BY <1>6, <2>1, <2>2, <2>3, <2>4, <2>5, <2>6 DEF Views
<1>7. CASE \E op \in Offered : Run(op)
  <2>1. PICK op \in Offered : Run(op)
    BY <1>7
  <2>2. UNCHANGED <<consents, unasked>> /\ Request(op, FALSE) /\ op \in Operation
    BY <2>1, OfferedAssumption DEF Run
  <2>3. QED
    BY <1>0, <1>2, <2>2, RequestKeeps
<1>8. CASE \E slot \in Slots : Answer(slot)
  <2>1. PICK slot \in Slots : Answer(slot)
    BY <1>8
  <2>2. runs[slot] # <<>> /\ UNCHANGED unasked
    BY <2>1 DEF Answer
  <2>3. Top(slot).op \in Operation
    BY <1>0, <2>2, TopIsCall
  <2>4. CASE Dismiss(slot)
    BY <2>2, <2>4, <1>1 DEF Dismiss
  <2>5. CASE GoAhead(slot)
    <3>1. consents' = consents \cup {Top(slot).op} /\ Request(Top(slot).op, TRUE)
      BY <2>5 DEF GoAhead
    <3>2. QueueIsSane(jobs, consents') /\ Top(slot).op \in consents'
      BY <1>0, <3>1, MoreGone
    <3>3. QED
      BY <1>0, <2>2, <2>3, <3>1, <3>2, RequestKeeps
  <2>6. CASE PauseFirst(slot)
    <3>1. UNCHANGED consents /\ Request("bridge.pause", FALSE)
      BY <2>6 DEF PauseFirst
    <3>2. QED
      BY <1>0, <1>2, <1>3, <2>2, <3>1, RequestKeeps
  <2>7. QED
    BY <2>1, <2>4, <2>5, <2>6 DEF Answer
<1>9. CASE OnInterval
  <2>1. UNCHANGED <<consents, unasked>> /\ (UNCHANGED jobs \/ Enqueue("interval", FALSE))
    BY <1>9 DEF OnInterval, Interval
  <2>2. QED
    BY <1>0, <1>1, <1>2, <1>3, <2>1, EnqueueKeeps
<1>10. CASE RowLooks
  <2>1. UNCHANGED <<consents, unasked>> /\ Enqueue("interval", FALSE)
    BY <1>10 DEF RowLooks
  <2>2. QED
    BY <1>0, <1>2, <1>3, <2>1, EnqueueKeeps
<1>11. CASE Change
  BY <1>11, <1>1 DEF Change
<1>12. CASE UNCHANGED vars
  BY <1>12, <1>1 DEF vars
<1>13. QED
  BY <1>4, <1>5, <1>6, <1>7, <1>8, <1>9, <1>10, <1>11, <1>12 DEF Next
-----------------------------------------------------------------------------
(* Types                                                                    *)

LEMMA NoViewIsView == NoView \in View /\ Attached \in View /\ ViewIsReady(NoView) /\ ViewIsReady(Attached)
BY DEF NoView, Attached, View, ViewIsReady

\* The parts of the type that a step sets on their own: who waits, and what is drawn.
Bookkeeping ==
    /\ machine \in [running : BOOLEAN, routed : BOOLEAN]
    /\ facts \in LauncherFacts
    /\ looked \in BOOLEAN /\ asking \in BOOLEAN
    /\ opening \in BOOLEAN /\ openingEnds \in BOOLEAN /\ postPending \in BOOLEAN
    /\ consents \subseteq Operation
    /\ changes \in 0 .. MaxChanges
Runs  == runs \in [Slots -> Seq(RunCall)] /\ result \in Result \cup {None} /\ acts \in 0 .. MaxActs
Drawn == views \in [Layouts -> View]
Panel == screen \in Screens /\ saved \in Screens \cup {None} /\ pendingScreen \in Screens \cup {None} /\ wanted \in Screens \cup {None}

LEMMA TypeParts ==
    TypeOK <=> /\ Bookkeeping /\ Runs /\ Drawn /\ Panel
               /\ jobs \in Seq(Ticket) /\ unasked \subseteq Operation
BY DEF TypeOK, Bookkeeping, Runs, Drawn, Panel

LEMMA BookkeepingKept ==
    ASSUME IInv, [Next]_vars
    PROVE  Bookkeeping'
<1> USE DEF User, engine, queue, dialogs, opened, panel, ghosts
<1>0. /\ Bookkeeping /\ Runs /\ QueueIsSane(jobs, consents) /\ jobs \in Seq(Ticket)
      /\ MaxChanges \in Nat
  BY TypeParts, BoundsAssumption DEF IInv
<1> USE DEF Bookkeeping
<1>1. CASE Jobs
  <2>1. CASE JobLooks
    BY <1>0, <2>1, FactsOfIsFacts DEF JobLooks
  <2>2. CASE RefreshEnds \/ Refuses \/ NeedsConfirmation
    BY <1>0, <2>2 DEF RefreshEnds, Refuses, NeedsConfirmation, Ends
  <2>3. CASE Executes
    <3>1. Effect(jobs[1].key, machine) \in [running : BOOLEAN, routed : BOOLEAN]
      BY <1>0 DEF Effect
    <3>2. FactsOf(Effect(jobs[1].key, machine)) \in LauncherFacts
      BY <3>1, FactsOfIsFacts
    <3>3. QED
      BY <1>0, <2>3, <3>1, <3>2 DEF Executes, Ends
  <2>4. QED
    BY <1>1, <2>1, <2>2, <2>3 DEF Jobs
<1>2. CASE Promises
  BY <1>0, <1>2 DEF Promises, PostSoon, OpeningEnds, AsksUser, Returns
<1>3. CASE Views
  <2>1. CASE OpenPanel \/ SelectScreen \/ RefreshAsked
    BY <1>0, <2>1 DEF OpenPanel, SelectScreen, RefreshAsked, Refresh
  <2>2. CASE CancelShown
    BY <1>0, <2>2 DEF CancelShown, Cancel
  <2>3. ASSUME NEW layout \in Layouts,
               \/ ResolveView(layout) \/ PageLoads(layout) \/ Hide(layout) \/ Reveal(layout)
               \/ Dispose(layout) \/ OnReady(layout) \/ SetVisible(layout)
        PROVE  Bookkeeping'
    BY <1>0, <2>3 DEF ResolveView, PageLoads, Hide, Reveal, Dispose, OnReady, SetVisible, Refresh
  <2>4. QED
    BY <1>3, <2>1, <2>2, <2>3 DEF Views
<1>4. CASE \E op \in Offered : Run(op)
  BY <1>0, <1>4 DEF Run
<1>5. CASE \E slot \in Slots : Answer(slot)
  <2>1. PICK slot \in Slots : Answer(slot)
    BY <1>5
  <2>2. Top(slot).op \in Operation
    BY <1>0, <2>1, TopIsCall DEF Answer, Runs
  <2>3. consents' = consents \/ consents' = consents \cup {Top(slot).op}
    BY <2>1 DEF Answer, Dismiss, GoAhead, PauseFirst
  <2>4. QED
    BY <1>0, <2>1, <2>2, <2>3 DEF Answer
<1>6. CASE OnInterval \/ RowLooks
  BY <1>0, <1>6 DEF OnInterval, RowLooks
<1>9. CASE Change
  <2>1. \A b \in BOOLEAN : (~b) \in BOOLEAN
    OBVIOUS
  <2>2. machine' \in [running : BOOLEAN, routed : BOOLEAN]
    BY <1>0, <1>9, <2>1 DEF Change
  <2>3. changes' \in 0 .. MaxChanges
    BY <1>0, <1>9 DEF Change
  <2>4. QED
    BY <1>0, <1>9, <2>2, <2>3 DEF Change
<1>7. CASE UNCHANGED vars
  BY <1>0, <1>7 DEF vars
<1>8. QED
  BY <1>1, <1>2, <1>3, <1>4, <1>5, <1>6, <1>7, <1>9 DEF Next

LEMMA RunsKept ==
    ASSUME IInv, [Next]_vars
    PROVE  Runs'
<1> USE DEF User, engine, queue, dialogs, opened, panel, ghosts
<1>0. Runs /\ jobs \in Seq(Ticket) /\ acts \in Nat /\ MaxActs \in Nat
  BY TypeParts, BoundsAssumption DEF IInv, Runs
<1> USE DEF Runs
<1>1. "bridge.pause" \in Operation /\ {"ok", "failed", "refused", "cancelled"} \subseteq Outcomes
  BY DEF Operation, Outcomes
<1>2. CASE Jobs
  <2>1. CASE JobLooks
    BY <1>0, <2>1 DEF JobLooks
  <2>2. ASSUME NEW outcome \in Outcomes, Ends(outcome)
        PROVE  Runs'
    BY <1>0, <2>2, ToldAreRuns DEF Ends
  <2>3. AnswerTo(jobs[1].key) \in Outcomes
    BY DEF AnswerTo, Outcomes, Needs
  <2>4. CASE RefreshEnds \/ Refuses \/ NeedsConfirmation \/ Executes
    <3>1. PICK outcome \in Outcomes : Ends(outcome)
      BY <1>1, <2>3, <2>4 DEF RefreshEnds, Refuses, NeedsConfirmation, Executes
    <3>2. QED
      BY <2>2, <3>1
  <2>5. QED
    BY <1>2, <2>1, <2>4 DEF Jobs
<1>3. CASE Promises
  <2>1. CASE PostSoon \/ OpeningEnds
    BY <1>0, <2>1 DEF PostSoon, OpeningEnds
  <2>2. ASSUME NEW slot \in Slots, AsksUser(slot)
        PROVE  Runs'
    <3> DEFINE call == [Top(slot) EXCEPT !.at = IF @ = "needs-first" THEN "asks-first" ELSE "asks"]
    <3>1. runs[slot] # <<>> /\ UNCHANGED <<result, acts>>
      BY <2>2 DEF AsksUser, IsTold
    <3>2. Becomes(slot, call)
      BY <2>2 DEF AsksUser
    <3>3. call \in RunCall
      BY <1>0, <3>1, TopIsCall DEF RunCall, Asking
    <3> HIDE DEF call
    <3>4. QED
      BY <1>0, <3>1, <3>2, <3>3, BecomesRuns
  <2>3. ASSUME NEW slot \in Slots, Returns(slot)
        PROVE  Runs'
    <3>1. /\ runs[slot] # <<>> /\ Top(slot).at \in Outcomes /\ UNCHANGED acts
          /\ result' = [op |-> Top(slot).op, status |-> IF Top(slot).at \in Needs THEN "cancelled" ELSE Top(slot).at]
          /\ \/ runs' = [runs EXCEPT ![slot] = <<>>]
             \/ runs' = [runs EXCEPT ![slot] = <<Requested(Head(@).op, Head(@).asked + 1, FALSE)>>]
      BY <2>3 DEF Returns, IsTold, RequestAgain, Top
    <3> DEFINE call == Requested(Head(runs[slot]).op, Head(runs[slot]).asked + 1, FALSE)
    <3>2. Top(slot).op \in Operation /\ Head(runs[slot]).op \in Operation /\ Head(runs[slot]).asked + 1 \in Nat
      BY <1>0, <3>1, TopIsCall
    <3>3. call \in RunCall
      BY <3>2, RequestedIsCall
    <3>4. result' \in Result
      BY <3>1, <3>2 DEF Result, Outcomes, Needs
    <3>5. runs' = [runs EXCEPT ![slot] = <<>>] \/ runs' = [runs EXCEPT ![slot] = <<call>>]
      BY <3>1
    <3> HIDE DEF call
    <3>6. <<>> \in Seq(RunCall) /\ <<call>> \in Seq(RunCall)
      BY <3>3
    <3>7. QED
      BY <1>0, <3>1, <3>4, <3>5, <3>6
  <2>4. QED
    BY <1>3, <2>1, <2>2, <2>3 DEF Promises
<1>4. CASE Views
  <2>1. CASE OpenPanel \/ SelectScreen \/ RefreshAsked
    BY <1>0, <2>1 DEF OpenPanel, SelectScreen, RefreshAsked
  <2>2. CASE CancelShown
    <3>1. acts' \in 0 .. MaxActs /\ UNCHANGED result
      BY <1>0, <2>2 DEF CancelShown
    <3>2. PICK key : Cancel(key)
      BY <2>2 DEF CancelShown
    <3>3. UNCHANGED runs \/ runs' = Told(key, "cancelled")
      BY <3>2 DEF Cancel
    <3>4. QED
      BY <1>0, <1>1, <3>1, <3>3, ToldAreRuns
  <2>3. ASSUME NEW layout \in Layouts,
               \/ ResolveView(layout) \/ PageLoads(layout) \/ Hide(layout) \/ Reveal(layout)
               \/ Dispose(layout) \/ OnReady(layout) \/ SetVisible(layout)
        PROVE  Runs'
    BY <1>0, <2>3 DEF ResolveView, PageLoads, Hide, Reveal, Dispose, OnReady, SetVisible
  <2>4. QED
    BY <1>4, <2>1, <2>2, <2>3 DEF Views
<1>5. CASE \E op \in Offered : Run(op)
  <2>1. PICK op \in Offered : Run(op)
    BY <1>5
  <2>2. Requested(op, 0, FALSE) \in RunCall
    BY OfferedAssumption, RequestedIsCall
  <2>3. PICK slot \in Slots : runs' = [runs EXCEPT ![slot] = <<Requested(op, 0, FALSE)>>]
    BY <2>1 DEF Run
  <2>4. acts' \in 0 .. MaxActs /\ UNCHANGED result
    BY <1>0, <2>1 DEF Run
  <2>5. <<Requested(op, 0, FALSE)>> \in Seq(RunCall)
    <3>1. \A call \in RunCall : <<call>> \in Seq(RunCall)
      OBVIOUS
    <3>2. QED
      BY <2>2, <3>1, Zenon
  <2>6. QED
    BY <1>0, <2>3, <2>4, <2>5
<1>6. CASE \E slot \in Slots : Answer(slot)
  <2>1. PICK slot \in Slots : Answer(slot)
    BY <1>6
  <2>2. runs[slot] # <<>> /\ UNCHANGED <<result, acts>>
    BY <2>1 DEF Answer
  <2>3. Top(slot) \in RunCall /\ Top(slot).op \in Operation /\ Top(slot).asked + 1 \in Nat
    BY <1>0, <2>2, TopIsCall
  <2>4. CASE Dismiss(slot)
    <3>1. [Top(slot) EXCEPT !.at = "cancelled"] \in RunCall
      BY <1>1, <2>3 DEF RunCall
    <3>2. QED
      BY <1>0, <2>2, <2>4, <3>1, BecomesRuns DEF Dismiss
  <2>5. CASE GoAhead(slot)
    <3>1. Requested(Top(slot).op, Top(slot).asked + 1, TRUE) \in RunCall
      BY <2>3, RequestedIsCall
    <3>2. QED
      BY <1>0, <2>2, <2>5, <3>1, BecomesRuns DEF GoAhead
  <2>6. CASE PauseFirst(slot)
    <3>1. Requested("bridge.pause", 0, FALSE) \in RunCall
      BY <1>1, RequestedIsCall
    <3>2. runs' = [runs EXCEPT ![slot] = Append(runs[slot], Requested("bridge.pause", 0, FALSE))]
      BY <2>6 DEF PauseFirst
    <3>3. \A q \in Seq(RunCall), call \in RunCall : Append(q, call) \in Seq(RunCall)
      OBVIOUS
    <3>4. Append(runs[slot], Requested("bridge.pause", 0, FALSE)) \in Seq(RunCall)
      BY <1>0, <3>1, <3>3, Zenon
    <3>5. QED
      BY <1>0, <2>2, <3>2, <3>4
  <2>7. QED
    BY <2>1, <2>4, <2>5, <2>6 DEF Answer
<1>7. CASE OnInterval \/ RowLooks \/ Change
  <2>1. CASE OnInterval \/ Change
    BY <1>0, <2>1 DEF OnInterval, Change
  <2>2. CASE RowLooks
    BY <1>0, <2>2 DEF RowLooks
  <2>3. QED
    BY <1>7, <2>1, <2>2
<1>8. CASE UNCHANGED vars
  BY <1>0, <1>8 DEF vars
<1>9. QED
  BY <1>2, <1>3, <1>4, <1>5, <1>6, <1>7, <1>8 DEF Next
-----------------------------------------------------------------------------
(* Views                                                                    *)

\* A view of the same kind, as current as it was or as the model.
LEMMA PostedIsCurrent ==
    ASSUME TypeOK, NEW view \in View, ViewIsReady(view)
    PROVE  /\ Posted(view, Model) \in View /\ ViewIsReady(Posted(view, Model))
           /\ Posted(view, Model).ready = view.ready
           /\ Posted(view, Model).attached = view.attached
           /\ jobs = <<>> => IsCurrent(Posted(view, Model), AtRest)
<1>1. Model \in PanelModel /\ (jobs = <<>> => Model = AtRest)
  BY ModelIsModel
<1> HIDE DEF Model
<1>2. QED
  BY <1>1, PostedIsView DEF IsCurrent

\* Where nothing changes that the model is made of, a view stays current.
LEMMA StaysCurrent ==
    ASSUME NEW layout \in Layouts, NEW view \in View, TypeOK, QuietIsCurrent, Settled,
           UNCHANGED <<facts, result>>, postPending' = (jobs' # jobs),
           views' = [views EXCEPT ![layout] = view],
           jobs = <<>> => IsCurrent(view, AtRest)
    PROVE  QuietIsCurrent'
<1> SUFFICES ASSUME ~postPending', jobs' = <<>>, NEW other \in Layouts
             PROVE  IsCurrent(views'[other], AtRest')
  BY DEF QuietIsCurrent
<1>1. jobs = <<>> /\ ~postPending
  BY DEF Settled
<1>2. AtRest' = AtRest
  BY DEF AtRest
<1>3. views'[other] = IF other = layout THEN view ELSE views[other]
  BY DEF TypeOK
<1>4. IsCurrent(views'[other], AtRest)
  BY <1>1, <1>3 DEF QuietIsCurrent
<1>5. QED
  BY <1>2, <1>4

\* The same where no view changes.
LEMMA NothingShows ==
    ASSUME QuietIsCurrent, Settled,
           UNCHANGED <<facts, result, views>>, postPending' = (jobs' # jobs)
    PROVE  QuietIsCurrent'
<1> SUFFICES ASSUME ~postPending', jobs' = <<>>, NEW other \in Layouts
             PROVE  IsCurrent(views'[other], AtRest')
  BY DEF QuietIsCurrent
<1>1. jobs = <<>> /\ ~postPending
  BY DEF Settled
<1>2. AtRest' = AtRest
  BY DEF AtRest
<1>3. QED
  BY <1>1, <1>2 DEF QuietIsCurrent

\* What a step leaves of one view, and of what the views show.
LEMMA ViewsKept ==
    ASSUME IInv, [Next]_vars
    PROVE  Drawn' /\ ViewsAreReady' /\ QuietIsCurrent'
<1> USE DEF User, engine, queue, dialogs, opened, panel, ghosts
<1>0. /\ TypeOK /\ Drawn /\ ViewsAreReady /\ QuietIsCurrent
      /\ jobs \in Seq(Ticket) /\ postPending \in BOOLEAN
      /\ \A layout \in Layouts : views[layout] \in View /\ ViewIsReady(views[layout])
  BY TypeParts DEF IInv, ViewsAreReady, Drawn, Bookkeeping
<1>1. ASSUME UNCHANGED views
      PROVE  Drawn' /\ ViewsAreReady'
  BY <1>0, <1>1 DEF Drawn, ViewsAreReady
<1>2. ASSUME UNCHANGED views, postPending' = TRUE
      PROVE  Drawn' /\ ViewsAreReady' /\ QuietIsCurrent'
  BY <1>1, <1>2 DEF QuietIsCurrent
<1>3. ASSUME UNCHANGED <<views, jobs, facts, result, postPending>>
      PROVE  Drawn' /\ ViewsAreReady' /\ QuietIsCurrent'
  BY <1>0, <1>1, <1>3 DEF QuietIsCurrent, AtRest
<1>4. ASSUME UNCHANGED <<views, facts, result>>, Settled, postPending' = (jobs' # jobs)
      PROVE  Drawn' /\ ViewsAreReady' /\ QuietIsCurrent'
  BY <1>0, <1>1, <1>4, NothingShows
<1>5. ASSUME NEW layout \in Layouts, NEW view \in View, ViewIsReady(view), SetView(layout, view),
             jobs = <<>> => IsCurrent(view, AtRest),
             Settled, UNCHANGED <<facts, result>>, postPending' = (jobs' # jobs)
      PROVE  Drawn' /\ ViewsAreReady' /\ QuietIsCurrent'
  <2>1. views' = [views EXCEPT ![layout] = view]
    BY <1>5 DEF SetView
  <2>2. Drawn' /\ ViewsAreReady'
    BY <1>0, <1>5, <2>1 DEF Drawn, ViewsAreReady
  <2>3. QED
    BY <1>0, <1>5, <2>1, <2>2, StaysCurrent
<1>6. CASE Jobs
  <2>1. CASE JobLooks
    BY <1>2, <2>1 DEF JobLooks
  <2>2. CASE RefreshEnds \/ Refuses \/ NeedsConfirmation \/ Executes
    <3>1. PICK outcome : Ends(outcome)
      BY <2>2 DEF RefreshEnds, Refuses, NeedsConfirmation, Executes
    <3>2. QED
      BY <1>2, <3>1 DEF Ends
  <2>3. QED
    BY <1>6, <2>1, <2>2 DEF Jobs
<1>7. CASE Promises
  <2>1. CASE PostSoon
    <3>1. /\ views' = [layout \in Layouts |-> Posted(views[layout], Model)]
          /\ UNCHANGED <<facts, result, jobs>>
      BY <2>1 DEF PostSoon
    <3>2. \A layout \in Layouts :
            /\ views'[layout] \in View /\ ViewIsReady(views'[layout])
            /\ jobs = <<>> => IsCurrent(views'[layout], AtRest)
      BY <1>0, <3>1, PostedIsCurrent
    <3>3. views' = [layout \in Layouts |-> views'[layout]]
      BY <3>1
    <3>4. Drawn' /\ ViewsAreReady'
      BY <3>2, <3>3 DEF Drawn, ViewsAreReady
    <3>5. AtRest' = AtRest /\ jobs' = jobs
      BY <3>1 DEF AtRest
    <3>6. \A layout \in Layouts : jobs' = <<>> => IsCurrent(views'[layout], AtRest')
      BY <3>2, <3>5
    <3>7. QuietIsCurrent'
      BY <3>6 DEF QuietIsCurrent
    <3>8. QED
      BY <3>4, <3>7
  <2>2. CASE OpeningEnds
    BY <1>3, <2>2 DEF OpeningEnds
  <2>3. ASSUME NEW slot \in Slots, AsksUser(slot)
        PROVE  Drawn' /\ ViewsAreReady' /\ QuietIsCurrent'
    BY <1>3, <2>3 DEF AsksUser
  <2>4. ASSUME NEW slot \in Slots, Returns(slot)
        PROVE  Drawn' /\ ViewsAreReady' /\ QuietIsCurrent'
    BY <1>2, <2>4 DEF Returns
  <2>5. QED
    BY <1>7, <2>1, <2>2, <2>3, <2>4 DEF Promises
<1>8. CASE Views
  <2>1. CASE OpenPanel
    <3> DEFINE view == IF ~views["panel"].attached THEN Attached
                       ELSE IF views["panel"].page = "none" THEN [views["panel"] EXCEPT !.page = "loading"]
                       ELSE views["panel"]
    <3>1. /\ Settled /\ SetView("panel", view) /\ UNCHANGED <<facts, result, jobs, postPending>>
          /\ "panel" \in Layouts
      BY <2>1, LayoutsAssumption DEF OpenPanel
    <3>2. view \in View /\ ViewIsReady(view)
      <4>1. views["panel"] \in View /\ ViewIsReady(views["panel"])
        BY <1>0, <3>1
      <4>2. [views["panel"] EXCEPT !.page = "loading"] \in View
        BY <4>1 DEF View
      <4>3. views["panel"].attached => ViewIsReady([views["panel"] EXCEPT !.page = "loading"])
        BY <4>1 DEF ViewIsReady, View
      <4>4. QED
        BY <4>1, <4>2, <4>3, NoViewIsView
    <3>3. jobs = <<>> => IsCurrent(view, AtRest)
      <4>1. IsCurrent(Attached, AtRest)
        BY DEF IsCurrent, Attached, NoView
      <4>2. IsCurrent([views["panel"] EXCEPT !.page = "loading"], AtRest)
        BY <1>0, <3>1 DEF IsCurrent, View
      <4>3. jobs = <<>> => IsCurrent(views["panel"], AtRest)
        BY <1>0, <3>1 DEF QuietIsCurrent, Settled
      <4>4. QED
        BY <4>1, <4>2, <4>3
    <3>4. postPending' = (jobs' # jobs)
      BY <1>0, <3>1 DEF Settled
    <3> HIDE DEF view
    <3>5. QED
      BY <1>5, <3>1, <3>2, <3>3, <3>4
  <2>2. CASE SelectScreen
    BY <1>3, <2>2 DEF SelectScreen
  <2>3. CASE RefreshAsked
    <3>1. Settled /\ UNCHANGED <<facts, views>> /\ postPending' = (jobs' # jobs \/ result # None)
          /\ result' = None
      BY <2>3 DEF RefreshAsked
    <3>2. CASE result # None
      BY <1>2, <3>1, <3>2
    <3>3. CASE result = None
      BY <1>4, <3>1, <3>3
    <3>4. QED
      BY <3>2, <3>3
  <2>4. CASE CancelShown
    <3>1. Settled /\ UNCHANGED <<facts, views, result>>
      BY <2>4 DEF CancelShown
    <3>2. PICK key : Cancel(key)
      BY <2>4 DEF CancelShown
    <3>3. CASE postPending' = TRUE
      BY <1>2, <3>1, <3>3
    <3>4. CASE jobs' = [jobs EXCEPT ![1].aborted = TRUE] /\ jobs # <<>> /\ UNCHANGED postPending
      <4>1. 1 \in DOMAIN jobs' /\ \A i \in DOMAIN <<>> : FALSE
        BY <1>0, <3>4
      <4>2. jobs' # <<>>
        BY <4>1
      <4>3. QED
        BY <1>1, <3>1, <4>2 DEF QuietIsCurrent
    <3>5. Queued(key) # {} => jobs # <<>>
      BY DEF Queued
    <3>6. QED
      BY <3>2, <3>3, <3>4, <3>5 DEF Cancel
  <2>5. ASSUME NEW layout \in Layouts,
               ResolveView(layout) \/ PageLoads(layout) \/ Hide(layout) \/ Reveal(layout) \/ Dispose(layout)
        PROVE  Drawn' /\ ViewsAreReady' /\ QuietIsCurrent'
    <3>1. Settled /\ UNCHANGED <<facts, result, jobs, postPending>>
      BY <2>5 DEF ResolveView, PageLoads, Hide, Reveal, Dispose
    <3>2. postPending' = (jobs' # jobs)
      BY <1>0, <3>1 DEF Settled
    <3> DEFINE old == views[layout]
               loaded == [old EXCEPT !.page = "mounted", !.shown = None, !.says = TRUE]
               hidden == [old EXCEPT !.page = "none", !.shown = None]
               loading == [old EXCEPT !.page = "loading"]
    <3>3. old \in View /\ ViewIsReady(old)
      BY <1>0
    <3>4. PICK view \in {Attached, NoView, loaded, hidden, loading} :
            SetView(layout, view) /\ (view \in {Attached, NoView} \/ old.attached)
      BY <2>5, <3>3 DEF ResolveView, PageLoads, Hide, Reveal, Dispose, ViewIsReady
    <3> HIDE DEF old
    <3>5. loaded \in View /\ hidden \in View /\ loading \in View
      BY <3>3 DEF View
    <3>6. (old.attached => ViewIsReady(loaded)) /\ IsCurrent(loaded, AtRest)
      BY <3>3 DEF View, ViewIsReady, IsCurrent
    <3>7. (old.attached => ViewIsReady(hidden)) /\ IsCurrent(hidden, AtRest)
      BY <3>3 DEF View, ViewIsReady, IsCurrent
    <3>8. (old.attached => ViewIsReady(loading)) /\ IsCurrent(loading, AtRest)
      BY <3>3 DEF View, ViewIsReady, IsCurrent
    <3>9. IsCurrent(Attached, AtRest) /\ IsCurrent(NoView, AtRest)
      BY DEF IsCurrent, Attached, NoView
    <3> HIDE DEF loaded, hidden, loading
    <3>10. view \in View /\ ViewIsReady(view) /\ IsCurrent(view, AtRest)
      BY <3>4, <3>5, <3>6, <3>7, <3>8, <3>9, NoViewIsView
    <3>11. QED
      BY <1>5, <3>1, <3>2, <3>4, <3>10
  <2>6. ASSUME NEW layout \in Layouts, OnReady(layout)
        PROVE  Drawn' /\ ViewsAreReady' /\ QuietIsCurrent'
    <3> DEFINE view == Greeted(views[layout])
    <3>1. /\ Settled /\ UNCHANGED <<facts, result>> /\ postPending' = (jobs' # jobs)
          /\ SetView(layout, Posted(view, Model))
      BY <2>6 DEF OnReady
    <3>2. view \in View /\ ViewIsReady(view)
      BY <1>0, <2>6 DEF OnReady, Greeted, View, ViewIsReady
    <3> HIDE DEF view
    <3>3. /\ Posted(view, Model) \in View /\ ViewIsReady(Posted(view, Model))
          /\ jobs = <<>> => IsCurrent(Posted(view, Model), AtRest)
      BY <1>0, <3>2, PostedIsCurrent
    <3>4. QED
      BY <1>5, <3>1, <3>3
  <2>7. ASSUME NEW layout \in Layouts, SetVisible(layout)
        PROVE  Drawn' /\ ViewsAreReady' /\ QuietIsCurrent'
    <3> DEFINE view == [views[layout] EXCEPT !.visible = ~@]
    <3>1. /\ Settled /\ UNCHANGED <<facts, result>> /\ postPending' = (jobs' # jobs)
          /\ SetView(layout, Posted(view, Model))
      BY <2>7 DEF SetVisible
    <3>2. view \in View /\ ViewIsReady(view)
      BY <1>0 DEF View, ViewIsReady
    <3> HIDE DEF view
    <3>3. /\ Posted(view, Model) \in View /\ ViewIsReady(Posted(view, Model))
          /\ jobs = <<>> => IsCurrent(Posted(view, Model), AtRest)
      BY <1>0, <3>2, PostedIsCurrent
    <3>4. QED
      BY <1>5, <3>1, <3>3
  <2>8. QED
    BY <1>8, <2>1, <2>2, <2>3, <2>4, <2>5, <2>6, <2>7 DEF Views
<1>9. CASE \E op \in Offered : Run(op)
  BY <1>4, <1>9 DEF Run
<1>10. CASE \E slot \in Slots : Answer(slot)
  BY <1>4, <1>10 DEF Answer
<1>11. CASE OnInterval \/ RowLooks
  BY <1>4, <1>11 DEF OnInterval, RowLooks
<1>12. CASE Change
  BY <1>3, <1>12 DEF Change
<1>13. CASE UNCHANGED vars
  BY <1>3, <1>13 DEF vars
<1>14. QED
  BY <1>6, <1>7, <1>8, <1>9, <1>10, <1>11, <1>12, <1>13 DEF Next
-----------------------------------------------------------------------------
(* The screen of the panel                                                  *)

LEMMA ScreenKept ==
    ASSUME IInv, [Next]_vars
    PROVE  Panel' /\ ScreenIsKept'
<1> USE DEF User, engine, queue, dialogs, opened, panel, ghosts
<1>0. /\ TypeOK /\ Panel /\ ScreenIsKept /\ "panel" \in Layouts
      /\ Drawn /\ views["panel"] \in View /\ ViewIsReady(views["panel"])
  BY TypeParts, LayoutsAssumption DEF IInv, ViewsAreReady, Drawn
<1>1. ASSUME UNCHANGED <<views, panel>>
      PROVE  Panel' /\ ScreenIsKept'
  BY <1>0, <1>1 DEF Panel, ScreenIsKept
<1>2. ASSUME UNCHANGED panel, NEW layout \in Layouts, NEW view, SetView(layout, view),
             layout = "panel" => /\ ~view.ready \/ view.ready = views["panel"].ready
                                 /\ view.attached \/ view.attached = views["panel"].attached
      PROVE  Panel' /\ ScreenIsKept'
  <2>1. views'["panel"] = IF layout = "panel" THEN view ELSE views["panel"]
    BY <1>0, <1>2 DEF SetView, Drawn
  <2>2. /\ views'["panel"].ready => pendingScreen = None
        /\ ~views'["panel"].attached => screen = "overview"
    BY <1>0, <1>2, <2>1 DEF ScreenIsKept
  <2>3. QED
    BY <1>0, <1>2, <2>2 DEF Panel, ScreenIsKept
<1>3. CASE Jobs
  BY <1>1, <1>3 DEF Jobs, JobLooks, RefreshEnds, Refuses, NeedsConfirmation, Executes, Ends
<1>4. CASE Promises
  <2>1. CASE PostSoon
    <3>1. views'["panel"] = Posted(views["panel"], Model) /\ UNCHANGED panel
      BY <1>0, <2>1 DEF PostSoon
    <3>2. views'["panel"].ready = views["panel"].ready /\ views'["panel"].attached = views["panel"].attached
      BY <1>0, <3>1, PostedIsCurrent
    <3>3. QED
      BY <1>0, <3>1, <3>2 DEF Panel, ScreenIsKept
  <2>2. CASE OpeningEnds \/ \E slot \in Slots : AsksUser(slot) \/ Returns(slot)
    BY <1>1, <2>2 DEF OpeningEnds, AsksUser, Returns
  <2>3. QED
    BY <1>4, <2>1, <2>2 DEF Promises
<1>5. CASE Views
  <2>1. CASE OpenPanel
    <3> DEFINE old == views["panel"]
    <3>1. PICK s \in Screens \cup {None} :
            /\ ShowsScreen(old, s)
            /\ wanted' = Wanted(old, s)
      BY <2>1 DEF OpenPanel
    <3>2. PICK view \in {Attached, [old EXCEPT !.page = "loading"], old} :
            views' = [views EXCEPT !["panel"] = view] /\ (view = Attached \/ old.attached)
      BY <2>1 DEF OpenPanel, SetView
    <3> HIDE DEF old
    <3>3. old \in View
      BY <1>0 DEF old
    <3>4. (view.ready => old.ready) /\ view.attached
      BY <3>2, <3>3 DEF View, Attached, NoView
    <3>5. views'["panel"] = view
      BY <1>0, <3>2 DEF Drawn
    <3>6. Panel'
      BY <1>0, <2>1, <3>1 DEF OpenPanel, Panel, ShowsScreen, Wanted, Screens
    <3>7. /\ old.ready => pendingScreen = None /\ old.attached
          /\ ~old.attached => screen = "overview"
      BY <1>0 DEF ScreenIsKept, ViewIsReady, old
    <3>8. wanted # None => wanted = IF pendingScreen = None THEN screen ELSE pendingScreen
      BY <1>0 DEF ScreenIsKept
    <3>9. ScreenIsKept'
      <4>1. CASE old.ready /\ s # None
        BY <3>1, <3>4, <3>5, <3>7, <4>1 DEF ShowsScreen, Wanted, IsInBackground, ScreenIsKept
      <4>2. CASE old.ready /\ s = None
        BY <3>1, <3>4, <3>5, <3>7, <3>8, <4>2 DEF ShowsScreen, Wanted, IsInBackground, ScreenIsKept
      <4>3. CASE ~old.ready
        BY <3>1, <3>4, <3>5, <3>7, <3>8, <4>3 DEF ShowsScreen, Wanted, IsInBackground, ScreenIsKept
      <4>4. QED
        BY <4>1, <4>2, <4>3
    <3>10. QED
      BY <3>6, <3>9
  <2>2. CASE SelectScreen
    <3>1. pendingScreen = None /\ views["panel"].attached
      BY <1>0, <2>2 DEF SelectScreen, ViewIsReady, ScreenIsKept
    <3>2. QED
      BY <1>0, <2>2, <3>1 DEF SelectScreen, Panel, ScreenIsKept
  <2>3. CASE RefreshAsked \/ CancelShown
    BY <1>1, <2>3 DEF RefreshAsked, CancelShown
  <2>4. ASSUME NEW layout \in Layouts, PageLoads(layout) \/ Hide(layout) \/ Reveal(layout)
        PROVE  Panel' /\ ScreenIsKept'
    <3> DEFINE old == views[layout]
               loaded == [old EXCEPT !.page = "mounted", !.shown = None, !.says = TRUE]
               hidden == [old EXCEPT !.page = "none", !.shown = None]
               loading == [old EXCEPT !.page = "loading"]
    <3>1. UNCHANGED panel
      BY <2>4 DEF PageLoads, Hide, Reveal
    <3>2. PICK view \in {loaded, hidden, loading} : SetView(layout, view)
      BY <2>4 DEF PageLoads, Hide, Reveal
    <3>3. old \in View
      BY <1>0 DEF Drawn
    <3> HIDE DEF old
    <3>4. view.ready = old.ready /\ view.attached = old.attached
      BY <3>2, <3>3 DEF View
    <3>5. QED
      BY <1>2, <3>1, <3>2, <3>4 DEF old
  <2>8. ASSUME NEW layout \in Layouts, ResolveView(layout) \/ Dispose(layout)
        PROVE  Panel' /\ ScreenIsKept'
    <3>1. PICK view \in {Attached, NoView} :
            /\ SetView(layout, view)
            /\ view = NoView <=> ~ResolveView(layout)
      BY <2>8 DEF ResolveView, Dispose, Attached, NoView
    <3>2. ~Attached.ready /\ Attached.attached /\ ~NoView.ready /\ ~NoView.attached
      BY DEF Attached, NoView
    <3>3. CASE layout # "panel"
      <4>1. UNCHANGED panel
        BY <2>8, <3>3 DEF ResolveView, Dispose
      <4>2. QED
        BY <1>2, <3>1, <3>3, <4>1
    <3>4. CASE layout = "panel"
      <4>1. views'["panel"] = view
        BY <1>0, <3>1, <3>4 DEF SetView, Drawn
      <4>2. CASE ResolveView(layout)
        <5>1. view = Attached /\ BroughtBack
          BY <3>1, <3>2, <3>4, <4>2 DEF ResolveView
        <5>2. QED
          BY <1>0, <3>2, <4>1, <5>1 DEF BroughtBack, Panel, ScreenIsKept
      <4>3. CASE Dispose(layout)
        <5>1. screen' = "overview" /\ wanted' = None /\ UNCHANGED <<saved, pendingScreen>>
          BY <3>4, <4>3 DEF Dispose
        <5>2. QED
          BY <1>0, <3>1, <3>2, <4>1, <5>1 DEF Panel, Screens, ScreenIsKept
      <4>4. QED
        BY <2>8, <4>2, <4>3
    <3>5. QED
      BY <3>3, <3>4
  <2>5. ASSUME NEW layout \in Layouts, OnReady(layout)
        PROVE  Panel' /\ ScreenIsKept'
    <3> DEFINE view == Greeted(views[layout])
    <3>1. views' = [views EXCEPT ![layout] = Posted(view, Model)]
      BY <2>5 DEF OnReady, SetView
    <3>2. CASE layout # "panel"
      <4>1. UNCHANGED panel /\ views'["panel"] = views["panel"]
        BY <1>0, <2>5, <3>1, <3>2 DEF OnReady, Drawn
      <4>2. QED
        BY <1>0, <4>1 DEF Panel, ScreenIsKept
    <3>3. CASE layout = "panel"
      <4>1. view \in View /\ ViewIsReady(view) /\ view.ready = TRUE
        BY <1>0, <2>5, <3>3 DEF OnReady, Greeted, View, ViewIsReady
      <4>2. views'["panel"] = Posted(view, Model)
        BY <1>0, <3>1, <3>3 DEF Drawn
      <4>3. views'["panel"].ready /\ views'["panel"].attached
        BY <1>0, <4>1, <4>2, PostedIsCurrent DEF ViewIsReady
      <4>4. /\ ShowsScreen(views'["panel"], pendingScreen)
            /\ wanted' = IF IsInBackground(views'["panel"]) /\ pendingScreen # None THEN None ELSE wanted
            /\ UNCHANGED saved
        BY <2>5, <3>3 DEF OnReady
      <4>5. Panel'
        BY <1>0, <4>4 DEF Panel, ShowsScreen
      <4>6. ScreenIsKept'
        BY <1>0, <4>3, <4>4 DEF ScreenIsKept, ShowsScreen, IsInBackground
      <4>7. QED
        BY <4>5, <4>6
    <3>4. QED
      BY <3>2, <3>3
  <2>6. ASSUME NEW layout \in Layouts, SetVisible(layout)
        PROVE  Panel' /\ ScreenIsKept'
    <3> DEFINE view == [views[layout] EXCEPT !.visible = ~@]
    <3>1. UNCHANGED panel /\ SetView(layout, Posted(view, Model))
      BY <2>6 DEF SetVisible
    <3>2. /\ view \in View /\ ViewIsReady(view)
          /\ view.ready = views[layout].ready /\ view.attached = views[layout].attached
      <4>1. views[layout] \in View /\ ViewIsReady(views[layout])
        BY <1>0 DEF Drawn, ViewsAreReady, IInv
      <4>2. QED
        BY <4>1 DEF View, ViewIsReady
    <3> HIDE DEF view
    <3>3. /\ Posted(view, Model).ready = views[layout].ready
          /\ Posted(view, Model).attached = views[layout].attached
      BY <1>0, <3>2, PostedIsCurrent
    <3>4. QED
      BY <1>2, <3>1, <3>3
  <2>7. QED
    BY <1>5, <2>1, <2>2, <2>3, <2>4, <2>5, <2>6, <2>8 DEF Views
<1>6. CASE (\E op \in Offered : Run(op)) \/ \E slot \in Slots : Answer(slot)
  BY <1>1, <1>6 DEF Run, Answer
<1>7. CASE OnInterval \/ RowLooks \/ Change
  BY <1>1, <1>7 DEF OnInterval, RowLooks, Change
<1>8. CASE UNCHANGED vars
  BY <1>1, <1>8 DEF vars
<1>9. QED
  BY <1>3, <1>4, <1>5, <1>6, <1>7, <1>8 DEF Next

-----------------------------------------------------------------------------
(* The theorems                                                             *)

\* The invariant holds at first, and every step keeps it.
THEOREM IInvHolds == Spec => []IInv
<1>1. Init => IInv
  <2> SUFFICES ASSUME Init PROVE IInv
    OBVIOUS
  <2> USE DEF Init
  <2>1. EmptyFacts \in LauncherFacts
    BY DEF EmptyFacts, LauncherFacts, Known, Routes
  <2>2. TypeOK
    <3>1. Bookkeeping
      <4>1. machine \in [running : BOOLEAN, routed : BOOLEAN] /\ changes \in 0 .. MaxChanges
        BY MachinesAssumption, BoundsAssumption
      <4>2. consents \subseteq Operation
        OBVIOUS
      <4>3. QED
        BY <2>1, <4>1, <4>2 DEF Bookkeeping
    <3>2. Runs /\ Drawn /\ Panel /\ jobs \in Seq(Ticket)
      BY BoundsAssumption, SavedAssumption, NoViewIsView DEF Runs, Drawn, Panel, Screens
    <3>3. QED
      BY <3>1, <3>2, TypeParts
  <2>3. QueueIsSane(jobs, consents)
    BY DEF QueueIsSane
  <2>4. ViewsAreReady /\ ScreenIsKept /\ QuietIsCurrent
    <3>1. "panel" \in Layouts /\ \A layout \in Layouts : views[layout] = NoView
      BY LayoutsAssumption
    <3>2. IsCurrent(NoView, AtRest) /\ NoView.ready = FALSE
      BY DEF IsCurrent, NoView
    <3>3. QED
      BY <3>1, <3>2, NoViewIsView DEF ViewsAreReady, ScreenIsKept, QuietIsCurrent
  <2>5. QED
    BY <2>2, <2>3, <2>4 DEF IInv
<1>2. IInv /\ [Next]_vars => IInv'
  <2> SUFFICES ASSUME IInv, [Next]_vars PROVE IInv'
    OBVIOUS
  <2>1. QueueIsSane(jobs', consents') /\ unasked' = {}
    BY QueueKept
  <2>2. Drawn' /\ ViewsAreReady' /\ QuietIsCurrent'
    BY ViewsKept
  <2>3. Panel' /\ ScreenIsKept'
    BY ScreenKept
  <2>4. TypeOK'
    <3>1. jobs' \in Seq(Ticket) /\ unasked' \subseteq Operation
      BY <2>1 DEF QueueIsSane
    <3>2. Bookkeeping' /\ Runs'
      BY BookkeepingKept, RunsKept
    <3>3. QED
      BY <2>2, <2>3, <3>1, <3>2, TypeParts DEF TypeOK, Bookkeeping, Runs, Drawn, Panel
  <2>5. QED
    BY <2>1, <2>2, <2>3, <2>4 DEF IInv
<1>3. QED
  BY <1>1, <1>2, PTL DEF Spec

\* Everything keeps its type: no run, ticket or view is ever malformed.
THEOREM TypeCorrect == Spec => []TypeOK
<1>1. IInv => TypeOK
  BY DEF IInv
<1>2. QED
  BY <1>1, IInvHolds, PTL

\* However the runs, their dialogs and the queue interleave, an operation that asks
\* runs only where the user went ahead since it last ran (panelHost.ts:run,
\* controller.ts:request and perform).
THEOREM NothingRunsUnaskedHolds == Spec => []NothingRunsUnasked
<1>1. IInv => NothingRunsUnasked
  BY DEF IInv, NothingRunsUnasked
<1>2. QED
  BY <1>1, IInvHolds, PTL

\* The panel shows the screen that was asked for last since it was created or brought
\* back, however often it was hidden and loaded in between, and the overview where none
\* was asked for (panelHost.ts:openPanel, showPendingScreen and onMessage,
\* extension.ts:adoptLauncherPanel, launcherView.ts:constructor and select).
THEOREM AskedScreenShowsHolds == Spec => []AskedScreenShows
<1>1. IInv => AskedScreenShows
  <2> SUFFICES ASSUME IInv PROVE AskedScreenShows
    OBVIOUS
  <2>1. ViewIsReady(views["panel"]) /\ ScreenIsKept
    BY LayoutsAssumption DEF IInv, ViewsAreReady
  <2>2. QED
    BY <2>1 DEF AskedScreenShows, ViewIsReady, ScreenIsKept
<1>2. QED
  BY <1>1, IInvHolds, PTL

\* Once nothing runs and no message is on its way, every view that shows draws what is
\* so (panelHost.ts:postSoon, post; setVisible and onReady catch up).
THEOREM QuietMeansShownHolds == Spec => []QuietMeansShown
<1>1. IInv => QuietMeansShown
  <2> SUFFICES ASSUME IInv, Settled, jobs = <<>>, NEW layout \in Layouts,
                      views[layout].page = "mounted", ~views[layout].says, views[layout].visible
               PROVE  views[layout].shown = Model
    BY DEF QuietMeansShown
  <2>1. Model = AtRest
    BY ModelIsModel DEF IInv
  <2>2. QED
    BY <2>1 DEF IInv, QuietIsCurrent, IsCurrent, Settled
<1>2. QED
  BY <1>1, IInvHolds, PTL
================================================================================
