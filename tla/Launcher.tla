------------------------------- MODULE Launcher -------------------------------
(***************************************************************************)
(* The one place operations on the ChatGPT Web engine go through:          *)
(* LauncherController (vibe-agents, host/launcher/controller.ts) with the  *)
(* catalogue of operations (model/launcher/operations.ts) and the programs *)
(* it runs (host/launcher/system.ts).                                      *)
(*                                                                         *)
(* The controller is a queue of jobs on one thread.  A job waits for the   *)
(* machine between its steps: for a probe, for the program of its          *)
(* operation, for the launcher to be gone.  Requests, cancellations and    *)
(* timers come in while it waits.  What a probe will say is open: other    *)
(* windows and the launcher itself change the machine at any time.         *)
(*                                                                         *)
(* Left out: links (they start no program), the activity log, and of the   *)
(* facts those that only decide whether an operation is offered.           *)
(***************************************************************************)
EXTENDS Naturals, Sequences, FiniteSets

CONSTANTS
    Offered,     \* the operations users ask for
    MaxTicket    \* bound: the jobs of one session

-----------------------------------------------------------------------------
(* The catalogue                                                            *)

Bridge   == {"bridge.connect", "bridge.pause"}
Reading  == {"models.refresh", "doctor.run"}
Showing   == {"engine.showWindow", "handoff"}
Engine   == Showing \cup {"engine.startHidden", "engine.quit"}
Protocol == {"subagents.useCompatibility", "subagents.useNative"}
Catalogue ==
    {"probe.routeStatus", "turns.cancel"} \cup Bridge \cup Reading \cup Engine \cup Protocol

ASSUME OfferedAssumption == Offered \subseteq Catalogue /\ MaxTicket \in Nat

\* confirm: 'always' and 'if-starts-engine'.
AlwaysAsks == {"turns.cancel"} \cup Bridge \cup Protocol \cup (Engine \ Showing)
AsksIfStarts == Showing

NeedsRuntime ==
    {"probe.routeStatus", "doctor.run", "turns.cancel"} \cup Bridge \cup Protocol

\* openLauncher and quitLauncher are not told that they are cancelled.
TakesSignal(op) == op \notin Engine

AbortsAll(op) == TRUE
IsAbortable(op) == op \in Reading \cup {"probe.routeStatus"}

FreeProbes == <<"engine", "route", "health">>
OpenProbes == <<"runtime", "engine", "route", "status", "health", "subagents">>

Reprobe(op) ==
    CASE op \in Bridge   -> <<"status", "route", "health">>
      [] op \in Engine   -> FreeProbes
      [] op \in Protocol -> <<"subagents">>
      [] OTHER           -> <<"health">>

\* How often the launcher is looked for after the quit event.
QuitPolls == <<"gone", "gone", "gone", "gone", "gone">>

Refreshing == {"refresh:interval", "refresh:open", "refresh:settle"}
Key == Offered \cup Refreshing

Ticket  == 1..MaxTicket
NoJob   == 0
Settles == {2000, 6000, 15000}

Probe  == {"runtime", "engine", "route", "status", "health", "subagents"}
Status == {"ok", "failed", "timeout", "cancelled", "refused", "needs-confirmation"}

VARIABLES
    tickets,    \* how many tickets were given out
    job,        \* what each of them is for, and whether the user went ahead
    queue,      \* those that wait: the order is that of their tickets
    current,    \* the one that runs
    phase,      \* what it does: look before, run, poll until gone, look after
    todo,       \* the probes of that phase, from the one that is waited for
    result,     \* what its program answered
    aborted,    \* its signal
    outcome,    \* how the promise of each ticket was settled
    facts,      \* what is known of the machine, as far as anything depends on it
    settling,   \* the timers of settleAfter
    disposed,
    programs,   \* tickets whose program is alive
    starts,     \* history: how often the program of a ticket was started
    granted,    \* history: went ahead in the dialog, and did not run since
    fresh       \* history: what was looked at since the job or its program began

vars == <<tickets, job, queue, current, phase, todo, result, aborted, outcome,
          facts, settling, disposed, programs, starts, granted, fresh>>

Facts == [runtime : BOOLEAN,
          running : {"yes", "no", "unknown"},
          routed  : BOOLEAN,                         \* the config of Codex
          journal : {"active", "paused", "unread"}]  \* the runtime's own word

TypeOK ==
    /\ tickets \in 0..MaxTicket
    /\ job \in [Ticket -> [key : Key \cup {"none"}, confirmed : BOOLEAN]]
    /\ queue \subseteq 1..tickets
    /\ current \in 0..tickets
    /\ phase \in {"idle", "before", "run", "poll", "after"}
    /\ todo \in Seq(Probe \cup {"gone"})
    /\ result \in Status \cup {"none"}
    /\ aborted \in BOOLEAN
    /\ outcome \in [Ticket -> Status \cup {"none"}]
    /\ facts \in Facts
    /\ settling \subseteq Settles
    /\ disposed \in BOOLEAN
    /\ programs \subseteq 1..tickets
    /\ starts \in [Ticket -> Nat]
    /\ granted \subseteq Offered
    /\ fresh \subseteq Probe

Init ==
    /\ tickets = 0
    /\ job = [t \in Ticket |-> [key |-> "none", confirmed |-> FALSE]]
    /\ queue = {}
    /\ current = NoJob
    /\ phase = "idle"
    /\ todo = <<>>
    /\ result = "none"
    /\ aborted = FALSE
    /\ outcome = [t \in Ticket |-> "none"]
    /\ facts = [runtime |-> FALSE, running |-> "unknown", routed |-> FALSE, journal |-> "unread"]
    /\ settling = {}
    /\ disposed = FALSE
    /\ programs = {}
    /\ starts = [t \in Ticket |-> 0]
    /\ granted = {}
    /\ fresh = {}

-----------------------------------------------------------------------------
(* The queue                                                                *)

\* confirmationOf: what is asked first, on what is known of the launcher.
AsksOnlyAlways(op, running) == op \in AlwaysAsks
Asks(op, running) == op \in AlwaysAsks \/ (op \in AsksIfStarts /\ running # "yes")

Probing(k) == k = "probe.routeStatus"

\* What a job looks at first: runRefresh, and runOperation before it decides.
LooksAtNothing(k, known) == IF Probing(k) THEN <<"status">> ELSE <<"health">>
FirstLook(k, known) ==
    LET path == IF k \in NeedsRuntime /\ ~known.runtime THEN <<"runtime">> ELSE <<>>
    IN  CASE k = "refresh:open" -> OpenProbes
          [] Probing(k)         -> path \o <<"status">>
          [] OTHER              -> path \o FreeProbes

\* pump, when nothing runs: the first of the waiting jobs begins.
Pump(waiting, jobs, known) ==
    /\ result' = "none"
    /\ aborted' = FALSE
    /\ fresh' = {}
    /\ \/ /\ waiting = {}
          /\ queue' = {}
          /\ current' = NoJob
          /\ phase' = "idle"
          /\ todo' = <<>>
       \/ \E t \in waiting :
          /\ \A u \in waiting : t <= u
          /\ queue' = waiting \ {t}
          /\ current' = t
          /\ phase' = "before"
          /\ todo' = FirstLook(jobs[t].key, known)

\* The job that waits or runs for this key already, if there is one.
Existing(key) == {t \in queue \cup ({current} \ {NoJob}) : job[t].key = key}

\* enqueue of a key that waits or runs: its ticket is shared.  Going ahead counts
\* for a job that did not begin.
Join(t, confirmed) ==
    job' = [job EXCEPT ![t].confirmed = @ \/ (confirmed /\ t # current)]

Enqueue(key, confirmed) ==
    \/ /\ ~disposed
       /\ \E t \in Existing(key) : Join(t, confirmed)
       /\ UNCHANGED <<tickets, queue, current, phase, todo, result, aborted, outcome, fresh>>
    \/ /\ disposed \/ Existing(key) = {}
       /\ tickets < MaxTicket
       /\ LET t == tickets + 1
          IN  /\ tickets' = t
              /\ job' = [job EXCEPT ![t] = [key |-> key, confirmed |-> confirmed]]
              /\ IF disposed
                 THEN /\ outcome' = [outcome EXCEPT ![t] = "cancelled"]
                      /\ UNCHANGED <<queue, current, phase, todo, result, aborted, fresh>>
                 ELSE /\ outcome' = outcome
                      /\ IF current = NoJob
                         THEN Pump({t}, job', facts)
                         ELSE /\ queue' = queue \cup {t}
                              /\ UNCHANGED <<current, phase, todo, result, aborted, fresh>>

\* request.  One that has to be asked about first is answered at once: nothing
\* changes.  A confirmed one is the user going ahead in the dialog.
Request(op, confirmed) ==
    /\ confirmed => Asks(op, "no")
    /\ confirmed \/ ~Asks(op, facts.running)
    /\ Enqueue(op, confirmed)
    /\ granted' = granted \cup (IF confirmed THEN {op} ELSE {})
    /\ UNCHANGED <<facts, settling, disposed, programs, starts>>

\* refresh: the status row looks on its timer, the panel when it opens.
Refresh(key) ==
    /\ key \in {"refresh:interval", "refresh:open"}
    /\ Enqueue(key, FALSE)
    /\ UNCHANGED <<facts, settling, disposed, programs, starts, granted>>

\* A timer of settleAfter: they fire in the order of their delays.
SettleFires ==
    \E ms \in settling :
        /\ \A other \in settling : ms <= other
        /\ settling' = settling \ {ms}
        /\ IF disposed
           THEN UNCHANGED <<tickets, job, queue, current, phase, todo, result, aborted, outcome, fresh>>
           ELSE Enqueue("refresh:settle", FALSE)
        /\ UNCHANGED <<facts, disposed, programs, starts, granted>>

\* cancel: out of the queue, or the end of what only reads.
Cancel(t) ==
    /\ \/ /\ t \in queue
          /\ queue' = queue \ {t}
          /\ outcome' = [outcome EXCEPT ![t] = "cancelled"]
          /\ UNCHANGED aborted
       \/ /\ t = current
          /\ job[t].key \in Refreshing \/ IsAbortable(job[t].key)
          /\ aborted' = TRUE
          /\ UNCHANGED <<queue, outcome>>
    /\ UNCHANGED <<tickets, job, current, phase, todo, result, facts, settling,
                   disposed, programs, starts, granted, fresh>>

\* dispose: the window goes, every promise is settled.
Abandoned == {current} \ {NoJob}
AbandonedWaiting == queue \cup ({current} \ {NoJob})
Dispose ==
    /\ ~disposed
    /\ disposed' = TRUE
    /\ settling' = {}
    /\ queue' = {}
    /\ outcome' = [t \in Ticket |-> IF t \in AbandonedWaiting THEN "cancelled" ELSE outcome[t]]
    /\ aborted' = (aborted \/ current # NoJob)
    /\ UNCHANGED <<tickets, job, current, phase, todo, result, facts, programs,
                   starts, granted, fresh>>

-----------------------------------------------------------------------------
(* The job that runs                                                        *)

\* The end of a job: its promise is settled unless it was, and the next begins.
Settle(status) ==
    outcome' = [outcome EXCEPT ![current] = IF @ = "none" THEN status ELSE @]
Finish(status, known) ==
    /\ Settle(status)
    /\ Pump(queue, job, known)

\* What a probe may find out.
Answers(probe) ==
    CASE probe = "runtime" -> {[facts EXCEPT !.runtime = b] : b \in BOOLEAN}
      [] probe = "engine"  -> {[facts EXCEPT !.running = r] : r \in {"yes", "no", "unknown"}}
      [] probe = "route"   -> {[facts EXCEPT !.routed = b] : b \in BOOLEAN}
      [] probe = "status"  -> {[facts EXCEPT !.journal = j] :
                                  j \in {"unread"} \cup (IF facts.runtime THEN {"active", "paused"} ELSE {})}
      [] OTHER             -> {facts}

\* What is looked at next.  The journal is asked again when a refresh that does
\* not ask it sees the route change; nothing is looked at once disposed.
Rest(key, known) ==
    IF disposed
    THEN <<>>
    ELSE Tail(todo) \o
         (IF /\ key \in {"refresh:interval", "refresh:settle"}
             /\ known.routed # facts.routed
             /\ known.runtime
          THEN <<"status">> ELSE <<>>)

\* A refresh that was cancelled looks at nothing more, except at the journal.
Stops(key, rest) == key \in Refreshing /\ aborted /\ rest \notin {<<>>, <<"status">>}

\* checkPreconditions; those on facts that are left out hold or not.
Routed(known) == known.routed \/ known.journal = "active"
Preconditions(op, known) ==
    /\ op \in NeedsRuntime => known.runtime
    /\ op = "engine.startHidden" => known.running # "yes"
    /\ op = "engine.quit" => known.running # "no"
    /\ op = "bridge.connect" => ~Routed(known)
    /\ op = "bridge.pause" => Routed(known)
    /\ op = "models.refresh" => known.routed

\* The program of the operation starts.
Start ==
    /\ phase' = "run"
    /\ todo' = <<>>
    /\ starts' = [starts EXCEPT ![current] = @ + 1]
    /\ programs' = programs \cup {current}
    /\ granted' = granted \ {job[current].key}
    /\ fresh' = {}
    /\ UNCHANGED <<queue, current, result, aborted, outcome>>

\* What is decided once all was looked at: nobody checks again that the job was
\* cancelled, or the window is gone.
DecidesWithoutAsking(op, known) ==
    IF Preconditions(op, known)
    THEN Start
    ELSE Finish("refused", known) /\ UNCHANGED <<programs, starts, granted>>
Decide(op, known) ==
    \/ /\ Finish("refused", known)
       /\ UNCHANGED <<programs, starts, granted>>
    \/ /\ Preconditions(op, known)
       /\ IF ~job[current].confirmed /\ Asks(op, known.running)
          THEN /\ Finish("needs-confirmation", known)
               /\ UNCHANGED <<programs, starts, granted>>
          ELSE Start

\* verify: what connecting and pausing claim is checked; a route that is
\* inconsistent fails as well.
VerifiesJournal(op, known) ==
    IF result = "ok" /\ op \in Bridge
       /\ known.journal # (IF op = "bridge.connect" THEN "active" ELSE "paused")
    THEN {"failed"} ELSE {result}
Verdicts(op, known) ==
    LET connecting == op = "bridge.connect"
    IN  IF result # "ok" \/ op \notin Bridge
        THEN {result}
        ELSE IF /\ known.journal = (IF connecting THEN "active" ELSE "paused")
                /\ known.routed = connecting
             THEN {"ok", "failed"}
             ELSE {"failed"}

\* settleAfter; its timers replace those of an earlier operation.
SettleAfter(op) == settling' = IF op \in Engine THEN Settles ELSE settling

\* A probe answers, or its watchdog does.
ProbeAnswers ==
    /\ phase \in {"before", "after"}
    /\ \E known \in Answers(Head(todo)) :
       LET key  == job[current].key
           rest == Rest(key, known)
       IN  /\ facts' = known
           /\ \/ /\ rest # <<>>
                 /\ ~Stops(key, rest)
                 /\ todo' = rest
                 /\ fresh' = fresh \cup {Head(todo)}
                 /\ UNCHANGED <<queue, current, phase, result, aborted, outcome,
                                settling, programs, starts, granted>>
              \/ /\ Stops(key, rest)
                 /\ Finish("cancelled", known)
                 /\ UNCHANGED <<settling, programs, starts, granted>>
              \/ /\ rest = <<>>
                 /\ phase = "before"
                 /\ key \in Refreshing
                 /\ Finish("ok", known)
                 /\ UNCHANGED <<settling, programs, starts, granted>>
              \/ /\ rest = <<>>
                 /\ phase = "before"
                 /\ Probing(key)
                 /\ \E status \in {"ok", "failed", "timeout", "cancelled"} : Finish(status, known)
                 /\ UNCHANGED <<settling, programs, starts, granted>>
              \/ /\ rest = <<>>
                 /\ phase = "before"
                 /\ key \notin Refreshing
                 /\ ~Probing(key)
                 /\ Decide(key, known)
                 /\ UNCHANGED settling
              \/ /\ rest = <<>>
                 /\ phase = "after"
                 /\ \E status \in Verdicts(key, known) : Finish(status, known)
                 /\ SettleAfter(key)
                 /\ UNCHANGED <<programs, starts, granted>>
    /\ UNCHANGED <<tickets, job, disposed>>

\* What follows the program: what it may have changed is looked at.
LookAfter(op, answer) ==
    IF disposed
    THEN Finish("cancelled", facts) /\ UNCHANGED starts
    ELSE /\ phase' = "after"
         /\ todo' = Reprobe(op)
         /\ result' = answer
         /\ UNCHANGED <<queue, current, aborted, outcome, starts, fresh>>

\* The program of the operation answers, fails, or is out of time.  One that is
\* out of time or was cancelled is told to end, and nobody waits for that.
RunAnswers ==
    LET op == job[current].key
    IN  /\ phase = "run"
        /\ \E answer \in IF aborted /\ TakesSignal(op) THEN {"cancelled"}
                         ELSE {"ok", "failed", "timeout"} :
           /\ programs' = IF answer \in {"ok", "failed"} THEN programs \ {current} ELSE programs
           /\ \/ /\ op = "engine.quit" => answer # "ok"
                 /\ LookAfter(op, answer)
              \/ /\ op = "engine.quit"
                 /\ answer # "timeout"
                 /\ phase' = "poll"
                 /\ todo' = QuitPolls
                 /\ UNCHANGED <<queue, current, result, aborted, outcome, starts, fresh>>
        /\ UNCHANGED <<tickets, job, facts, settling, disposed, granted>>

\* The launcher answers the quit event before it is gone: it is looked for a few
\* times, until it is gone or cannot be looked for.
PollAnswers ==
    /\ phase = "poll"
    /\ \/ LookAfter(job[current].key, "ok")
       \/ LookAfter(job[current].key, "failed")
       \/ /\ Len(todo) > 1
          /\ todo' = Tail(todo)
          /\ UNCHANGED <<queue, current, phase, result, aborted, outcome, starts, fresh>>
    /\ UNCHANGED <<tickets, job, facts, settling, disposed, programs, granted>>

\* A program that was told to end does so, by itself or killed after 2 s.
ProgramEnds(t) ==
    /\ t \in programs
    /\ ~(t = current /\ phase = "run")
    /\ programs' = programs \ {t}
    /\ UNCHANGED <<tickets, job, queue, current, phase, todo, result, aborted, outcome,
                   facts, settling, disposed, starts, granted, fresh>>

Works == ProbeAnswers \/ RunAnswers \/ PollAnswers

Next ==
    \/ \E op \in Offered, confirmed \in BOOLEAN : Request(op, confirmed)
    \/ \E key \in Refreshing : Refresh(key)
    \/ SettleFires
    \/ \E t \in Ticket : Cancel(t)
    \/ Dispose
    \/ Works
    \/ \E t \in Ticket : ProgramEnds(t)

Spec == Init /\ [][Next]_vars

\* Every probe and every program has a deadline and a watchdog: the job that
\* runs goes on.  Users, timers of others and the window are free.
FairSpec == Spec /\ WF_vars(Works)

-----------------------------------------------------------------------------
(* Properties                                                               *)

Live == queue \cup ({current} \ {NoJob})
Starting(t) == starts'[t] > starts[t]
ChangesMachine(k) == k \in Offered \ Reading

\* "An operation that is already waiting or running is not added again": however
\* requests, refreshes, timers and cancellations interleave, no two jobs for the
\* same thing wait or run.
OnePerKey == \A t, u \in Live : job[t].key = job[u].key => t = u

\* No wakeup is lost: while a job waits, another one runs.
NoIdleBacklog == queue # {} => current # NoJob

\* "NOTHING is tried again by itself": the program of a ticket starts once,
\* whether it fails, is out of time, or its route cannot be read back.
RunsOnce == \A t \in Ticket : starts[t] <= 1

\* A user who is told that nothing ran can rely on it: what was refused or has to
\* be confirmed did not start, nor did a change that was cancelled - it is left to
\* finish once it runs, unless the window goes.
ToldNothingRan ==
    \A t \in Ticket :
        \/ outcome[t] \in {"refused", "needs-confirmation"}
        \/ outcome[t] = "cancelled" /\ ChangesMachine(job[t].key) /\ ~disposed
        => starts[t] = 0

\* Only going ahead in the dialog runs what asks first (panelHost run): whenever
\* such a program starts, the user went ahead for it since it last ran - also
\* when the launcher closed while the operation waited in the queue.
Consent ==
    [][\A t \in Ticket :
         Starting(t) /\ Asks(job[t].key, facts'.running) => job[t].key \in granted]_vars

\* "What is decided is decided on what is true now": before a program starts, all
\* three free probes answered since its job began, for as long as the window lives.
DecidedOnFreshFacts ==
    [][\A t \in Ticket :
         Starting(t) /\ ~disposed
             => {"engine", "route", "health"} \subseteq fresh \cup {Head(todo)}]_vars

\* "What an operation claims is checked against what was looked at afterwards":
\* connecting and pausing succeed only when the journal and the config of Codex
\* were both read after the program ended, and both say so.
ClaimsAreVerified ==
    [][\A t \in Ticket :
         /\ outcome[t] = "none"
         /\ outcome'[t] = "ok"
         /\ job[t].key \in Bridge
         => LET connecting == job[t].key = "bridge.connect"
            IN  /\ {"status", "route"} \subseteq fresh \cup {Head(todo)}
                /\ facts'.routed = connecting
                /\ facts'.journal = IF connecting THEN "active" ELSE "paused"]_vars

\* Whoever asked gets an answer: every ticket is settled, by its job, by taking it
\* out of the queue, or by the window going.
EveryTicketSettles ==
    \A t \in Ticket : (t <= tickets) ~> (outcome[t] # "none")

\* The test "disposed: what waits is cancelled, timers are gone, and nothing more
\* starts": no program starts any more.
NothingStartsWhenDisposed == [][disposed => \A t \in Ticket : ~Starting(t)]_vars
=============================================================================
