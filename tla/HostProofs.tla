----------------------------- MODULE HostProofs -----------------------------
(***************************************************************************)
(* The programs that are run on a host: the jobs of the launcher on this   *)
(* one, and the scripts that bring a server to a remote one.               *)
(*                                                                         *)
(* What the queue of the launcher guarantees for every catalogue and any   *)
(* number of jobs: one job per key, no lost wakeup, programs start once    *)
(* and only with consent, and whoever is told that nothing ran can rely    *)
(* on it.                                                                  *)
(*                                                                         *)
(* What the two scripts guarantee for any number of attempts: under the    *)
(* lock one server runs, its token is kept and told to everyone; and what  *)
(* the unpack script leaves behind, and when its folder is whole.          *)
(***************************************************************************)
EXTENDS Launcher, RemoteServer, SequenceTheorems, FiniteSetTheorems, TLAPS

-----------------------------------------------------------------------------
(* The launcher                                                             *)

\* The job that runs is not one that waits, and its phase says that it runs.
OneRuns ==
    /\ current \notin queue
    /\ (phase = "idle") = (current = NoJob)
    /\ disposed => queue = {}

\* What a phase waits for, and what is known when it looks afterwards.
Waits ==
    /\ phase \in {"before", "after", "poll"} => todo # <<>>
    /\ phase \in {"before", "after"} => todo \in Seq(Probe)
    /\ phase = "after" => result \in {"ok", "failed", "timeout", "cancelled"}

\* Those whose program did not start: they wait, look first, or do not exist yet.
Unstarted(t) == t \in queue \/ (t = current /\ phase = "before") \/ t > tickets

NotStartedEarly == \A t \in Ticket : Unstarted(t) => starts[t] = 0

\* A promise is open for as long as its job waits or runs; the window going
\* settles that of the job that runs.
OpenPromises ==
    /\ \A t \in Ticket : t \in queue \/ t > tickets => outcome[t] = "none"
    /\ current # NoJob => outcome[current] = IF disposed THEN "cancelled" ELSE "none"

\* Jobs have keys, and what runs a program is an operation that is no probe.
KeysOfJobs ==
    /\ \A t \in Live : job[t].key \in Key
    /\ phase \in {"run", "poll", "after"} => job[current].key \in Offered

\* Going ahead stays granted until the program starts.
ConfirmedIsGranted ==
    \A t \in Ticket : t \in Live /\ Unstarted(t) /\ job[t].confirmed => job[t].key \in granted

\* Only what reads is cancelled while it runs.
CancelledReads ==
    ~disposed /\ current # NoJob =>
        /\ aborted => job[current].key \in Refreshing \/ IsAbortable(job[current].key)
        /\ phase = "after" /\ result = "cancelled" => IsAbortable(job[current].key)

\* A probe that was asked for runs no program of an operation.
ProbesOnlyLook == phase \in {"run", "poll", "after"} => ~Probing(job[current].key)

IInv ==
    /\ TypeOK
    /\ OneRuns
    /\ Waits
    /\ NotStartedEarly
    /\ OpenPromises
    /\ KeysOfJobs
    /\ ConfirmedIsGranted
    /\ CancelledReads
    /\ ProbesOnlyLook
    /\ OnePerKey
    /\ NoIdleBacklog
    /\ RunsOnce
    /\ ToldNothingRan

-----------------------------------------------------------------------------
(* What the catalogue and the pump give                                     *)

LEMMA KeysDisjoint ==
    /\ Offered \cap Refreshing = {}
    /\ Key = Offered \cup Refreshing
    /\ "none" \notin Key
    /\ \A op \in Refreshing : ~Probing(op)
BY OfferedAssumption
   DEF Catalogue, Bridge, Reading, Engine, Showing, Protocol, Refreshing, Key, Probing

LEMMA FirstLookType ==
    ASSUME NEW k \in Key, NEW known \in Facts
    PROVE  FirstLook(k, known) \in Seq(Probe) /\ FirstLook(k, known) # <<>>
<1>. DEFINE path == IF k \in NeedsRuntime /\ ~known.runtime THEN <<"runtime">> ELSE <<>>
<1>1. /\ <<>> \in Seq(Probe) /\ <<"runtime">> \in Seq(Probe)
      /\ <<"status">> \in Seq(Probe) /\ Len(<<"status">>) = 1
  BY DEF Probe
<1>2. path \in Seq(Probe) /\ Len(path) \in Nat
  BY <1>1
<1>3. FreeProbes \in Seq(Probe) /\ Len(FreeProbes) = 3
  BY DEF FreeProbes, Probe
<1>4. OpenProbes \in Seq(Probe) /\ Len(OpenProbes) = 6
  BY DEF OpenProbes, Probe
<1>5. /\ path \o <<"status">> \in Seq(Probe) /\ Len(path \o <<"status">>) = Len(path) + 1
      /\ path \o FreeProbes \in Seq(Probe) /\ Len(path \o FreeProbes) = Len(path) + 3
  <2>. HIDE DEF path
  <2>. QED
    BY <1>1, <1>2, <1>3, ConcatProperties
<1>6. \A s \in Seq(Probe) : Len(s) > 0 => s # <<>>
  OBVIOUS
<1>7. /\ path \o <<"status">> # <<>>
      /\ path \o FreeProbes # <<>>
      /\ OpenProbes # <<>>
  <2>. HIDE DEF path
  <2>. QED
    BY <1>2, <1>4, <1>5, <1>6
<1>. QED
  <2>1. FirstLook(k, known) \in {OpenProbes, path \o <<"status">>, path \o FreeProbes}
    BY Zenon DEF FirstLook
  <2>. QED
    BY <1>4, <1>5, <1>7, <2>1, Zenon

LEMMA PumpNext ==
    ASSUME NEW waiting, NEW jobs, NEW known \in Facts,
           \A t \in waiting : jobs[t].key \in Key,
           Pump(waiting, jobs, known)
    PROVE  /\ result' = "none" /\ aborted' = FALSE /\ fresh' = {}
           /\ \/ /\ waiting = {} /\ queue' = {} /\ current' = NoJob
                 /\ phase' = "idle" /\ todo' = <<>>
              \/ /\ current' \in waiting /\ queue' = waiting \ {current'}
                 /\ phase' = "before" /\ todo' \in Seq(Probe) /\ todo' # <<>>
<1>1. CASE waiting = {}
  BY <1>1 DEF Pump
<1>2. CASE waiting # {}
  <2>1. PICK t \in waiting : /\ queue' = waiting \ {t} /\ current' = t
                             /\ phase' = "before"
                             /\ todo' = FirstLook(jobs[t].key, known)
    BY <1>2 DEF Pump
  <2>. QED
    BY <2>1, FirstLookType DEF Pump
<1>. QED
  BY <1>1, <1>2

LEMMA AnswersType ==
    ASSUME facts \in Facts, NEW probe, NEW known \in Answers(probe)
    PROVE  known \in Facts
BY DEF Answers, Facts

-----------------------------------------------------------------------------
LEMMA InitIInv == Init => IInv
<1>. SUFFICES ASSUME Init PROVE IInv
  OBVIOUS
<1>1. TypeOK
  <2>1. /\ job \in [Ticket -> [key : Key \cup {"none"}, confirmed : BOOLEAN]]
        /\ outcome \in [Ticket -> Status \cup {"none"}]
        /\ starts \in [Ticket -> Nat]
    BY DEF Init
  <2>2. facts \in Facts
    BY DEF Init, Facts
  <2>3. todo \in Seq(Probe \cup {"gone"})
    BY DEF Init
  <2>4. /\ tickets \in 0..MaxTicket /\ queue \subseteq 1..tickets /\ current \in 0..tickets
        /\ programs \subseteq 1..tickets
    BY OfferedAssumption DEF Init, NoJob
  <2>5. /\ phase \in {"idle", "before", "run", "poll", "after"}
        /\ result \in Status \cup {"none"} /\ aborted \in BOOLEAN
        /\ settling \subseteq Settles /\ disposed \in BOOLEAN
        /\ granted \subseteq Offered /\ fresh \subseteq Probe
    BY DEF Init
  <2>. QED
    BY <2>1, <2>2, <2>3, <2>4, <2>5 DEF TypeOK
<1>2. NotStartedEarly /\ RunsOnce /\ ToldNothingRan /\ OpenPromises
  BY DEF Init, NotStartedEarly, RunsOnce, ToldNothingRan, OpenPromises, NoJob
<1>. QED
  BY <1>1, <1>2
     DEF Init, IInv, OneRuns, Waits, KeysOfJobs, ConfirmedIsGranted, CancelledReads,
         ProbesOnlyLook, OnePerKey, NoIdleBacklog, Live, NoJob

\* Sharing the ticket of a job that waits or runs.
LEMMA JoinIInv ==
    ASSUME IInv, NEW key \in Key, NEW confirmed \in BOOLEAN, confirmed => key \in Offered,
           NEW t \in Existing(key), Join(t, confirmed),
           UNCHANGED <<tickets, queue, current, phase, todo, result, aborted, outcome, fresh>>,
           UNCHANGED <<facts, disposed, programs, starts>>,
           settling' \subseteq Settles,
           granted' = granted \cup (IF confirmed THEN {key} ELSE {})
    PROVE  IInv'
<1>1. /\ t \in Live /\ t \in Ticket /\ job[t].key = key
      /\ job \in [Ticket -> [key : Key \cup {"none"}, confirmed : BOOLEAN]]
  BY OfferedAssumption DEF IInv, TypeOK, Existing, Live, Ticket, NoJob
<1>2. /\ job' \in [Ticket -> [key : Key \cup {"none"}, confirmed : BOOLEAN]]
      /\ \A u \in Ticket : job'[u].key = job[u].key
      /\ \A u \in Ticket : job'[u].confirmed => job[u].confirmed \/ (u = t /\ confirmed)
  BY <1>1 DEF Join
<1>3. Live' = Live /\ Live \subseteq Ticket /\ current \in Ticket \cup {NoJob}
  BY OfferedAssumption DEF Live, IInv, TypeOK, Ticket, NoJob
<1>4. TypeOK'
  BY <1>2 DEF IInv, TypeOK
<1>5. /\ OneRuns' /\ Waits' /\ NotStartedEarly' /\ OpenPromises' /\ NoIdleBacklog' /\ RunsOnce'
  BY DEF IInv, OneRuns, Waits, NotStartedEarly, Unstarted, OpenPromises, NoIdleBacklog, RunsOnce
<1>6. OnePerKey' /\ ToldNothingRan'
  BY <1>2, <1>3 DEF IInv, OnePerKey, ToldNothingRan
<1>7. phase \in {"run", "poll", "after"} => current \in Ticket
  BY <1>3 DEF IInv, OneRuns, TypeOK
<1>8. KeysOfJobs' /\ CancelledReads' /\ ProbesOnlyLook'
  BY <1>2, <1>3, <1>7 DEF IInv, KeysOfJobs, CancelledReads, ProbesOnlyLook
<1>9. ConfirmedIsGranted'
  BY <1>1, <1>2, <1>3 DEF IInv, ConfirmedIsGranted, Unstarted
<1>. QED
  BY <1>4, <1>5, <1>6, <1>8, <1>9 DEF IInv

\* A new ticket: it waits, runs at once, or is settled since the window is gone.
LEMMA AddIInv ==
    ASSUME IInv, NEW key \in Key, NEW confirmed \in BOOLEAN, confirmed => key \in Offered,
           NEW t, t = tickets + 1, tickets < MaxTicket, tickets' = t,
           job' = [job EXCEPT ![t] = [key |-> key, confirmed |-> confirmed]],
           \/ /\ disposed
              /\ outcome' = [outcome EXCEPT ![t] = "cancelled"]
              /\ UNCHANGED <<queue, current, phase, todo, result, aborted, fresh>>
           \/ /\ ~disposed
              /\ Existing(key) = {}
              /\ outcome' = outcome
              /\ IF current = NoJob
                 THEN Pump({t}, job', facts)
                 ELSE /\ queue' = queue \cup {t}
                      /\ UNCHANGED <<current, phase, todo, result, aborted, fresh>>,
           UNCHANGED <<facts, disposed, programs, starts>>,
           settling' \subseteq Settles,
           granted' = granted \cup (IF confirmed THEN {key} ELSE {})
    PROVE  IInv'
<1>1. /\ t \in Ticket /\ t \notin Live /\ t # NoJob /\ t > tickets
      /\ Live \subseteq 1..tickets /\ Live \subseteq Ticket /\ current \in Live \cup {NoJob}
      /\ job \in [Ticket -> [key : Key \cup {"none"}, confirmed : BOOLEAN]]
      /\ outcome \in [Ticket -> Status \cup {"none"}]
      /\ tickets \in Nat /\ MaxTicket \in Nat
  BY OfferedAssumption DEF IInv, TypeOK, Live, Ticket, NoJob
<1>2. /\ job' \in [Ticket -> [key : Key \cup {"none"}, confirmed : BOOLEAN]]
      /\ \A u \in Ticket \ {t} : job'[u] = job[u]
      /\ job'[t].key = key /\ job'[t].confirmed = confirmed
  BY <1>1
<1>3. facts \in Facts
  BY DEF IInv, TypeOK
<1>4. /\ starts[t] = 0 /\ outcome[t] = "none"
      /\ \A u \in Ticket : u > tickets + 1 => u > tickets
  BY <1>1 DEF IInv, NotStartedEarly, Unstarted, OpenPromises
<1>5. CASE disposed
  <2>1. /\ outcome' = [outcome EXCEPT ![t] = "cancelled"]
        /\ UNCHANGED <<queue, current, phase, todo, result, aborted, fresh>>
    BY <1>5
  <2>2. /\ \A u \in Ticket \ {t} : outcome'[u] = outcome[u]
        /\ outcome'[t] = "cancelled" /\ outcome' \in [Ticket -> Status \cup {"none"}]
        /\ Live' = Live
    BY <1>1, <2>1 DEF Status, Live
  <2>3. TypeOK'
    BY <1>1, <1>2, <2>1, <2>2 DEF IInv, TypeOK
  <2>4. OneRuns' /\ Waits' /\ NoIdleBacklog' /\ RunsOnce'
    BY <2>1 DEF IInv, OneRuns, Waits, NoIdleBacklog, RunsOnce
  <2>5. NotStartedEarly' /\ OpenPromises' /\ ToldNothingRan'
    BY <1>1, <1>2, <1>4, <1>5, <2>1, <2>2
       DEF IInv, NotStartedEarly, OpenPromises, ToldNothingRan, Unstarted, Live
  <2>6. phase \in {"run", "poll", "after"} => current \in Live
    BY <1>1 DEF IInv, OneRuns
  <2>7. KeysOfJobs' /\ ConfirmedIsGranted' /\ CancelledReads' /\ ProbesOnlyLook' /\ OnePerKey'
    BY <1>1, <1>2, <1>5, <2>1, <2>2, <2>6
       DEF IInv, KeysOfJobs, ConfirmedIsGranted, CancelledReads, ProbesOnlyLook, OnePerKey,
           Unstarted
  <2>. QED
    BY <2>3, <2>4, <2>5, <2>7 DEF IInv
<1>6. CASE ~disposed
  <2>1. Existing(key) = {} /\ outcome' = outcome
    BY <1>6
  <2>2. \A u \in Live : job[u].key # key
    BY <2>1 DEF Existing, Live
  <2>3. CASE current = NoJob
    <3>0. PICK jobs : jobs = job'
      OBVIOUS
    <3>1. Pump({t}, jobs, facts) /\ queue = {} /\ Live = {} /\ phase = "idle"
      BY <1>6, <2>3, <3>0 DEF IInv, NoIdleBacklog, Live, OneRuns
    <3>2. /\ result' = "none" /\ aborted' = FALSE /\ fresh' = {}
          /\ current' = t /\ queue' = {} /\ phase' = "before"
          /\ todo' \in Seq(Probe) /\ todo' # <<>>
      <4>1. \A u \in {t} : jobs[u].key \in Key
        BY <1>2, <3>0
      <4>2. PICK known \in Facts : known = facts
        BY <1>3
      <4>3. Pump({t}, jobs, known)
        BY <3>1, <4>2
      <4>. QED
        <5>1. /\ result' = "none" /\ aborted' = FALSE /\ fresh' = {}
              /\ \/ {t} = {}
                 \/ /\ current' \in {t} /\ queue' = {t} \ {current'}
                    /\ phase' = "before" /\ todo' \in Seq(Probe) /\ todo' # <<>>
          BY <4>1, <4>3, PumpNext, Zenon
        <5>. QED
          BY <5>1
    <3>3. Live' = {t}
      BY <1>1, <3>2 DEF Live
    <3>4. todo' \in Seq(Probe \cup {"gone"})
      BY <3>2
    <3>5. TypeOK'
      <4>1. /\ tickets' \in 0..MaxTicket /\ queue' \subseteq 1..tickets' /\ current' \in 0..tickets'
            /\ programs' \subseteq 1..tickets'
        BY <1>1, <3>2 DEF IInv, TypeOK
      <4>. QED
        BY <1>2, <2>1, <3>2, <3>4, <4>1 DEF IInv, TypeOK
    <3>6. OneRuns' /\ Waits' /\ NoIdleBacklog' /\ RunsOnce' /\ OnePerKey'
      BY <1>1, <1>6, <3>2, <3>3 DEF IInv, OneRuns, Waits, NoIdleBacklog, RunsOnce, OnePerKey
    <3>7. NotStartedEarly' /\ OpenPromises' /\ ToldNothingRan'
      BY <1>1, <1>2, <1>4, <2>1, <3>1, <3>2
         DEF IInv, NotStartedEarly, OpenPromises, ToldNothingRan, Unstarted, Live
    <3>8. KeysOfJobs' /\ ConfirmedIsGranted' /\ CancelledReads' /\ ProbesOnlyLook'
      BY <1>1, <1>2, <3>2, <3>3
         DEF KeysOfJobs, ConfirmedIsGranted, CancelledReads, ProbesOnlyLook
    <3>. QED
      BY <3>5, <3>6, <3>7, <3>8 DEF IInv
  <2>4. CASE current # NoJob
    <3>1. /\ queue' = queue \cup {t}
          /\ UNCHANGED <<current, phase, todo, result, aborted, fresh>>
      BY <1>6, <2>4
    <3>2. Live' = Live \cup {t}
      BY <3>1 DEF Live
    <3>3. TypeOK'
      BY <1>1, <1>2, <2>1, <3>1 DEF IInv, TypeOK
    <3>4. OneRuns' /\ Waits' /\ NoIdleBacklog' /\ RunsOnce'
      BY <1>1, <1>6, <2>4, <3>1 DEF IInv, OneRuns, Waits, NoIdleBacklog, RunsOnce, Live
    <3>5. OnePerKey'
      BY <1>1, <1>2, <2>2, <3>2 DEF IInv, OnePerKey
    <3>6. NotStartedEarly' /\ OpenPromises' /\ ToldNothingRan'
      BY <1>1, <1>2, <1>4, <2>1, <3>1
         DEF IInv, NotStartedEarly, OpenPromises, ToldNothingRan, Unstarted, Live
    <3>7. current \in Live /\ current # t
      BY <1>1, <2>4
    <3>8. KeysOfJobs' /\ CancelledReads' /\ ProbesOnlyLook'
      BY <1>1, <1>2, <3>1, <3>2, <3>7
         DEF IInv, KeysOfJobs, CancelledReads, ProbesOnlyLook
    <3>9. ConfirmedIsGranted'
      BY <1>1, <1>2, <3>1, <3>2, <3>7 DEF IInv, ConfirmedIsGranted, Unstarted
    <3>. QED
      BY <3>3, <3>4, <3>5, <3>6, <3>8, <3>9 DEF IInv
  <2>. QED
    BY <2>3, <2>4
<1>. QED
  BY <1>5, <1>6

LEMMA EnqueueIInv ==
    ASSUME IInv, NEW key \in Key, NEW confirmed \in BOOLEAN, confirmed => key \in Offered,
           Enqueue(key, confirmed),
           UNCHANGED <<facts, disposed, programs, starts>>,
           settling' \subseteq Settles,
           granted' = granted \cup (IF confirmed THEN {key} ELSE {})
    PROVE  IInv'
<1>1. CASE /\ \E t \in Existing(key) : Join(t, confirmed)
           /\ UNCHANGED <<tickets, queue, current, phase, todo, result, aborted, outcome, fresh>>
  BY <1>1, JoinIInv
<1>2. CASE ~(/\ \E t \in Existing(key) : Join(t, confirmed)
             /\ UNCHANGED <<tickets, queue, current, phase, todo, result, aborted, outcome, fresh>>)
  BY <1>2, AddIInv DEF Enqueue
<1>. QED
  BY <1>1, <1>2

-----------------------------------------------------------------------------
(* The job that runs                                                        *)

\* What is known of the job that runs, wherever it is.
LEMMA CurrentJob ==
    ASSUME IInv, phase # "idle"
    PROVE  /\ current \in Live /\ current \in Ticket /\ current # NoJob
           /\ current \notin queue /\ current <= tickets
           /\ job[current].key \in Key
           /\ Live \subseteq Ticket
           /\ \A t \in Live : job[t].key = job[current].key => t = current
BY OfferedAssumption
   DEF IInv, TypeOK, OneRuns, KeysOfJobs, OnePerKey, Live, Ticket, NoJob

LEMMA FinishIInv ==
    ASSUME IInv, phase # "idle", NEW status \in Status, NEW known \in Facts,
           Finish(status, known), facts' = known,
           UNCHANGED <<tickets, job, disposed, starts, granted>>,
           settling' \subseteq Settles, programs' \subseteq programs,
           status \in {"refused", "needs-confirmation"} => starts[current] = 0,
           status = "cancelled" =>
               disposed \/ ~ChangesMachine(job[current].key) \/ starts[current] = 0
    PROVE  IInv'
<1>1. PICK waiting, jobs : waiting = queue /\ jobs = job
  OBVIOUS
<1>2. \A t \in waiting : jobs[t].key \in Key
  BY <1>1 DEF IInv, KeysOfJobs, Live
<1>3. Pump(waiting, jobs, known)
  BY <1>1 DEF Finish
<1>4. /\ result' = "none" /\ aborted' = FALSE /\ fresh' = {}
      /\ \/ /\ waiting = {} /\ queue' = {} /\ current' = NoJob
            /\ phase' = "idle" /\ todo' = <<>>
         \/ /\ current' \in waiting /\ queue' = waiting \ {current'}
            /\ phase' = "before" /\ todo' \in Seq(Probe) /\ todo' # <<>>
  BY <1>2, <1>3, PumpNext, Zenon
<1>5. /\ result' = "none" /\ aborted' = FALSE /\ fresh' = {}
      /\ \/ /\ queue = {} /\ queue' = {} /\ current' = NoJob
            /\ phase' = "idle" /\ todo' = <<>>
         \/ /\ current' \in queue /\ queue' = queue \ {current'}
            /\ phase' = "before" /\ todo' \in Seq(Probe) /\ todo' # <<>>
  BY <1>1, <1>4
<1>6. /\ outcome \in [Ticket -> Status \cup {"none"}]
      /\ outcome' = [outcome EXCEPT ![current] =
                        IF outcome[current] = "none" THEN status ELSE outcome[current]]
  BY DEF Finish, Settle, IInv, TypeOK
<1>7. /\ current \in Ticket /\ current \notin queue /\ current # NoJob
      /\ queue \subseteq Live /\ queue \subseteq Ticket /\ NoJob \notin queue
      /\ current <= tickets /\ tickets \in Nat
  BY CurrentJob, OfferedAssumption DEF IInv, TypeOK, Live, NoJob
<1>8. /\ outcome' \in [Ticket -> Status \cup {"none"}]
      /\ \A t \in Ticket \ {current} : outcome'[t] = outcome[t]
      /\ outcome'[current] = IF outcome[current] = "none" THEN status ELSE outcome[current]
  BY <1>6, <1>7
<1>9. Live' = queue
  BY <1>5, <1>7 DEF Live
<1>10. TypeOK'
  <2>1. /\ <<>> \in Seq(Probe \cup {"gone"})
        /\ \A s \in Seq(Probe) : s \in Seq(Probe \cup {"gone"})
    OBVIOUS
  <2>2. queue' \subseteq queue /\ current' \in queue \cup {NoJob} /\ phase' \in {"idle", "before"}
    BY <1>5
  <2>3. queue \subseteq 1..tickets
    BY DEF IInv, TypeOK
  <2>4. queue' \subseteq 1..tickets' /\ current' \in 0..tickets'
    BY <1>7, <2>2, <2>3 DEF NoJob
  <2>5. todo' \in Seq(Probe \cup {"gone"})
    BY <1>5, <2>1
  <2>. QED
    BY <1>5, <1>8, <2>2, <2>4, <2>5 DEF IInv, TypeOK
<1>11. OneRuns' /\ Waits' /\ NoIdleBacklog' /\ RunsOnce'
  BY <1>5, <1>7 DEF IInv, OneRuns, Waits, NoIdleBacklog, RunsOnce
<1>12. NotStartedEarly'
  BY <1>5, <1>7 DEF IInv, NotStartedEarly, Unstarted
<1>13. OpenPromises'
  <2>1. \A t \in Ticket : t \in queue \/ t > tickets => outcome'[t] = "none"
    BY <1>7, <1>8, OfferedAssumption DEF IInv, OpenPromises, TypeOK, Ticket
  <2>2. queue' \subseteq queue /\ current' \in queue \cup {NoJob}
    BY <1>5
  <2>. QED
    BY <1>7, <2>1, <2>2 DEF IInv, OneRuns, OpenPromises
<1>14. KeysOfJobs' /\ CancelledReads' /\ ProbesOnlyLook' /\ OnePerKey'
  BY <1>5, <1>7, <1>9
     DEF IInv, KeysOfJobs, CancelledReads, ProbesOnlyLook, OnePerKey
<1>15. ConfirmedIsGranted'
  BY <1>5, <1>7, <1>9 DEF IInv, ConfirmedIsGranted, Unstarted
<1>16. ToldNothingRan'
  BY <1>7, <1>8 DEF IInv, OpenPromises, ToldNothingRan, ChangesMachine
<1>. QED
  BY <1>10, <1>11, <1>12, <1>13, <1>14, <1>15, <1>16 DEF IInv

\* The program of an operation starts.
LEMMA StartIInv ==
    ASSUME IInv, phase = "before", job[current].key \in Offered, ~Probing(job[current].key),
           Start, facts' \in Facts, UNCHANGED <<tickets, job, disposed, settling>>
    PROVE  IInv'
<1>1. /\ current \in Ticket /\ current \notin queue /\ current # NoJob
      /\ current <= tickets /\ current \in Live /\ tickets \in Nat /\ Live \subseteq Ticket
      /\ \A t \in Live : job[t].key = job[current].key => t = current
  BY CurrentJob DEF IInv, TypeOK
<1>2. /\ starts \in [Ticket -> Nat] /\ starts[current] = 0
      /\ starts' = [starts EXCEPT ![current] = @ + 1]
      /\ phase' = "run" /\ todo' = <<>>
      /\ programs' = programs \cup {current}
      /\ granted' = granted \ {job[current].key}
      /\ fresh' = {}
      /\ UNCHANGED <<queue, current, result, aborted, outcome>>
  BY <1>1 DEF IInv, TypeOK, NotStartedEarly, Unstarted, Start
<1>3. /\ starts' \in [Ticket -> Nat] /\ starts'[current] = 1
      /\ \A t \in Ticket \ {current} : starts'[t] = starts[t]
  BY <1>1, <1>2
<1>4. TypeOK'
  <2>1. todo' \in Seq(Probe \cup {"gone"})
    BY <1>2
  <2>2. programs' \subseteq 1..tickets'
    BY <1>1, <1>2 DEF IInv, TypeOK, Ticket
  <2>. QED
    BY <1>2, <1>3, <2>1, <2>2 DEF IInv, TypeOK
<1>5. OneRuns' /\ Waits' /\ NoIdleBacklog' /\ OnePerKey' /\ OpenPromises'
  BY <1>1, <1>2
     DEF IInv, OneRuns, Waits, NoIdleBacklog, OnePerKey, OpenPromises, Live
<1>6. NotStartedEarly' /\ RunsOnce'
  BY <1>1, <1>2, <1>3 DEF IInv, NotStartedEarly, RunsOnce, Unstarted
<1>7. KeysOfJobs' /\ CancelledReads' /\ ProbesOnlyLook'
  BY <1>1, <1>2 DEF IInv, KeysOfJobs, CancelledReads, ProbesOnlyLook, Live
<1>8. ConfirmedIsGranted'
  BY <1>1, <1>2 DEF IInv, ConfirmedIsGranted, Unstarted, Live
<1>9. ToldNothingRan'
  BY <1>1, <1>2, <1>3 DEF IInv, OpenPromises, ToldNothingRan
<1>. QED
  BY <1>4, <1>5, <1>6, <1>7, <1>8, <1>9 DEF IInv

LEMMA RestType ==
    ASSUME IInv, phase \in {"before", "after"}, NEW known \in Facts
    PROVE  Rest(job[current].key, known) \in Seq(Probe)
<1>1. Tail(todo) \in Seq(Probe)
  BY DEF IInv, Waits
<1>2. /\ <<>> \in Seq(Probe) /\ <<"status">> \in Seq(Probe)
  BY DEF Probe
<1>. QED
  BY <1>1, <1>2, ConcatProperties DEF Rest

LEMMA ReprobeType ==
    ASSUME NEW op
    PROVE  Reprobe(op) \in Seq(Probe) /\ Reprobe(op) # <<>>
<1>1. /\ FreeProbes \in Seq(Probe) /\ FreeProbes # <<>>
      /\ <<"subagents">> \in Seq(Probe) /\ <<"subagents">> # <<>>
      /\ <<"health">> \in Seq(Probe) /\ <<"health">> # <<>>
  BY DEF Probe, FreeProbes
<1>2. <<"status", "route", "health">> \in Seq(Probe) /\ <<"status", "route", "health">> # <<>>
  BY DEF Probe
<1>3. Reprobe(op) \in {<<"status", "route", "health">>, FreeProbes, <<"subagents">>, <<"health">>}
  BY Zenon DEF Reprobe
<1>. QED
  BY <1>1, <1>2, <1>3, Zenon

\* Between two probes of a job.
LEMMA LooksOnIInv ==
    ASSUME IInv, phase \in {"before", "after"}, todo' \in Seq(Probe), todo' # <<>>,
           fresh' = fresh \cup {Head(todo)}, facts' \in Facts,
           UNCHANGED <<tickets, job, queue, current, phase, result, aborted, outcome,
                       settling, disposed, programs, starts, granted>>
    PROVE  IInv'
<1>1. Head(todo) \in Probe
  BY DEF IInv, Waits
<1>2. todo' \in Seq(Probe \cup {"gone"})
  OBVIOUS
<1>3. TypeOK'
  BY <1>1, <1>2 DEF IInv, TypeOK
<1>. QED
  BY <1>3
     DEF IInv, OneRuns, Waits, NotStartedEarly, Unstarted, OpenPromises, KeysOfJobs, Live,
         ConfirmedIsGranted, CancelledReads, ProbesOnlyLook, OnePerKey, NoIdleBacklog,
         RunsOnce, ToldNothingRan

LEMMA ProbeAnswersIInv == IInv /\ ProbeAnswers => IInv'
<1>. SUFFICES ASSUME IInv, ProbeAnswers PROVE IInv'
  OBVIOUS
<1>. DEFINE key == job[current].key
<1>1. phase \in {"before", "after"} /\ phase # "idle" /\ facts \in Facts
  BY DEF ProbeAnswers, IInv, TypeOK
<1>2. PICK known \in Answers(Head(todo)) :
      LET rest == Rest(key, known)
      IN  /\ facts' = known
          /\ \/ /\ rest # <<>>
                /\ todo' = rest
                /\ fresh' = fresh \cup {Head(todo)}
                /\ UNCHANGED <<queue, current, phase, result, aborted, outcome,
                               settling, programs, starts, granted>>
             \/ /\ Stops(key, rest)
                /\ Finish("cancelled", known)
                /\ UNCHANGED <<settling, programs, starts, granted>>
             \/ /\ Finish("ok", known)
                /\ UNCHANGED <<settling, programs, starts, granted>>
             \/ /\ phase = "before"
                /\ \E status \in {"ok", "failed", "timeout", "cancelled"} : Finish(status, known)
                /\ UNCHANGED <<settling, programs, starts, granted>>
             \/ /\ phase = "before"
                /\ key \notin Refreshing
                /\ ~Probing(key)
                /\ Decide(key, known)
                /\ UNCHANGED settling
             \/ /\ phase = "after"
                /\ \E status \in Verdicts(key, known) : Finish(status, known)
                /\ SettleAfter(key)
                /\ UNCHANGED <<programs, starts, granted>>
  BY DEF ProbeAnswers
<1>3. UNCHANGED <<tickets, job, disposed>>
  BY DEF ProbeAnswers
<1>4. known \in Facts
  BY <1>1, AnswersType
<1>5. /\ current \in Ticket /\ key \in Key
      /\ {"ok", "failed", "timeout", "cancelled", "refused", "needs-confirmation"} = Status
      /\ settling \subseteq Settles
      /\ phase = "before" => starts[current] = 0
  BY <1>1, CurrentJob DEF IInv, TypeOK, Status, NotStartedEarly, Unstarted
<1>6. CASE /\ Rest(key, known) # <<>>
           /\ todo' = Rest(key, known)
           /\ fresh' = fresh \cup {Head(todo)}
           /\ UNCHANGED <<queue, current, phase, result, aborted, outcome,
                          settling, programs, starts, granted>>
  BY <1>1, <1>2, <1>3, <1>4, <1>6, RestType, LooksOnIInv
<1>7. CASE /\ Stops(key, Rest(key, known))
           /\ Finish("cancelled", known)
           /\ UNCHANGED <<settling, programs, starts, granted>>
  <2>1. ~ChangesMachine(key)
    BY <1>7, KeysDisjoint DEF Stops, ChangesMachine
  <2>. QED
    BY <1>1, <1>2, <1>3, <1>4, <1>5, <1>7, <2>1, FinishIInv
<1>8. CASE /\ Finish("ok", known)
           /\ UNCHANGED <<settling, programs, starts, granted>>
  BY <1>1, <1>2, <1>3, <1>4, <1>5, <1>8, FinishIInv
<1>9. CASE /\ phase = "before"
           /\ \E status \in {"ok", "failed", "timeout", "cancelled"} : Finish(status, known)
           /\ UNCHANGED <<settling, programs, starts, granted>>
  <2>1. PICK status \in {"ok", "failed", "timeout", "cancelled"} : Finish(status, known)
    BY <1>9
  <2>2. status \in Status
    BY DEF Status
  <2>. QED
    BY <1>1, <1>2, <1>3, <1>4, <1>5, <1>9, <2>1, <2>2, FinishIInv
<1>10. CASE /\ phase = "before"
            /\ key \notin Refreshing
            /\ ~Probing(key)
            /\ Decide(key, known)
            /\ UNCHANGED settling
  <2>1. CASE Start
    <3>1. key \in Offered
      BY <1>5, <1>10, KeysDisjoint
    <3>. QED
      BY <1>2, <1>3, <1>4, <1>10, <2>1, <3>1, StartIInv
  <2>2. CASE ~Start
    <3>1. PICK status \in {"refused", "needs-confirmation"} :
            Finish(status, known) /\ UNCHANGED <<programs, starts, granted>>
      BY <1>10, <2>2 DEF Decide
    <3>2. status \in Status
      BY DEF Status
    <3>. QED
      BY <1>1, <1>2, <1>3, <1>4, <1>5, <1>10, <3>1, <3>2, FinishIInv
  <2>. QED
    BY <2>1, <2>2
<1>11. CASE /\ phase = "after"
            /\ \E status \in Verdicts(key, known) : Finish(status, known)
            /\ SettleAfter(key)
            /\ UNCHANGED <<programs, starts, granted>>
  <2>1. PICK status \in Verdicts(key, known) : Finish(status, known)
    BY <1>11
  <2>2. result \in {"ok", "failed", "timeout", "cancelled"}
    BY <1>11 DEF IInv, Waits
  <2>3. status \in {"ok", "failed", "timeout", "cancelled"}
        /\ (status = "cancelled" => result = "cancelled")
    BY <2>1, <2>2 DEF Verdicts
  <2>4. status = "cancelled" => disposed \/ ~ChangesMachine(key)
    BY <1>1, <1>11, <2>3, CurrentJob
       DEF IInv, CancelledReads, ProbesOnlyLook, Probing, IsAbortable, ChangesMachine
  <2>5. status \in Status /\ settling' \subseteq Settles /\ programs' \subseteq programs
    BY <1>5, <1>11, <2>3 DEF Status, SettleAfter
  <2>. QED
    BY <1>1, <1>2, <1>3, <1>4, <1>11, <2>1, <2>3, <2>4, <2>5, FinishIInv
<1>. QED
  BY <1>2, <1>6, <1>7, <1>8, <1>9, <1>10, <1>11

\* What follows the program of an operation.
LEMMA LookAfterIInv ==
    ASSUME IInv, phase \in {"run", "poll"},
           NEW answer \in {"ok", "failed", "timeout", "cancelled"},
           answer = "cancelled" => aborted,
           LookAfter(job[current].key, answer),
           UNCHANGED <<tickets, job, facts, settling, disposed, granted>>,
           programs' \subseteq programs
    PROVE  IInv'
<1>1. CASE disposed
  <2>1. PICK known \in Facts : known = facts
    BY DEF IInv, TypeOK
  <2>2. Finish("cancelled", known) /\ UNCHANGED starts
    BY <1>1, <2>1 DEF LookAfter
  <2>3. "cancelled" \in Status /\ settling' \subseteq Settles
    BY DEF Status, IInv, TypeOK
  <2>. QED
    BY <1>1, <2>1, <2>2, <2>3, FinishIInv
<1>2. CASE ~disposed
  <2>1. /\ phase' = "after" /\ result' = answer
        /\ todo' \in Seq(Probe) /\ todo' # <<>>
        /\ UNCHANGED <<queue, current, aborted, outcome, starts, fresh>>
    BY <1>2, ReprobeType DEF LookAfter
  <2>2. todo' \in Seq(Probe \cup {"gone"})
    BY <2>1
  <2>3. TypeOK'
    BY <2>1, <2>2 DEF IInv, TypeOK, Status
  <2>4. OneRuns' /\ Waits' /\ OpenPromises' /\ KeysOfJobs' /\ ProbesOnlyLook'
    BY <2>1 DEF IInv, OneRuns, Waits, OpenPromises, KeysOfJobs, ProbesOnlyLook, Live
  <2>5. NotStartedEarly' /\ ConfirmedIsGranted'
    BY <2>1 DEF IInv, NotStartedEarly, ConfirmedIsGranted, Unstarted, Live
  <2>6. CancelledReads'
    <3>1. job[current].key \notin Refreshing
      BY KeysDisjoint DEF IInv, KeysOfJobs
    <3>. QED
      BY <2>1, <3>1, CurrentJob DEF IInv, CancelledReads
  <2>7. OnePerKey' /\ NoIdleBacklog' /\ RunsOnce' /\ ToldNothingRan'
    BY <2>1 DEF IInv, OnePerKey, NoIdleBacklog, RunsOnce, ToldNothingRan, Live
  <2>. QED
    BY <2>3, <2>4, <2>5, <2>6, <2>7 DEF IInv
<1>. QED
  BY <1>1, <1>2

\* The steps that leave the queue and the promises alone: polls and programs.
LEMMA PollsIInv ==
    ASSUME IInv, phase \in {"run", "poll"}, phase' = "poll",
           todo' \in Seq({"gone"} \cup Probe), todo' # <<>>, programs' \subseteq programs,
           UNCHANGED <<tickets, job, queue, current, result, aborted, outcome, facts,
                       settling, disposed, starts, granted, fresh>>
    PROVE  IInv'
<1>1. TypeOK'
  <2>1. {"gone"} \cup Probe = Probe \cup {"gone"}
    OBVIOUS
  <2>2. todo' \in Seq(Probe \cup {"gone"})
    BY <2>1, Zenon
  <2>. QED
    BY <2>2 DEF IInv, TypeOK
<1>. QED
  BY <1>1
     DEF IInv, OneRuns, Waits, NotStartedEarly, Unstarted, OpenPromises, KeysOfJobs, Live,
         ConfirmedIsGranted, CancelledReads, ProbesOnlyLook, OnePerKey, NoIdleBacklog,
         RunsOnce, ToldNothingRan

LEMMA RunAnswersIInv == IInv /\ RunAnswers => IInv'
<1>. SUFFICES ASSUME IInv, RunAnswers PROVE IInv'
  OBVIOUS
<1>1. PICK answer \in IF aborted /\ TakesSignal(job[current].key) THEN {"cancelled"}
                      ELSE {"ok", "failed", "timeout"} :
         /\ programs' \subseteq programs
         /\ \/ LookAfter(job[current].key, answer)
            \/ /\ phase' = "poll"
               /\ todo' = QuitPolls
               /\ UNCHANGED <<queue, current, result, aborted, outcome, starts, fresh>>
  BY DEF RunAnswers
<1>2. phase = "run" /\ UNCHANGED <<tickets, job, facts, settling, disposed, granted>>
  BY DEF RunAnswers
<1>3. /\ answer \in {"ok", "failed", "timeout", "cancelled"}
      /\ answer = "cancelled" => aborted
  BY <1>1
<1>4. CASE LookAfter(job[current].key, answer)
  BY <1>1, <1>2, <1>3, <1>4, LookAfterIInv
<1>5. CASE /\ phase' = "poll"
           /\ todo' = QuitPolls
           /\ UNCHANGED <<queue, current, result, aborted, outcome, starts, fresh>>
  <2>1. QuitPolls \in Seq({"gone"} \cup Probe) /\ QuitPolls # <<>>
    BY DEF QuitPolls
  <2>. QED
    BY <1>1, <1>2, <1>5, <2>1, PollsIInv
<1>. QED
  BY <1>1, <1>4, <1>5

LEMMA PollAnswersIInv == IInv /\ PollAnswers => IInv'
<1>. SUFFICES ASSUME IInv, PollAnswers PROVE IInv'
  OBVIOUS
<1>1. phase = "poll" /\ UNCHANGED <<tickets, job, facts, settling, disposed, programs, granted>>
  BY DEF PollAnswers
<1>2. CASE \E answer \in {"ok", "failed"} : LookAfter(job[current].key, answer)
  BY <1>1, <1>2, LookAfterIInv
<1>3. CASE /\ Len(todo) > 1
           /\ todo' = Tail(todo)
           /\ UNCHANGED <<queue, current, phase, result, aborted, outcome, starts, fresh>>
  <2>1. todo \in Seq(Probe \cup {"gone"})
    BY DEF IInv, TypeOK
  <2>2. /\ Tail(todo) \in Seq(Probe \cup {"gone"}) /\ Len(Tail(todo)) > 0
    BY <1>3, <2>1
  <2>3. Tail(todo) # <<>>
    <3>1. \A s \in Seq(Probe \cup {"gone"}) : Len(s) > 0 => s # <<>>
      OBVIOUS
    <3>. QED
      BY <2>2, <3>1
  <2>4. {"gone"} \cup Probe = Probe \cup {"gone"}
    OBVIOUS
  <2>5. todo' \in Seq({"gone"} \cup Probe) /\ todo' # <<>>
    BY <1>3, <2>2, <2>3, <2>4, Zenon
  <2>. QED
    BY <1>1, <1>3, <2>5, PollsIInv
<1>. QED
  BY <1>2, <1>3 DEF PollAnswers

LEMMA ProgramEndsIInv ==
    ASSUME IInv, NEW t \in Ticket, ProgramEnds(t)
    PROVE  IInv'
BY DEF ProgramEnds, IInv, TypeOK, OneRuns, Waits, NotStartedEarly, Unstarted, OpenPromises,
       KeysOfJobs, Live, ConfirmedIsGranted, CancelledReads, ProbesOnlyLook, OnePerKey,
       NoIdleBacklog, RunsOnce, ToldNothingRan

LEMMA CancelIInv ==
    ASSUME IInv, NEW t \in Ticket, Cancel(t)
    PROVE  IInv'
<1>1. UNCHANGED <<tickets, job, current, phase, todo, result, facts, settling,
                  disposed, programs, starts, granted, fresh>>
  BY DEF Cancel
<1>2. CASE /\ t \in queue
           /\ queue' = queue \ {t}
           /\ outcome' = [outcome EXCEPT ![t] = "cancelled"]
           /\ UNCHANGED aborted
  <2>1. /\ outcome' \in [Ticket -> Status \cup {"none"}]
        /\ outcome'[t] = "cancelled"
        /\ \A u \in Ticket \ {t} : outcome'[u] = outcome[u]
    BY <1>2 DEF IInv, TypeOK, Status
  <2>2. t # current /\ t <= tickets /\ starts[t] = 0 /\ Live' \subseteq Live
    BY <1>1, <1>2 DEF IInv, TypeOK, OneRuns, NotStartedEarly, Unstarted, Live
  <2>3. TypeOK'
    BY <1>1, <1>2, <2>1 DEF IInv, TypeOK
  <2>4. OneRuns' /\ Waits' /\ NoIdleBacklog' /\ RunsOnce' /\ OnePerKey' /\ NotStartedEarly'
    BY <1>1, <1>2, <2>2
       DEF IInv, OneRuns, Waits, NoIdleBacklog, RunsOnce, OnePerKey, NotStartedEarly, Unstarted
  <2>5. OpenPromises'
    <3>1. current # NoJob => current \in Ticket
      BY CurrentJob DEF IInv, OneRuns
    <3>. QED
      BY <1>1, <1>2, <2>1, <2>2, <3>1, OfferedAssumption
         DEF IInv, OpenPromises, TypeOK, Ticket
  <2>6. KeysOfJobs' /\ ConfirmedIsGranted' /\ CancelledReads' /\ ProbesOnlyLook'
    BY <1>1, <1>2, <2>2
       DEF IInv, KeysOfJobs, ConfirmedIsGranted, CancelledReads, ProbesOnlyLook, Unstarted
  <2>7. ToldNothingRan'
    BY <1>1, <2>1, <2>2 DEF IInv, ToldNothingRan
  <2>. QED
    BY <2>3, <2>4, <2>5, <2>6, <2>7 DEF IInv
<1>3. CASE /\ t = current
           /\ job[t].key \in Refreshing \/ IsAbortable(job[t].key)
           /\ aborted' = TRUE
           /\ UNCHANGED <<queue, outcome>>
  BY <1>1, <1>3
     DEF IInv, TypeOK, OneRuns, Waits, NotStartedEarly, Unstarted, OpenPromises, KeysOfJobs,
         Live, ConfirmedIsGranted, CancelledReads, ProbesOnlyLook, OnePerKey, NoIdleBacklog,
         RunsOnce, ToldNothingRan
<1>. QED
  BY <1>2, <1>3 DEF Cancel

LEMMA DisposeIInv == IInv /\ Dispose => IInv'
<1>. SUFFICES ASSUME IInv, Dispose PROVE IInv'
  OBVIOUS
<1>1. /\ disposed' = TRUE /\ settling' = {} /\ queue' = {}
      /\ aborted' = (aborted \/ current # NoJob)
      /\ UNCHANGED <<tickets, job, current, phase, todo, result, facts, programs,
                     starts, granted, fresh>>
      /\ \A t \in Ticket : outcome'[t] = IF t \in Live THEN "cancelled" ELSE outcome[t]
      /\ outcome' \in [Ticket -> Status \cup {"none"}]
  BY DEF Dispose, AbandonedWaiting, Live, IInv, TypeOK, Status
<1>2. Live' \subseteq Live /\ (current # NoJob => current \in Live /\ current \in Ticket)
  BY <1>1, CurrentJob DEF Live, IInv, OneRuns
<1>3. TypeOK'
  BY <1>1 DEF IInv, TypeOK
<1>4. OneRuns' /\ Waits' /\ NoIdleBacklog' /\ RunsOnce' /\ NotStartedEarly'
  BY <1>1 DEF IInv, OneRuns, Waits, NoIdleBacklog, RunsOnce, NotStartedEarly, Unstarted
<1>5. OpenPromises'
  <2>1. \A t \in Ticket : t > tickets => t \notin Live
    BY OfferedAssumption DEF IInv, TypeOK, Live, Ticket
  <2>. QED
    BY <1>1, <1>2, <2>1 DEF IInv, OpenPromises
<1>6. /\ KeysOfJobs' /\ ConfirmedIsGranted' /\ CancelledReads' /\ ProbesOnlyLook'
      /\ OnePerKey'
  BY <1>1, <1>2
     DEF IInv, KeysOfJobs, ConfirmedIsGranted, CancelledReads, ProbesOnlyLook, OnePerKey,
         Unstarted
<1>7. ToldNothingRan'
  BY <1>1 DEF IInv, ToldNothingRan
<1>. QED
  BY <1>3, <1>4, <1>5, <1>6, <1>7 DEF IInv

-----------------------------------------------------------------------------
LEMMA NextIInv == IInv /\ [Next]_vars => IInv'
<1>. SUFFICES ASSUME IInv, [Next]_vars PROVE IInv'
  OBVIOUS
<1>0. /\ Offered \subseteq Key /\ Refreshing \subseteq Key
      /\ settling \subseteq Settles
      /\ granted \cup (IF FALSE THEN {"none"} ELSE {}) = granted
  BY DEF Key, IInv, TypeOK
<1>1. ASSUME NEW op \in Offered, NEW confirmed \in BOOLEAN, Request(op, confirmed)
      PROVE  IInv'
  BY <1>0, <1>1, EnqueueIInv DEF Request
<1>2. ASSUME NEW key \in Refreshing, Refresh(key)
      PROVE  IInv'
  BY <1>0, <1>2, EnqueueIInv DEF Refresh
<1>3. CASE SettleFires
  <2>1. settling' \subseteq Settles /\ UNCHANGED <<facts, disposed, programs, starts, granted>>
    BY <1>0, <1>3 DEF SettleFires
  <2>2. CASE Enqueue("refresh:settle", FALSE)
    BY <1>0, <2>1, <2>2, EnqueueIInv DEF Refreshing
  <2>3. CASE UNCHANGED <<tickets, job, queue, current, phase, todo, result, aborted, outcome, fresh>>
    BY <2>1, <2>3
       DEF IInv, TypeOK, OneRuns, Waits, NotStartedEarly, Unstarted, OpenPromises, KeysOfJobs,
           Live, ConfirmedIsGranted, CancelledReads, ProbesOnlyLook, OnePerKey,
           NoIdleBacklog, RunsOnce, ToldNothingRan
  <2>. QED
    BY <1>3, <2>2, <2>3 DEF SettleFires
<1>4. ASSUME NEW t \in Ticket, Cancel(t) \/ ProgramEnds(t)
      PROVE  IInv'
  BY <1>4, CancelIInv, ProgramEndsIInv
<1>5. CASE Dispose \/ Works
  BY <1>5, DisposeIInv, ProbeAnswersIInv, RunAnswersIInv, PollAnswersIInv DEF Works
<1>6. CASE UNCHANGED vars
  BY <1>6
     DEF vars, IInv, TypeOK, OneRuns, Waits, NotStartedEarly, Unstarted, OpenPromises,
         KeysOfJobs, Live, ConfirmedIsGranted, CancelledReads, ProbesOnlyLook, OnePerKey,
         NoIdleBacklog, RunsOnce, ToldNothingRan
<1>. QED
  BY <1>1, <1>2, <1>3, <1>4, <1>5, <1>6 DEF Next

LEMMA AlwaysIInv == Spec => []IInv
BY InitIInv, NextIInv, PTL DEF Spec

-----------------------------------------------------------------------------
(* The theorems                                                             *)

\* The state of the controller is well typed.
THEOREM TypeCorrect == Spec => []TypeOK
BY AlwaysIInv, PTL DEF IInv

\* "An operation that is already waiting or running is not added again", for any
\* number of requests, refreshes and timers: no two jobs for the same thing.
THEOREM OneJobPerKey == Spec => []OnePerKey
BY AlwaysIInv, PTL DEF IInv

\* No job waits while nothing runs.
THEOREM NoLostWakeup == Spec => []NoIdleBacklog
BY AlwaysIInv, PTL DEF IInv

\* "NOTHING is tried again by itself": a ticket starts its program once.
THEOREM NothingTriedAgain == Spec => []RunsOnce
BY AlwaysIInv, PTL DEF IInv

\* Who is told that nothing ran can rely on it.
THEOREM TruthfulOutcomes == Spec => []ToldNothingRan
BY AlwaysIInv, PTL DEF IInv

\* Only going ahead in the dialog runs what asks first, each time anew.
THEOREM ConsentFirst == Spec => Consent
<1>. DEFINE Asked ==
       \A t \in Ticket :
         Starting(t) /\ Asks(job[t].key, facts'.running) => job[t].key \in granted
<1>1. IInv /\ [Next]_vars => [Asked]_vars
  <2>. SUFFICES ASSUME IInv, Next, NEW t \in Ticket, Starting(t),
                       Asks(job[t].key, facts'.running)
                PROVE  job[t].key \in granted
    BY DEF Starting
  <2>0. starts[t] \in Nat /\ starts'[t] # starts[t]
    BY DEF Starting, IInv, TypeOK
  <2>1. CASE ProbeAnswers
    <3>1. PICK known \in Answers(Head(todo)) :
            facts' = known /\ phase = "before" /\ Decide(job[current].key, known)
      BY <2>0, <2>1 DEF ProbeAnswers
    <3>2. /\ Start
          /\ job[current].confirmed \/ ~Asks(job[current].key, known.running)
      BY <2>0, <3>1 DEF Decide
    <3>3. t = current
      BY <2>0, <3>2 DEF Start, IInv, TypeOK
    <3>. QED
      BY <3>1, <3>2, <3>3, CurrentJob DEF IInv, ConfirmedIsGranted, Unstarted
  <2>2. CASE RunAnswers \/ PollAnswers
    BY <2>0, <2>2 DEF RunAnswers, PollAnswers, LookAfter
  <2>3. CASE ~ProbeAnswers /\ ~RunAnswers /\ ~PollAnswers
    BY <2>0, <2>3 DEF Next, Works, Request, Refresh, SettleFires, Cancel, Dispose, ProgramEnds
  <2>. QED
    BY <2>1, <2>2, <2>3
<1>. QED
  BY <1>1, AlwaysIInv, PTL DEF Spec, Consent

-----------------------------------------------------------------------------
(* What is decided and claimed is decided and claimed on fresh facts        *)

Elements(s) == {s[i] : i \in 1..Len(s)}

\* What has to be looked at was looked at, or still will be.
LooksAtAll ==
    ~disposed =>
        /\ phase = "before" /\ job[current].key \notin Refreshing /\ ~Probing(job[current].key)
             => {"engine", "route", "health"} \subseteq fresh \cup Elements(todo)
        /\ phase = "after" /\ job[current].key \in Bridge
             => {"status", "route"} \subseteq fresh \cup Elements(todo)

LEMMA HeadAndTail ==
    ASSUME NEW S, NEW s \in Seq(S), s # <<>>
    PROVE  Elements(s) = {Head(s)} \cup Elements(Tail(s))
<1>1. /\ Len(s) \in Nat /\ Len(s) > 0 /\ Head(s) = s[1]
      /\ Len(Tail(s)) = Len(s) - 1
      /\ \A i \in 1..Len(s) - 1 : Tail(s)[i] = s[i + 1]
  OBVIOUS
<1>2. \A i \in 1..Len(s) : i = 1 \/ (i - 1 \in 1..Len(s) - 1 /\ s[i] = Tail(s)[i - 1])
  BY <1>1
<1>3. \A i \in 1..Len(s) - 1 : i + 1 \in 1..Len(s) /\ i \in 1..Len(Tail(s)) /\ Tail(s)[i] = s[i + 1]
  BY <1>1
<1>4. 1 \in 1..Len(s) /\ Len(Tail(s)) = Len(s) - 1
  BY <1>1
<1>5. \A x : x \in Elements(s) => x = Head(s) \/ x \in Elements(Tail(s))
  BY <1>1, <1>2, <1>4 DEF Elements
<1>6. \A x : x = Head(s) \/ x \in Elements(Tail(s)) => x \in Elements(s)
  BY <1>1, <1>3, <1>4 DEF Elements
<1>. QED
  BY <1>5, <1>6

LEMMA ElementsOfConcat ==
    ASSUME NEW S, NEW r \in Seq(S), NEW s \in Seq(S)
    PROVE  Elements(r) \cup Elements(s) \subseteq Elements(r \o s)
<1>1. /\ Len(r) \in Nat /\ Len(s) \in Nat /\ Len(r \o s) = Len(r) + Len(s)
      /\ \A i \in 1..Len(r) + Len(s) :
            (r \o s)[i] = IF i <= Len(r) THEN r[i] ELSE s[i - Len(r)]
  BY ConcatProperties
<1>2. \A i \in 1..Len(r) : i \in 1..Len(r \o s) /\ (r \o s)[i] = r[i]
  BY <1>1
<1>3. \A i \in 1..Len(s) : Len(r) + i \in 1..Len(r \o s) /\ (r \o s)[Len(r) + i] = s[i]
  BY <1>1
<1>. QED
  BY <1>2, <1>3 DEF Elements

LEMMA FirstLookLooks ==
    ASSUME NEW k, k \notin Refreshing, ~Probing(k), NEW known \in Facts
    PROVE  {"engine", "route", "health"} \subseteq Elements(FirstLook(k, known))
<1>. DEFINE path == IF k \in NeedsRuntime /\ ~known.runtime THEN <<"runtime">> ELSE <<>>
<1>1. FirstLook(k, known) = path \o FreeProbes
  BY DEF FirstLook, Refreshing
<1>2. path \in Seq(Probe)
  <2>1. <<>> \in Seq(Probe) /\ <<"runtime">> \in Seq(Probe)
    BY DEF Probe
  <2>. QED
    BY <2>1
<1>3. FreeProbes \in Seq(Probe)
  BY DEF FreeProbes, Probe
<1>4. {"engine", "route", "health"} \subseteq Elements(FreeProbes)
  BY DEF FreeProbes, Elements
<1>. QED
  <2>. HIDE DEF path
  <2>. QED
    BY <1>1, <1>2, <1>3, <1>4, ElementsOfConcat

LEMMA RestKeeps ==
    ASSUME IInv, ~disposed, phase \in {"before", "after"}, NEW known \in Facts
    PROVE  Elements(todo) \subseteq {Head(todo)} \cup Elements(Rest(job[current].key, known))
<1>1. Tail(todo) \in Seq(Probe) /\ todo \in Seq(Probe) /\ todo # <<>>
  BY DEF IInv, Waits
<1>2. <<>> \in Seq(Probe) /\ <<"status">> \in Seq(Probe)
  BY DEF Probe
<1>3. Elements(Tail(todo)) \subseteq Elements(Rest(job[current].key, known))
  BY <1>1, <1>2, ElementsOfConcat DEF Rest
<1>. QED
  BY <1>1, <1>3, HeadAndTail

\* A job that begins looks at all it has to look at.
LEMMA PumpLooks ==
    ASSUME NEW waiting, NEW jobs, NEW known \in Facts, job' = jobs,
           Pump(waiting, jobs, known)
    PROVE  LooksAtAll'
<1>1. CASE phase' = "idle"
  BY <1>1 DEF LooksAtAll
<1>2. CASE phase' # "idle"
  <2>1. PICK t \in waiting : /\ current' = t /\ phase' = "before"
                             /\ todo' = FirstLook(jobs[t].key, known)
    BY <1>2 DEF Pump
  <2>. QED
    BY <2>1, FirstLookLooks DEF LooksAtAll
<1>. QED
  BY <1>1, <1>2

LEMMA EnqueueLooks ==
    ASSUME IInv, LooksAtAll, NEW key \in Key, NEW confirmed \in BOOLEAN,
           Enqueue(key, confirmed), UNCHANGED disposed
    PROVE  LooksAtAll'
<1>1. CASE UNCHANGED <<current, phase, todo, fresh>>
  <2>1. phase # "idle" => current \in Ticket /\ current # tickets + 1
    BY CurrentJob DEF IInv, TypeOK
  <2>2. phase # "idle" => job'[current].key = job[current].key
    <3>. SUFFICES ASSUME phase # "idle" PROVE job'[current].key = job[current].key
      OBVIOUS
    <3>1. job \in [Ticket -> [key : Key \cup {"none"}, confirmed : BOOLEAN]]
      BY DEF IInv, TypeOK
    <3>2. ASSUME NEW t \in Existing(key), Join(t, confirmed)
          PROVE  job'[current].key = job[current].key
      BY <2>1, <3>1, <3>2 DEF Join
    <3>3. CASE job' = [job EXCEPT ![tickets + 1] = [key |-> key, confirmed |-> confirmed]]
      BY <2>1, <3>1, <3>3
    <3>. QED
      BY <3>2, <3>3 DEF Enqueue
  <2>. QED
    BY <1>1, <2>2 DEF LooksAtAll
<1>2. CASE ~UNCHANGED <<current, phase, todo, fresh>>
  <2>1. PICK waiting, jobs, known : Pump(waiting, jobs, known) /\ jobs = job' /\ known = facts
    BY <1>2 DEF Enqueue
  <2>. QED
    BY <2>1, PumpLooks DEF IInv, TypeOK
<1>. QED
  BY <1>1, <1>2

LEMMA FinishLooks ==
    ASSUME IInv, NEW status, NEW known \in Facts, Finish(status, known), UNCHANGED job
    PROVE  LooksAtAll'
<1>1. PICK waiting, jobs : waiting = queue /\ jobs = job
  OBVIOUS
<1>. QED
  BY <1>1, PumpLooks DEF Finish

LEMMA ReprobeLooks ==
    \A op \in Bridge : {"status", "route"} \subseteq Elements(Reprobe(op))
<1>1. {"status", "route"} \subseteq Elements(<<"status", "route", "health">>)
  BY DEF Elements
<1>2. \A op \in Bridge : op \notin Engine /\ op \notin Protocol
  BY DEF Bridge, Engine, Showing, Protocol
<1>3. \A op \in Bridge : Reprobe(op) = <<"status", "route", "health">>
  BY <1>2, Zenon DEF Reprobe
<1>. QED
  BY <1>1, <1>3

LEMMA LookAfterLooks ==
    ASSUME IInv, NEW answer, LookAfter(job[current].key, answer),
           UNCHANGED <<job, facts, disposed>>
    PROVE  LooksAtAll'
<1>1. CASE disposed
  BY <1>1 DEF LooksAtAll
<1>2. CASE ~disposed
  BY <1>2, ReprobeLooks DEF LookAfter, LooksAtAll
<1>. QED
  BY <1>1, <1>2

LEMMA NextLooks == IInv /\ LooksAtAll /\ [Next]_vars => LooksAtAll'
<1>. SUFFICES ASSUME IInv, LooksAtAll, [Next]_vars PROVE LooksAtAll'
  OBVIOUS
<1>1. CASE UNCHANGED <<job, current, phase, todo, fresh, disposed>>
  BY <1>1 DEF LooksAtAll
<1>2. ASSUME NEW op \in Offered, NEW confirmed \in BOOLEAN, Request(op, confirmed)
      PROVE  LooksAtAll'
  BY <1>2, EnqueueLooks DEF Request, Key
<1>3. ASSUME NEW key \in Refreshing, Refresh(key)
      PROVE  LooksAtAll'
  BY <1>3, EnqueueLooks DEF Refresh, Key
<1>4. CASE SettleFires
  BY <1>1, <1>4, EnqueueLooks DEF SettleFires, Key, Refreshing
<1>5. CASE Dispose
  BY <1>5 DEF Dispose, LooksAtAll
<1>6. CASE ProbeAnswers
  <2>1. phase \in {"before", "after"} /\ UNCHANGED <<job, disposed>> /\ facts \in Facts
    BY <1>6 DEF ProbeAnswers, IInv, TypeOK
  <2>2. PICK known \in Answers(Head(todo)) :
          \/ /\ todo' = Rest(job[current].key, known)
             /\ fresh' = fresh \cup {Head(todo)}
             /\ UNCHANGED <<current, phase>>
          \/ \E status : Finish(status, known)
          \/ Decide(job[current].key, known)
    BY <1>6 DEF ProbeAnswers
  <2>3. known \in Facts
    BY <2>1, AnswersType
  <2>4. CASE /\ todo' = Rest(job[current].key, known)
             /\ fresh' = fresh \cup {Head(todo)}
             /\ UNCHANGED <<current, phase>>
    BY <2>1, <2>3, <2>4, RestKeeps DEF LooksAtAll
  <2>5. CASE \E status : Finish(status, known)
    BY <2>1, <2>3, <2>5, FinishLooks
  <2>6. CASE Decide(job[current].key, known)
    <3>1. phase' = "run" \/ \E status : Finish(status, known)
      BY <2>6 DEF Decide, Start
    <3>. QED
      BY <2>1, <2>3, <3>1, FinishLooks DEF LooksAtAll
  <2>. QED
    BY <2>2, <2>4, <2>5, <2>6
<1>7. CASE RunAnswers
  <2>1. phase' = "poll" \/ \E answer : LookAfter(job[current].key, answer)
    BY <1>7 DEF RunAnswers
  <2>. QED
    BY <1>7, <2>1, LookAfterLooks DEF RunAnswers, LooksAtAll
<1>8. CASE PollAnswers
  <2>1. phase' = "poll" \/ \E answer : LookAfter(job[current].key, answer)
    BY <1>8 DEF PollAnswers
  <2>. QED
    BY <1>8, <2>1, LookAfterLooks DEF PollAnswers, LooksAtAll
<1>9. ASSUME NEW t \in Ticket, Cancel(t) \/ ProgramEnds(t)
      PROVE  LooksAtAll'
  BY <1>1, <1>9 DEF Cancel, ProgramEnds
<1>10. CASE UNCHANGED vars
  BY <1>1, <1>10 DEF vars
<1>. QED
  BY <1>2, <1>3, <1>4, <1>5, <1>6, <1>7, <1>8, <1>9, <1>10 DEF Next, Works

LEMMA AlwaysLooks == Spec => [](IInv /\ LooksAtAll)
<1>1. Init => LooksAtAll
  BY DEF Init, LooksAtAll
<1>. QED
  BY <1>1, NextLooks, AlwaysIInv, PTL DEF Spec

\* "What is decided is decided on what is true now": every program starts on facts
\* that were looked at since its job began, as long as the window lives.
THEOREM DecisionsAreFresh == Spec => DecidedOnFreshFacts
<1>. DEFINE Fresh ==
       \A t \in Ticket :
         Starting(t) /\ ~disposed
             => {"engine", "route", "health"} \subseteq fresh \cup {Head(todo)}
<1>1. IInv /\ LooksAtAll /\ [Next]_vars => [Fresh]_vars
  <2>. SUFFICES ASSUME IInv, LooksAtAll, Next, NEW t \in Ticket, Starting(t), ~disposed
                PROVE  {"engine", "route", "health"} \subseteq fresh \cup {Head(todo)}
    BY DEF Starting
  <2>0. starts[t] \in Nat /\ starts'[t] # starts[t]
    BY DEF Starting, IInv, TypeOK
  <2>1. CASE ProbeAnswers
    <3>1. PICK known \in Answers(Head(todo)) :
            /\ phase = "before" /\ Rest(job[current].key, known) = <<>>
            /\ job[current].key \notin Refreshing /\ ~Probing(job[current].key)
      BY <2>0, <2>1 DEF ProbeAnswers
    <3>2. known \in Facts
      BY AnswersType DEF IInv, TypeOK
    <3>3. Elements(<<>>) = {}
      BY DEF Elements
    <3>. QED
      BY <3>1, <3>2, <3>3, RestKeeps DEF LooksAtAll
  <2>2. CASE RunAnswers \/ PollAnswers
    BY <2>0, <2>2 DEF RunAnswers, PollAnswers, LookAfter
  <2>3. CASE ~ProbeAnswers /\ ~RunAnswers /\ ~PollAnswers
    BY <2>0, <2>3 DEF Next, Works, Request, Refresh, SettleFires, Cancel, Dispose, ProgramEnds
  <2>. QED
    BY <2>1, <2>2, <2>3
<1>. QED
  BY <1>1, AlwaysLooks, PTL DEF Spec, DecidedOnFreshFacts

\* "What an operation claims is checked against what was looked at afterwards":
\* connecting and pausing succeed only on what was read after they ran.
THEOREM SuccessIsVerified == Spec => ClaimsAreVerified
<1>. DEFINE Verified ==
       \A t \in Ticket :
         /\ outcome[t] = "none"
         /\ outcome'[t] = "ok"
         /\ job[t].key \in Bridge
         => LET connecting == job[t].key = "bridge.connect"
            IN  /\ {"status", "route"} \subseteq fresh \cup {Head(todo)}
                /\ facts'.routed = connecting
                /\ facts'.journal = IF connecting THEN "active" ELSE "paused"
<1>1. IInv /\ LooksAtAll /\ [Next]_vars => [Verified]_vars
  <2>. SUFFICES ASSUME IInv, LooksAtAll, Next, NEW t \in Ticket,
                       outcome[t] = "none", outcome'[t] = "ok", job[t].key \in Bridge
                PROVE  /\ {"status", "route"} \subseteq fresh \cup {Head(todo)}
                       /\ facts'.routed = (job[t].key = "bridge.connect")
                       /\ facts'.journal = IF job[t].key = "bridge.connect" THEN "active" ELSE "paused"
    OBVIOUS
  <2>0. outcome \in [Ticket -> Status \cup {"none"}]
    BY DEF IInv, TypeOK
  <2>1. CASE ProbeAnswers
    <3>1. ~Probing(job[t].key) /\ job[t].key \notin Refreshing
      BY DEF Bridge, Probing, Refreshing
    <3>2. /\ current \in Ticket
          /\ \A status, known : Finish(status, known) => t = current /\ status = "ok"
      BY <2>0, <2>1, CurrentJob DEF ProbeAnswers, Finish, Settle
    <3>3. PICK known \in Answers(Head(todo)) :
            /\ facts' = known /\ t = current /\ phase = "after"
            /\ Rest(job[t].key, known) = <<>>
            /\ "ok" \in Verdicts(job[t].key, known)
      BY <2>0, <2>1, <3>1, <3>2 DEF ProbeAnswers, Decide, Start
    <3>4. ~disposed
      BY <3>2, <3>3 DEF IInv, OpenPromises, OneRuns
    <3>5. known \in Facts /\ Elements(<<>>) = {}
      BY AnswersType DEF IInv, TypeOK, Elements
    <3>6. {"status", "route"} \subseteq fresh \cup {Head(todo)}
      BY <3>3, <3>4, <3>5, RestKeeps DEF LooksAtAll
    <3>7. /\ known.journal = (IF job[t].key = "bridge.connect" THEN "active" ELSE "paused")
          /\ known.routed = (job[t].key = "bridge.connect")
      BY <3>3 DEF Verdicts
    <3>. QED
      BY <3>3, <3>6, <3>7
  <2>2. CASE RunAnswers \/ PollAnswers
    BY <2>0, <2>2 DEF RunAnswers, PollAnswers, LookAfter, Finish, Settle
  <2>3. CASE ~ProbeAnswers /\ ~RunAnswers /\ ~PollAnswers
    BY <2>0, <2>3
       DEF Next, Works, Request, Refresh, SettleFires, Cancel, Dispose, ProgramEnds, Enqueue
  <2>. QED
    BY <2>1, <2>2, <2>3
<1>. QED
  BY <1>1, AlwaysLooks, PTL DEF Spec, ClaimsAreVerified

-----------------------------------------------------------------------------
(* The server of a remote host                                              *)

\* The setup script runs under the lock.
LockIsHeld == HasFlock => \A a \in Attempt : pc[a] \in Locked => lock = a

\* The server that runs is the one of the pid file, unless its script is about to
\* write that; and where a script starts a server, no other runs.
ServerIsKnown ==
    HasFlock =>
        /\ \A s \in Attempt : Running(s) => pidFile = s \/ pc[s] = "note"
        /\ \A a, s \in Attempt :
              /\ pc[a] \in {"reset", "launch"} => ~Running(s)
              /\ pc[a] = "note" /\ Running(s) => s = a

\* A server is started once: its attempt has not started it before it reaches that step.
StartedOnce ==
    \A a \in Attempt :
        pc[a] \in (Stage \ Ended) \ {"note", "token", "poll"} => server[a] = "none"

\* The log that says that a server listens is that of the latest server, which has the
\* token of the file; and the tokens that were told fit.
Booted(s) == s \in Attempt /\ server[s] \in {"listening", "gone"}

TokensFit ==
    HasFlock =>
        /\ log.listens => Booted(log.by) /\ token[log.by] = tokenFile
        /\ \A a \in Attempt :
              /\ pc[a] = "poll" => got[a] = tokenFile
              /\ pc[a] = "ok" => Booted(port[a]) /\ token[port[a]] = got[a]

\* While the folder was filled by one script after the other, the one that replaces it
\* found it absent, and whoever sets the server up found it complete.
FolderIsOurs ==
    alone =>
        /\ nested = {} /\ dir \in {"absent", "complete"}
        /\ \A a \in Attempt :
              /\ pc[a] \in Replacing => dir = "absent" /\ pc[a] # "removing"
              /\ \A b \in Attempt : pc[a] \in Replacing /\ pc[b] \in Replacing => a = b
              /\ pc[a] \in (Locked \ {"folder"}) \cup {"drop"} => dir = "complete"
              /\ pc[a] \notin {"download", "extract"}
              /\ a \in Uploads /\ pc[a] \in {"lock", "folder", "ok"} => dir = "complete"

\* What each attempt has on the host at each of its steps.
OwnFiles ==
    \A a \in Attempt :
        /\ pc[a] \in {"idle", "put", "check", "unpack", "drop"} => a \notin staged
        /\ pc[a] \in {"idle", "put"} => part[a] = "none"
        /\ pc[a] \in {"idle", "put"} => a \notin lost

-----------------------------------------------------------------------------
(* One lemma per part                                                       *)

LEMMA InitTyped == ServerInit => ServerTypeOK
BY AttemptAssumption DEF ServerInit, ServerTypeOK, Stage

\* Every step keeps the types.
LEMMA TypeStep ==
    ASSUME ServerTypeOK, [ServerNext]_serverVars
    PROVE  ServerTypeOK'
<1> USE AttemptAssumption DEF ServerTypeOK, Stage, Unpacking, Replacing, Locked, Ended,
  files, results, run
<1>1. ASSUME NEW a \in Attempt, ProbeHost(a) PROVE ServerTypeOK'
  BY <1>1 DEF ProbeHost, HasScript, Go
<1>2. ASSUME NEW a \in Attempt, Put(a) PROVE ServerTypeOK'
  BY <1>2 DEF Put, Go
<1>3. ASSUME NEW a \in Attempt, PutFails(a) PROVE ServerTypeOK'
  BY <1>3 DEF PutFails, Go
<1>4. ASSUME NEW a \in Attempt, Check(a) PROVE ServerTypeOK'
  BY <1>4 DEF Check, Refuse, Close, Go
<1>5. ASSUME NEW a \in Attempt, Unpack(a) PROVE ServerTypeOK'
  BY <1>5 DEF Unpack, Go
<1>6. ASSUME NEW a \in Attempt, UnpackFails(a) PROVE ServerTypeOK'
  BY <1>6 DEF UnpackFails, Refuse, Close, Go
<1>7. ASSUME NEW a \in Attempt, Test(a) PROVE ServerTypeOK'
  BY <1>7 DEF Test, HasScript, Go
<1>8. ASSUME NEW a \in Attempt, Remove(a) PROVE ServerTypeOK'
  BY <1>8 DEF Remove, HasScript, Go
<1>9. ASSUME NEW a \in Attempt, Removed(a) PROVE ServerTypeOK'
  BY <1>9 DEF Removed, Go
<1>10. ASSUME NEW a \in Attempt, Move(a) PROVE ServerTypeOK'
  BY <1>10 DEF Move, Go
<1>11. ASSUME NEW a \in Attempt, MoveFails(a) PROVE ServerTypeOK'
  BY <1>11 DEF MoveFails, Refuse, Close, Go
<1>12. ASSUME NEW a \in Attempt, Drop(a) PROVE ServerTypeOK'
  BY <1>12 DEF Drop, Close, Go
<1>13. ASSUME NEW a \in Attempt, Lock(a) PROVE ServerTypeOK'
  BY <1>13 DEF Lock, Go
<1>14. ASSUME NEW a \in Attempt, LockFails(a) PROVE ServerTypeOK'
  BY <1>14 DEF LockFails, Close, Go
<1>15. ASSUME NEW a \in Attempt, MakeFolder(a) PROVE ServerTypeOK'
  BY <1>15 DEF MakeFolder, Go
<1>16. ASSUME NEW a \in Attempt, MakeFolderFails(a) PROVE ServerTypeOK'
  BY <1>16 DEF MakeFolderFails, Fail, Close, Unlock, Go
<1>17. ASSUME NEW a \in Attempt, LookForScript(a) PROVE ServerTypeOK'
  BY <1>17 DEF LookForScript, HasScript, Go
<1>18. ASSUME NEW a \in Attempt, Download(a) PROVE ServerTypeOK'
  BY <1>18 DEF Download, Go
<1>19. ASSUME NEW a \in Attempt, DownloadFails(a) PROVE ServerTypeOK'
  BY <1>19 DEF DownloadFails, Fail, Close, Unlock, Go
<1>20. ASSUME NEW a \in Attempt, Extract(a) PROVE ServerTypeOK'
  BY <1>20 DEF Extract, Go
<1>21. ASSUME NEW a \in Attempt, ExtractFails(a) PROVE ServerTypeOK'
  BY <1>21 DEF ExtractFails, Fail, Close, Unlock, Go
<1>22. ASSUME NEW a \in Attempt, Find(a) PROVE ServerTypeOK'
  BY <1>22 DEF Find, Found, Running, Go
<1>23. ASSUME NEW a \in Attempt, Reset(a) PROVE ServerTypeOK'
  BY <1>23 DEF Reset, Go
<1>24. ASSUME NEW a \in Attempt, Launch(a) PROVE ServerTypeOK'
  BY <1>24 DEF Launch, Go
<1>25. ASSUME NEW a \in Attempt, NotePid(a) PROVE ServerTypeOK'
  BY <1>25 DEF NotePid, Go
<1>26. ASSUME NEW a \in Attempt, ReadToken(a) PROVE ServerTypeOK'
  BY <1>26 DEF ReadToken, Go
<1>27. ASSUME NEW a \in Attempt, Poll(a) PROVE ServerTypeOK'
  BY <1>27 DEF Poll, Close, Unlock, Go
<1>28. ASSUME NEW a \in Attempt, GiveUp(a) PROVE ServerTypeOK'
  BY <1>28 DEF GiveUp, Fail, Close, Unlock, Go
<1>29. ASSUME NEW a \in Attempt, Boot(a) PROVE ServerTypeOK'
  BY <1>29 DEF Boot, HasScript
<1>30. ASSUME NEW a \in Attempt, Exit(a) PROVE ServerTypeOK'
  BY <1>30 DEF Exit, Running
<1>31. ASSUME NEW a \in Attempt, Lose(a) PROVE ServerTypeOK'
  BY <1>31 DEF Lose, Go
<1>32. ASSUME NEW a \in Attempt, Cut(a) PROVE ServerTypeOK'
  BY <1>32 DEF Cut, Unlock, Go
<1>33. CASE UNCHANGED serverVars
  BY <1>33 DEF serverVars
<1>34. QED
  BY <1>1, <1>2, <1>3, <1>4, <1>5, <1>6, <1>7, <1>8, <1>9, <1>10, <1>11, <1>12,
    <1>13, <1>14, <1>15, <1>16, <1>17, <1>18, <1>19, <1>20, <1>21, <1>22, <1>23,
    <1>24, <1>25, <1>26, <1>27, <1>28, <1>29, <1>30, <1>31, <1>32, <1>33 DEF ServerNext,
    Install, Setup

\* Nobody gets the lock while a script runs under it.
LEMMA LockStep ==
    ASSUME ServerTypeOK, LockIsHeld, [ServerNext]_serverVars
    PROVE  LockIsHeld'
<1> USE AttemptAssumption DEF LockIsHeld, ServerTypeOK, Locked, files, results, run
<1>1. ASSUME NEW a \in Attempt, ProbeHost(a) PROVE LockIsHeld'
  BY <1>1 DEF ProbeHost, HasScript, Go, Ended
<1>2. ASSUME NEW a \in Attempt, Install(a) PROVE LockIsHeld'
  BY <1>2 DEF Install, Put, Go, PutFails, Check, Refuse, Close, Unpack, UnpackFails,
    Test, HasScript, Remove, Removed, Move, MoveFails, Drop, Ended
<1>3. ASSUME NEW a \in Attempt, Lock(a) PROVE LockIsHeld'
  BY <1>3 DEF Lock, Go, Ended
<1>4. ASSUME NEW a \in Attempt, LockFails(a) PROVE LockIsHeld'
  BY <1>4 DEF LockFails, Close, Go, Ended
<1>5. ASSUME NEW a \in Attempt, MakeFolder(a) PROVE LockIsHeld'
  BY <1>5 DEF MakeFolder, Go, Ended
<1>6. ASSUME NEW a \in Attempt, MakeFolderFails(a) PROVE LockIsHeld'
  BY <1>6 DEF MakeFolderFails, Fail, Close, Unlock, Go, Ended
<1>7. ASSUME NEW a \in Attempt, LookForScript(a) PROVE LockIsHeld'
  BY <1>7 DEF LookForScript, HasScript, Go, Ended
<1>8. ASSUME NEW a \in Attempt, Download(a) PROVE LockIsHeld'
  BY <1>8 DEF Download, Go, Ended
<1>9. ASSUME NEW a \in Attempt, DownloadFails(a) PROVE LockIsHeld'
  BY <1>9 DEF DownloadFails, Fail, Close, Unlock, Go, Ended
<1>10. ASSUME NEW a \in Attempt, Extract(a) PROVE LockIsHeld'
  BY <1>10 DEF Extract, Go, Ended
<1>11. ASSUME NEW a \in Attempt, ExtractFails(a) PROVE LockIsHeld'
  BY <1>11 DEF ExtractFails, Fail, Close, Unlock, Go, Ended
<1>12. ASSUME NEW a \in Attempt, Find(a) PROVE LockIsHeld'
  BY <1>12 DEF Find, Found, Running, Go, Ended
<1>13. ASSUME NEW a \in Attempt, Reset(a) PROVE LockIsHeld'
  BY <1>13 DEF Reset, Go, Ended
<1>14. ASSUME NEW a \in Attempt, Launch(a) PROVE LockIsHeld'
  BY <1>14 DEF Launch, Go, Ended
<1>15. ASSUME NEW a \in Attempt, NotePid(a) PROVE LockIsHeld'
  BY <1>15 DEF NotePid, Go, Ended
<1>16. ASSUME NEW a \in Attempt, ReadToken(a) PROVE LockIsHeld'
  BY <1>16 DEF ReadToken, Go, Ended
<1>17. ASSUME NEW a \in Attempt, Poll(a) PROVE LockIsHeld'
  BY <1>17 DEF Poll, Close, Unlock, Go, Ended
<1>18. ASSUME NEW a \in Attempt, GiveUp(a) PROVE LockIsHeld'
  BY <1>18 DEF GiveUp, Fail, Close, Unlock, Go, Ended
<1>19. ASSUME NEW a \in Attempt, Boot(a) PROVE LockIsHeld'
  BY <1>19 DEF Boot, HasScript, Ended
<1>20. ASSUME NEW a \in Attempt, Exit(a) PROVE LockIsHeld'
  BY <1>20 DEF Exit, Running, Ended
<1>21. ASSUME NEW a \in Attempt, Lose(a) PROVE LockIsHeld'
  BY <1>21 DEF Lose, Go, Ended
<1>22. ASSUME NEW a \in Attempt, Cut(a) PROVE LockIsHeld'
  BY <1>22 DEF Cut, Unlock, Go, Ended
<1>23. CASE UNCHANGED serverVars
  BY <1>23 DEF serverVars, Ended
<1>24. QED
  BY <1>1, <1>2, <1>3, <1>4, <1>5, <1>6, <1>7, <1>8, <1>9, <1>10, <1>11, <1>12,
    <1>13, <1>14, <1>15, <1>16, <1>17, <1>18, <1>19, <1>20, <1>21, <1>22, <1>23 DEF
    ServerNext, Setup

\* Who is under the lock knows whether a server runs.
LEMMA ServerStep ==
    ASSUME ServerTypeOK, LockIsHeld, ServerIsKnown, [ServerNext]_serverVars
    PROVE  ServerIsKnown'
<1> USE AttemptAssumption DEF ServerIsKnown, LockIsHeld, ServerTypeOK, Locked, Running,
  files, results, run
<1>1. ASSUME NEW a \in Attempt, ProbeHost(a) PROVE ServerIsKnown'
  BY <1>1 DEF ProbeHost, HasScript, Go
<1>2. ASSUME NEW a \in Attempt, Install(a) PROVE ServerIsKnown'
  BY <1>2 DEF Install, Put, Go, PutFails, Check, Refuse, Close, Unpack, UnpackFails,
    Test, HasScript, Remove, Removed, Move, MoveFails, Drop
<1>3. ASSUME NEW a \in Attempt, Lock(a) PROVE ServerIsKnown'
  BY <1>3 DEF Lock, Go
<1>4. ASSUME NEW a \in Attempt, LockFails(a) PROVE ServerIsKnown'
  BY <1>4 DEF LockFails, Close, Go
<1>5. ASSUME NEW a \in Attempt, MakeFolder(a) PROVE ServerIsKnown'
  BY <1>5 DEF MakeFolder, Go
<1>6. ASSUME NEW a \in Attempt, MakeFolderFails(a) PROVE ServerIsKnown'
  BY <1>6 DEF MakeFolderFails, Fail, Close, Unlock, Go
<1>7. ASSUME NEW a \in Attempt, LookForScript(a) PROVE ServerIsKnown'
  BY <1>7 DEF LookForScript, HasScript, Go
<1>8. ASSUME NEW a \in Attempt, Download(a) PROVE ServerIsKnown'
  BY <1>8 DEF Download, Go
<1>9. ASSUME NEW a \in Attempt, DownloadFails(a) PROVE ServerIsKnown'
  BY <1>9 DEF DownloadFails, Fail, Close, Unlock, Go
<1>10. ASSUME NEW a \in Attempt, Extract(a) PROVE ServerIsKnown'
  BY <1>10 DEF Extract, Go
<1>11. ASSUME NEW a \in Attempt, ExtractFails(a) PROVE ServerIsKnown'
  BY <1>11 DEF ExtractFails, Fail, Close, Unlock, Go
<1>12. ASSUME NEW a \in Attempt, Find(a) PROVE ServerIsKnown'
  BY <1>12 DEF Find, Found, Go
<1>13. ASSUME NEW a \in Attempt, Reset(a) PROVE ServerIsKnown'
  BY <1>13 DEF Reset, Go
<1>14. ASSUME NEW a \in Attempt, Launch(a) PROVE ServerIsKnown'
  BY <1>14 DEF Launch, Go
<1>15. ASSUME NEW a \in Attempt, NotePid(a) PROVE ServerIsKnown'
  BY <1>15 DEF NotePid, Go
<1>16. ASSUME NEW a \in Attempt, ReadToken(a) PROVE ServerIsKnown'
  BY <1>16 DEF ReadToken, Go
<1>17. ASSUME NEW a \in Attempt, Poll(a) PROVE ServerIsKnown'
  BY <1>17 DEF Poll, Close, Unlock, Go
<1>18. ASSUME NEW a \in Attempt, GiveUp(a) PROVE ServerIsKnown'
  BY <1>18 DEF GiveUp, Fail, Close, Unlock, Go
<1>19. ASSUME NEW a \in Attempt, Boot(a) PROVE ServerIsKnown'
  BY <1>19 DEF Boot, HasScript
<1>20. ASSUME NEW a \in Attempt, Exit(a) PROVE ServerIsKnown'
  BY <1>20 DEF Exit
<1>21. ASSUME NEW a \in Attempt, Lose(a) PROVE ServerIsKnown'
  BY <1>21 DEF Lose, Go
<1>22. ASSUME NEW a \in Attempt, Cut(a) PROVE ServerIsKnown'
  BY <1>22 DEF Cut, Unlock, Go
<1>23. CASE UNCHANGED serverVars
  BY <1>23 DEF serverVars
<1>24. QED
  BY <1>1, <1>2, <1>3, <1>4, <1>5, <1>6, <1>7, <1>8, <1>9, <1>10, <1>11, <1>12,
    <1>13, <1>14, <1>15, <1>16, <1>17, <1>18, <1>19, <1>20, <1>21, <1>22, <1>23 DEF
    ServerNext, Setup

\* Only launching starts a server, and it is the last thing before its pid is noted.
LEMMA StartStep ==
    ASSUME ServerTypeOK, StartedOnce, [ServerNext]_serverVars
    PROVE  StartedOnce'
<1> USE AttemptAssumption DEF StartedOnce, ServerTypeOK, Stage, Locked, Unpacking,
  Replacing, Ended, files, results, run
<1>1. ASSUME NEW a \in Attempt, ProbeHost(a) PROVE StartedOnce'
  BY <1>1 DEF ProbeHost, HasScript, Go
<1>2. ASSUME NEW a \in Attempt, Put(a) PROVE StartedOnce'
  BY <1>2 DEF Put, Go
<1>3. ASSUME NEW a \in Attempt, PutFails(a) PROVE StartedOnce'
  BY <1>3 DEF PutFails, Go
<1>4. ASSUME NEW a \in Attempt, Check(a) PROVE StartedOnce'
  BY <1>4 DEF Check, Refuse, Close, Go
<1>5. ASSUME NEW a \in Attempt, Unpack(a) PROVE StartedOnce'
  BY <1>5 DEF Unpack, Go
<1>6. ASSUME NEW a \in Attempt, UnpackFails(a) PROVE StartedOnce'
  BY <1>6 DEF UnpackFails, Refuse, Close, Go
<1>7. ASSUME NEW a \in Attempt, Test(a) PROVE StartedOnce'
  BY <1>7 DEF Test, HasScript, Go
<1>8. ASSUME NEW a \in Attempt, Remove(a) PROVE StartedOnce'
  BY <1>8 DEF Remove, HasScript, Go
<1>9. ASSUME NEW a \in Attempt, Removed(a) PROVE StartedOnce'
  BY <1>9 DEF Removed, Go
<1>10. ASSUME NEW a \in Attempt, Move(a) PROVE StartedOnce'
  BY <1>10 DEF Move, Go
<1>11. ASSUME NEW a \in Attempt, MoveFails(a) PROVE StartedOnce'
  BY <1>11 DEF MoveFails, Refuse, Close, Go
<1>12. ASSUME NEW a \in Attempt, Drop(a) PROVE StartedOnce'
  BY <1>12 DEF Drop, Close, Go
<1>13. ASSUME NEW a \in Attempt, Lock(a) PROVE StartedOnce'
  BY <1>13 DEF Lock, Go
<1>14. ASSUME NEW a \in Attempt, LockFails(a) PROVE StartedOnce'
  BY <1>14 DEF LockFails, Close, Go
<1>15. ASSUME NEW a \in Attempt, MakeFolder(a) PROVE StartedOnce'
  BY <1>15 DEF MakeFolder, Go
<1>16. ASSUME NEW a \in Attempt, MakeFolderFails(a) PROVE StartedOnce'
  BY <1>16 DEF MakeFolderFails, Fail, Close, Unlock, Go
<1>17. ASSUME NEW a \in Attempt, LookForScript(a) PROVE StartedOnce'
  BY <1>17 DEF LookForScript, HasScript, Go
<1>18. ASSUME NEW a \in Attempt, Download(a) PROVE StartedOnce'
  BY <1>18 DEF Download, Go
<1>19. ASSUME NEW a \in Attempt, DownloadFails(a) PROVE StartedOnce'
  BY <1>19 DEF DownloadFails, Fail, Close, Unlock, Go
<1>20. ASSUME NEW a \in Attempt, Extract(a) PROVE StartedOnce'
  BY <1>20 DEF Extract, Go
<1>21. ASSUME NEW a \in Attempt, ExtractFails(a) PROVE StartedOnce'
  BY <1>21 DEF ExtractFails, Fail, Close, Unlock, Go
<1>22. ASSUME NEW a \in Attempt, Find(a) PROVE StartedOnce'
  BY <1>22 DEF Find, Found, Running, Go
<1>23. ASSUME NEW a \in Attempt, Reset(a) PROVE StartedOnce'
  BY <1>23 DEF Reset, Go
<1>24. ASSUME NEW a \in Attempt, Launch(a) PROVE StartedOnce'
  BY <1>24 DEF Launch, Go
<1>25. ASSUME NEW a \in Attempt, NotePid(a) PROVE StartedOnce'
  BY <1>25 DEF NotePid, Go
<1>26. ASSUME NEW a \in Attempt, ReadToken(a) PROVE StartedOnce'
  BY <1>26 DEF ReadToken, Go
<1>27. ASSUME NEW a \in Attempt, Poll(a) PROVE StartedOnce'
  BY <1>27 DEF Poll, Close, Unlock, Go
<1>28. ASSUME NEW a \in Attempt, GiveUp(a) PROVE StartedOnce'
  BY <1>28 DEF GiveUp, Fail, Close, Unlock, Go
<1>29. ASSUME NEW a \in Attempt, Boot(a) PROVE StartedOnce'
  BY <1>29 DEF Boot, HasScript
<1>30. ASSUME NEW a \in Attempt, Exit(a) PROVE StartedOnce'
  BY <1>30 DEF Exit, Running
<1>31. ASSUME NEW a \in Attempt, Lose(a) PROVE StartedOnce'
  BY <1>31 DEF Lose, Go
<1>32. ASSUME NEW a \in Attempt, Cut(a) PROVE StartedOnce'
  BY <1>32 DEF Cut, Unlock, Go
<1>33. CASE UNCHANGED serverVars
  BY <1>33 DEF serverVars
<1>34. QED
  BY <1>1, <1>2, <1>3, <1>4, <1>5, <1>6, <1>7, <1>8, <1>9, <1>10, <1>11, <1>12,
    <1>13, <1>14, <1>15, <1>16, <1>17, <1>18, <1>19, <1>20, <1>21, <1>22, <1>23,
    <1>24, <1>25, <1>26, <1>27, <1>28, <1>29, <1>30, <1>31, <1>32, <1>33 DEF ServerNext,
    Install, Setup

\* A token is drawn when no server runs, and nobody is between reading it and the log.
LEMMA TokenStep ==
    ASSUME ServerTypeOK, LockIsHeld, ServerIsKnown, StartedOnce, TokensFit, [ServerNext]_serverVars
    PROVE  TokensFit'
<1> USE AttemptAssumption DEF TokensFit, LockIsHeld, Booted, ServerTypeOK, Locked, files,
  results, run
<1>1. ASSUME NEW a \in Attempt, ProbeHost(a) PROVE TokensFit'
  BY <1>1 DEF ProbeHost, HasScript, Go, ServerIsKnown, StartedOnce, Running, Stage, Ended
<1>2. ASSUME NEW a \in Attempt, Install(a) PROVE TokensFit'
  BY <1>2 DEF Install, Put, Go, PutFails, Check, Refuse, Close, Unpack, UnpackFails,
    Test, HasScript, Remove, Removed, Move, MoveFails, Drop, ServerIsKnown,
    StartedOnce, Running, Stage, Ended
<1>3. ASSUME NEW a \in Attempt, Lock(a) PROVE TokensFit'
  BY <1>3 DEF Lock, Go, ServerIsKnown, StartedOnce, Running, Stage, Ended
<1>4. ASSUME NEW a \in Attempt, LockFails(a) PROVE TokensFit'
  BY <1>4 DEF LockFails, Close, Go, ServerIsKnown, StartedOnce, Running, Stage, Ended
<1>5. ASSUME NEW a \in Attempt, MakeFolder(a) PROVE TokensFit'
  BY <1>5 DEF MakeFolder, Go, ServerIsKnown, StartedOnce, Running, Stage, Ended
<1>6. ASSUME NEW a \in Attempt, MakeFolderFails(a) PROVE TokensFit'
  BY <1>6 DEF MakeFolderFails, Fail, Close, Unlock, Go, ServerIsKnown, StartedOnce,
    Running, Stage, Ended
<1>7. ASSUME NEW a \in Attempt, LookForScript(a) PROVE TokensFit'
  BY <1>7 DEF LookForScript, HasScript, Go, ServerIsKnown, StartedOnce, Running,
    Stage, Ended
<1>8. ASSUME NEW a \in Attempt, Download(a) PROVE TokensFit'
  BY <1>8 DEF Download, Go, ServerIsKnown, StartedOnce, Running, Stage, Ended
<1>9. ASSUME NEW a \in Attempt, DownloadFails(a) PROVE TokensFit'
  BY <1>9 DEF DownloadFails, Fail, Close, Unlock, Go, ServerIsKnown, StartedOnce,
    Running, Stage, Ended
<1>10. ASSUME NEW a \in Attempt, Extract(a) PROVE TokensFit'
  BY <1>10 DEF Extract, Go, ServerIsKnown, StartedOnce, Running, Stage, Ended
<1>11. ASSUME NEW a \in Attempt, ExtractFails(a) PROVE TokensFit'
  BY <1>11 DEF ExtractFails, Fail, Close, Unlock, Go, ServerIsKnown, StartedOnce,
    Running, Stage, Ended
<1>12. ASSUME NEW a \in Attempt, Find(a) PROVE TokensFit'
  BY <1>12 DEF Find, Found, Running, Go, ServerIsKnown, StartedOnce, Running, Stage,
    Ended
<1>13. ASSUME NEW a \in Attempt, Reset(a) PROVE TokensFit'
  BY <1>13 DEF Reset, Go, ServerIsKnown, StartedOnce, Running, Stage, Ended
<1>14. ASSUME NEW a \in Attempt, Launch(a) PROVE TokensFit'
  BY <1>14 DEF Launch, Go, ServerIsKnown, StartedOnce, Running, Stage, Ended
<1>15. ASSUME NEW a \in Attempt, NotePid(a) PROVE TokensFit'
  BY <1>15 DEF NotePid, Go, ServerIsKnown, StartedOnce, Running, Stage, Ended
<1>16. ASSUME NEW a \in Attempt, ReadToken(a) PROVE TokensFit'
  BY <1>16 DEF ReadToken, Go, ServerIsKnown, StartedOnce, Running, Stage, Ended
<1>17. ASSUME NEW a \in Attempt, Poll(a) PROVE TokensFit'
  BY <1>17 DEF Poll, Close, Unlock, Go, ServerIsKnown, StartedOnce, Running, Stage,
    Ended
<1>18. ASSUME NEW a \in Attempt, GiveUp(a) PROVE TokensFit'
  BY <1>18 DEF GiveUp, Fail, Close, Unlock, Go, ServerIsKnown, StartedOnce, Running,
    Stage, Ended
<1>19. ASSUME NEW a \in Attempt, Boot(a) PROVE TokensFit'
  BY <1>19 DEF Boot, HasScript, ServerIsKnown, StartedOnce, Running, Stage, Ended
<1>20. ASSUME NEW a \in Attempt, Exit(a) PROVE TokensFit'
  BY <1>20 DEF Exit, Running, ServerIsKnown, StartedOnce, Running, Stage, Ended
<1>21. ASSUME NEW a \in Attempt, Lose(a) PROVE TokensFit'
  BY <1>21 DEF Lose, Go, ServerIsKnown, StartedOnce, Running, Stage, Ended
<1>22. ASSUME NEW a \in Attempt, Cut(a) PROVE TokensFit'
  BY <1>22 DEF Cut, Unlock, Go, ServerIsKnown, StartedOnce, Running, Stage, Ended
<1>23. CASE UNCHANGED serverVars
  BY <1>23 DEF serverVars, ServerIsKnown, StartedOnce, Running, Stage, Ended
<1>24. QED
  BY <1>1, <1>2, <1>3, <1>4, <1>5, <1>6, <1>7, <1>8, <1>9, <1>10, <1>11, <1>12,
    <1>13, <1>14, <1>15, <1>16, <1>17, <1>18, <1>19, <1>20, <1>21, <1>22, <1>23 DEF
    ServerNext, Setup

\* The folder changes hands only between scripts.
LEMMA FolderStep ==
    ASSUME ServerTypeOK, FolderIsOurs, [ServerNext]_serverVars
    PROVE  FolderIsOurs'
<1> USE AttemptAssumption DEF FolderIsOurs, ServerTypeOK, Locked, Replacing, files,
  results, run
<1>1. ASSUME NEW a \in Attempt, ProbeHost(a) PROVE FolderIsOurs'
  BY <1>1 DEF ProbeHost, HasScript, Go
<1>2. ASSUME NEW a \in Attempt, Put(a) PROVE FolderIsOurs'
  BY <1>2 DEF Put, Go
<1>3. ASSUME NEW a \in Attempt, PutFails(a) PROVE FolderIsOurs'
  BY <1>3 DEF PutFails, Go
<1>4. ASSUME NEW a \in Attempt, Check(a) PROVE FolderIsOurs'
  <2>1. pc' = [pc EXCEPT ![a] = pc'[a]] /\ pc'[a] \in {"unpack", "gone", "failed"}
    BY <1>4 DEF Check, Refuse, Close, Go
  <2>2. UNCHANGED <<dir, nested, alone>> /\ pc[a] = "check"
    BY <1>4 DEF Check, Refuse
  <2>3. \A b \in Attempt : b # a => pc'[b] = pc[b]
    BY <2>1
  <2>4. QED
    BY <2>1, <2>2, <2>3
<1>5. ASSUME NEW a \in Attempt, Unpack(a) PROVE FolderIsOurs'
  BY <1>5 DEF Unpack, Go
<1>6. ASSUME NEW a \in Attempt, UnpackFails(a) PROVE FolderIsOurs'
  BY <1>6 DEF UnpackFails, Refuse, Close, Go
<1>7. ASSUME NEW a \in Attempt, Test(a) PROVE FolderIsOurs'
  <2>1. CASE HasScript
    <3>1. pc' = [pc EXCEPT ![a] = "drop"] /\ UNCHANGED <<dir, nested, alone>>
      BY <1>7, <2>1 DEF Test, Go
    <3>2. SUFFICES ASSUME alone PROVE FolderIsOurs'
      BY <3>1
    <3>3. dir = "complete"
      BY <2>1, <3>2 DEF HasScript
    <3>4. \A b \in Attempt : pc'[b] = IF b = a THEN "drop" ELSE pc[b]
      BY <3>1
    <3>5. QED
      BY <3>1, <3>2, <3>3, <3>4
  <2>2. CASE ~HasScript
    <3>1. /\ pc' = [pc EXCEPT ![a] = "remove"] /\ UNCHANGED <<dir, nested>>
          /\ alone' = (alone /\ \A b \in Attempt : pc[b] \notin Replacing)
          /\ pc[a] = "test"
      BY <1>7, <2>2 DEF Test, Go
    <3>2. SUFFICES ASSUME alone' PROVE FolderIsOurs'
      OBVIOUS
    <3>3. alone /\ \A b \in Attempt : pc[b] \notin Replacing
      BY <3>1, <3>2
    <3>4. dir = "absent" /\ nested = {}
      BY <2>2, <3>3 DEF HasScript
    <3>5. \A b \in Attempt : pc'[b] = IF b = a THEN "remove" ELSE pc[b]
      BY <3>1
    <3>6. QED
      BY <3>1, <3>3, <3>4, <3>5
  <2>3. QED
    BY <2>1, <2>2
<1>8. ASSUME NEW a \in Attempt, Remove(a) PROVE FolderIsOurs'
  BY <1>8 DEF Remove, HasScript, Go
<1>9. ASSUME NEW a \in Attempt, Removed(a) PROVE FolderIsOurs'
  BY <1>9 DEF Removed, Go
<1>10. ASSUME NEW a \in Attempt, Move(a) PROVE FolderIsOurs'
  BY <1>10 DEF Move, Go
<1>11. ASSUME NEW a \in Attempt, MoveFails(a) PROVE FolderIsOurs'
  BY <1>11 DEF MoveFails, Refuse, Close, Go
<1>12. ASSUME NEW a \in Attempt, Drop(a) PROVE FolderIsOurs'
  BY <1>12 DEF Drop, Close, Go
<1>13. ASSUME NEW a \in Attempt, Lock(a) PROVE FolderIsOurs'
  BY <1>13 DEF Lock, Go
<1>14. ASSUME NEW a \in Attempt, LockFails(a) PROVE FolderIsOurs'
  BY <1>14 DEF LockFails, Close, Go
<1>15. ASSUME NEW a \in Attempt, MakeFolder(a) PROVE FolderIsOurs'
  BY <1>15 DEF MakeFolder, Go
<1>16. ASSUME NEW a \in Attempt, MakeFolderFails(a) PROVE FolderIsOurs'
  BY <1>16 DEF MakeFolderFails, Fail, Close, Unlock, Go
<1>17. ASSUME NEW a \in Attempt, LookForScript(a) PROVE FolderIsOurs'
  BY <1>17 DEF LookForScript, HasScript, Go
<1>18. ASSUME NEW a \in Attempt, Download(a) PROVE FolderIsOurs'
  BY <1>18 DEF Download, Go
<1>19. ASSUME NEW a \in Attempt, DownloadFails(a) PROVE FolderIsOurs'
  BY <1>19 DEF DownloadFails, Fail, Close, Unlock, Go
<1>20. ASSUME NEW a \in Attempt, Extract(a) PROVE FolderIsOurs'
  BY <1>20 DEF Extract, Go
<1>21. ASSUME NEW a \in Attempt, ExtractFails(a) PROVE FolderIsOurs'
  BY <1>21 DEF ExtractFails, Fail, Close, Unlock, Go
<1>22. ASSUME NEW a \in Attempt, Find(a) PROVE FolderIsOurs'
  BY <1>22 DEF Find, Found, Running, Go
<1>23. ASSUME NEW a \in Attempt, Reset(a) PROVE FolderIsOurs'
  BY <1>23 DEF Reset, Go
<1>24. ASSUME NEW a \in Attempt, Launch(a) PROVE FolderIsOurs'
  BY <1>24 DEF Launch, Go
<1>25. ASSUME NEW a \in Attempt, NotePid(a) PROVE FolderIsOurs'
  BY <1>25 DEF NotePid, Go
<1>26. ASSUME NEW a \in Attempt, ReadToken(a) PROVE FolderIsOurs'
  BY <1>26 DEF ReadToken, Go
<1>27. ASSUME NEW a \in Attempt, Poll(a) PROVE FolderIsOurs'
  BY <1>27 DEF Poll, Close, Unlock, Go
<1>28. ASSUME NEW a \in Attempt, GiveUp(a) PROVE FolderIsOurs'
  BY <1>28 DEF GiveUp, Fail, Close, Unlock, Go
<1>29. ASSUME NEW a \in Attempt, Boot(a) PROVE FolderIsOurs'
  BY <1>29 DEF Boot, HasScript
<1>30. ASSUME NEW a \in Attempt, Exit(a) PROVE FolderIsOurs'
  BY <1>30 DEF Exit, Running
<1>31. ASSUME NEW a \in Attempt, Lose(a) PROVE FolderIsOurs'
  BY <1>31 DEF Lose, Go
<1>32. ASSUME NEW a \in Attempt, Cut(a) PROVE FolderIsOurs'
  BY <1>32 DEF Cut, Unlock, Go
<1>33. CASE UNCHANGED serverVars
  BY <1>33 DEF serverVars
<1>34. QED
  BY <1>1, <1>2, <1>3, <1>4, <1>5, <1>6, <1>7, <1>8, <1>9, <1>10, <1>11, <1>12,
    <1>13, <1>14, <1>15, <1>16, <1>17, <1>18, <1>19, <1>20, <1>21, <1>22, <1>23,
    <1>24, <1>25, <1>26, <1>27, <1>28, <1>29, <1>30, <1>31, <1>32, <1>33 DEF ServerNext,
    Install, Setup

\* A script that ends has put away what its attempt brought.
LEMMA FilesStep ==
    ASSUME ServerTypeOK, OwnFiles, NothingIsLeft, [ServerNext]_serverVars
    PROVE  (OwnFiles /\ NothingIsLeft)'
<1> USE AttemptAssumption DEF OwnFiles, NothingIsLeft, ServerTypeOK, Locked, Ended, files,
  results, run
<1>1. ASSUME NEW a \in Attempt, ProbeHost(a) PROVE (OwnFiles /\ NothingIsLeft)'
  BY <1>1 DEF ProbeHost, HasScript, Go
<1>2. ASSUME NEW a \in Attempt, Put(a) PROVE (OwnFiles /\ NothingIsLeft)'
  BY <1>2 DEF Put, Go
<1>3. ASSUME NEW a \in Attempt, PutFails(a) PROVE (OwnFiles /\ NothingIsLeft)'
  BY <1>3 DEF PutFails, Go
<1>4. ASSUME NEW a \in Attempt, Check(a) PROVE (OwnFiles /\ NothingIsLeft)'
  BY <1>4 DEF Check, Refuse, Close, Go
<1>5. ASSUME NEW a \in Attempt, Unpack(a) PROVE (OwnFiles /\ NothingIsLeft)'
  BY <1>5 DEF Unpack, Go
<1>6. ASSUME NEW a \in Attempt, UnpackFails(a) PROVE (OwnFiles /\ NothingIsLeft)'
  BY <1>6 DEF UnpackFails, Refuse, Close, Go
<1>7. ASSUME NEW a \in Attempt, Test(a) PROVE (OwnFiles /\ NothingIsLeft)'
  BY <1>7 DEF Test, HasScript, Go
<1>8. ASSUME NEW a \in Attempt, Remove(a) PROVE (OwnFiles /\ NothingIsLeft)'
  BY <1>8 DEF Remove, HasScript, Go
<1>9. ASSUME NEW a \in Attempt, Removed(a) PROVE (OwnFiles /\ NothingIsLeft)'
  BY <1>9 DEF Removed, Go
<1>10. ASSUME NEW a \in Attempt, Move(a) PROVE (OwnFiles /\ NothingIsLeft)'
  BY <1>10 DEF Move, Go
<1>11. ASSUME NEW a \in Attempt, MoveFails(a) PROVE (OwnFiles /\ NothingIsLeft)'
  BY <1>11 DEF MoveFails, Refuse, Close, Go
<1>12. ASSUME NEW a \in Attempt, Drop(a) PROVE (OwnFiles /\ NothingIsLeft)'
  BY <1>12 DEF Drop, Close, Go
<1>13. ASSUME NEW a \in Attempt, Lock(a) PROVE (OwnFiles /\ NothingIsLeft)'
  BY <1>13 DEF Lock, Go
<1>14. ASSUME NEW a \in Attempt, LockFails(a) PROVE (OwnFiles /\ NothingIsLeft)'
  BY <1>14 DEF LockFails, Close, Go
<1>15. ASSUME NEW a \in Attempt, MakeFolder(a) PROVE (OwnFiles /\ NothingIsLeft)'
  BY <1>15 DEF MakeFolder, Go
<1>16. ASSUME NEW a \in Attempt, MakeFolderFails(a) PROVE (OwnFiles /\ NothingIsLeft)'
  BY <1>16 DEF MakeFolderFails, Fail, Close, Unlock, Go
<1>17. ASSUME NEW a \in Attempt, LookForScript(a) PROVE (OwnFiles /\ NothingIsLeft)'
  BY <1>17 DEF LookForScript, HasScript, Go
<1>18. ASSUME NEW a \in Attempt, Download(a) PROVE (OwnFiles /\ NothingIsLeft)'
  BY <1>18 DEF Download, Go
<1>19. ASSUME NEW a \in Attempt, DownloadFails(a) PROVE (OwnFiles /\ NothingIsLeft)'
  BY <1>19 DEF DownloadFails, Fail, Close, Unlock, Go
<1>20. ASSUME NEW a \in Attempt, Extract(a) PROVE (OwnFiles /\ NothingIsLeft)'
  BY <1>20 DEF Extract, Go
<1>21. ASSUME NEW a \in Attempt, ExtractFails(a) PROVE (OwnFiles /\ NothingIsLeft)'
  BY <1>21 DEF ExtractFails, Fail, Close, Unlock, Go
<1>22. ASSUME NEW a \in Attempt, Find(a) PROVE (OwnFiles /\ NothingIsLeft)'
  BY <1>22 DEF Find, Found, Running, Go
<1>23. ASSUME NEW a \in Attempt, Reset(a) PROVE (OwnFiles /\ NothingIsLeft)'
  BY <1>23 DEF Reset, Go
<1>24. ASSUME NEW a \in Attempt, Launch(a) PROVE (OwnFiles /\ NothingIsLeft)'
  BY <1>24 DEF Launch, Go
<1>25. ASSUME NEW a \in Attempt, NotePid(a) PROVE (OwnFiles /\ NothingIsLeft)'
  BY <1>25 DEF NotePid, Go
<1>26. ASSUME NEW a \in Attempt, ReadToken(a) PROVE (OwnFiles /\ NothingIsLeft)'
  BY <1>26 DEF ReadToken, Go
<1>27. ASSUME NEW a \in Attempt, Poll(a) PROVE (OwnFiles /\ NothingIsLeft)'
  BY <1>27 DEF Poll, Close, Unlock, Go
<1>28. ASSUME NEW a \in Attempt, GiveUp(a) PROVE (OwnFiles /\ NothingIsLeft)'
  BY <1>28 DEF GiveUp, Fail, Close, Unlock, Go
<1>29. ASSUME NEW a \in Attempt, Boot(a) PROVE (OwnFiles /\ NothingIsLeft)'
  BY <1>29 DEF Boot, HasScript
<1>30. ASSUME NEW a \in Attempt, Exit(a) PROVE (OwnFiles /\ NothingIsLeft)'
  BY <1>30 DEF Exit, Running
<1>31. ASSUME NEW a \in Attempt, Lose(a) PROVE (OwnFiles /\ NothingIsLeft)'
  BY <1>31 DEF Lose, Go
<1>32. ASSUME NEW a \in Attempt, Cut(a) PROVE (OwnFiles /\ NothingIsLeft)'
  BY <1>32 DEF Cut, Unlock, Go
<1>33. CASE UNCHANGED serverVars
  BY <1>33 DEF serverVars
<1>34. QED
  BY <1>1, <1>2, <1>3, <1>4, <1>5, <1>6, <1>7, <1>8, <1>9, <1>10, <1>11, <1>12,
    <1>13, <1>14, <1>15, <1>16, <1>17, <1>18, <1>19, <1>20, <1>21, <1>22, <1>23,
    <1>24, <1>25, <1>26, <1>27, <1>28, <1>29, <1>30, <1>31, <1>32, <1>33 DEF ServerNext,
    Install, Setup

-----------------------------------------------------------------------------
(* The theorems                                                             *)

ServerIInv ==
    /\ ServerTypeOK /\ LockIsHeld /\ ServerIsKnown /\ StartedOnce /\ TokensFit
    /\ FolderIsOurs /\ OwnFiles /\ NothingIsLeft

LEMMA InitInv == ServerInit => ServerIInv
<1>1. ServerInit => ServerTypeOK
  BY InitTyped
<1>2. ServerInit => LockIsHeld /\ ServerIsKnown /\ StartedOnce /\ TokensFit
  BY AttemptAssumption
     DEF ServerInit, LockIsHeld, ServerIsKnown, StartedOnce, TokensFit, Running, Locked
<1>3. ServerInit => FolderIsOurs /\ OwnFiles /\ NothingIsLeft
  BY DEF ServerInit, FolderIsOurs, OwnFiles, NothingIsLeft, Locked, Replacing, Ended
<1>4. QED
  BY <1>1, <1>2, <1>3 DEF ServerIInv

LEMMA Inductive == ServerIInv /\ [ServerNext]_serverVars => ServerIInv'
BY TypeStep, LockStep, ServerStep, StartStep, TokenStep, FolderStep, FilesStep DEF ServerIInv

LEMMA ServerInvariance == ServerSpec => []ServerIInv
BY InitInv, Inductive, PTL DEF ServerSpec

\* The attempts and the host are well typed.
THEOREM ServerTypeCorrect == ServerSpec => []ServerTypeOK
BY ServerInvariance, PTL DEF ServerIInv

\* On a host with flock, at most one server of a commit runs.
THEOREM OneServerRuns == ServerSpec => []OneServer
<1>1. ServerIInv => OneServer
  BY DEF ServerIInv, ServerIsKnown, OneServer
<1>2. QED
  BY <1>1, ServerInvariance, PTL

\* On a host with flock, an attempt that succeeded has the token of its server.
THEOREM TokensAreTrue == ServerSpec => []TokenFits
<1>1. ServerIInv => TokenFits
  BY AttemptAssumption DEF ServerIInv, TokensFit, TokenFits, Booted
<1>2. QED
  BY <1>1, ServerInvariance, PTL

\* On a host with flock, no token is replaced under a server that runs.
THEOREM TokensAreKept == ServerSpec => TokenIsKept
<1>1. ASSUME ServerIInv, [ServerNext]_serverVars, HasFlock, \E s \in Attempt : Running(s)
      PROVE  tokenFile' = tokenFile
  <2>1. ASSUME NEW a \in Attempt, Reset(a) PROVE FALSE
    BY <1>1, <2>1 DEF ServerIInv, ServerIsKnown, Reset
  <2>2. ASSUME NEW a \in Attempt, Install(a) \/ ProbeHost(a) \/ Boot(a) \/ Exit(a) \/ Lose(a) \/ Cut(a)
        PROVE  tokenFile' = tokenFile
    BY <2>2 DEF Install, Put, Go, PutFails, Check, Refuse, Close, Unpack,
      UnpackFails, Test, HasScript, Remove, Removed, Move, MoveFails, Drop, ProbeHost,
      Boot, Exit, Running, Lose, Cut, Unlock, files, results, run
  <2>3. ASSUME NEW a \in Attempt, Setup(a) PROVE tokenFile' = tokenFile
    BY <2>1, <2>3 DEF Setup, Lock, Go, LockFails, Close, MakeFolder, MakeFolderFails,
      Fail, Unlock, LookForScript, HasScript, Download, DownloadFails, Extract,
      ExtractFails, Find, Found, Running, Launch, NotePid, ReadToken, Poll, GiveUp,
      files, results, run
  <2>4. CASE UNCHANGED serverVars
    BY <2>4 DEF serverVars, run
  <2>5. QED
    BY <1>1, <2>2, <2>3, <2>4 DEF ServerNext
<1>2. ServerIInv /\ [ServerNext]_serverVars => [HasFlock /\ (\E s \in Attempt : Running(s)) => tokenFile' = tokenFile]_serverVars
  BY <1>1
<1>3. QED
  BY <1>2, ServerInvariance, PTL DEF ServerSpec, TokenIsKept

\* Whatever fails in front of the user, no upload and no unpacked copy stays next to
\* the folder.
THEOREM NoLeftovers == ServerSpec => []NothingIsLeft
BY ServerInvariance, PTL DEF ServerIInv

\* The folder is complete or absent as long as no two scripts fill it at a time.
THEOREM FolderIsWhole == ServerSpec => []WholeWhileAlone
<1>1. ServerIInv => WholeWhileAlone
  BY AttemptAssumption DEF ServerIInv, FolderIsOurs, WholeWhileAlone, Locked
<1>2. QED
  BY <1>1, ServerInvariance, PTL

=============================================================================
