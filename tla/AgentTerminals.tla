--------------------------- MODULE AgentTerminals ---------------------------
(***************************************************************************)
(* Agents in integrated terminals: the registry of sessions                *)
(* (model/registry.ts, model/session.ts) as host/terminals.ts drives it.   *)
(*                                                                         *)
(* The extension learns about a terminal from messages of the editor,      *)
(* which come late but in order, and from the output of its shells.  While *)
(* it waits for a shell to read a command line, for the user to pick a     *)
(* terminal from a list, for process ids or for terminals to come back     *)
(* after a reload, everything else goes on.                                *)
(*                                                                         *)
(* Shells, their jobs and what the user types are the environment.         *)
(***************************************************************************)
EXTENDS Naturals, Sequences, FiniteSets

CONSTANTS
    Id,              \* sessions that may be there at once
    Terminal,        \* terminals that may be there at once; each has a process id
    NoCard, NoTerminal, NoExecution, NotWaiting,
    MaxLoad,         \* bound: sessions, command lines and the list at once
    MaxReloads       \* bound: reloads of the window

ASSUME BoundAssumption ==
    /\ MaxLoad \in Nat \ {0}
    /\ MaxReloads \in Nat
    /\ IsFiniteSet(Id)
    /\ NoTerminal \notin Terminal
    /\ NotWaiting \notin Terminal \cup {NoTerminal}
    /\ NoExecution \notin 0..MaxLoad

VARIABLES
    sessions,    \* what registry and terminals keep of a session, by id
    attaching,   \* terminals that are asked for their process id after a reload
    offered,     \* terminals that the list offers which the user picks one from
    terminals,   \* the terminals, with their shells and what is on its way
    reloads

vars == <<sessions, attaching, offered, terminals, reloads>>

Execution == 1..MaxLoad
Inside    == 0        \* one of a shell inside a shell

-----------------------------------------------------------------------------
(* Cards: the reducer of model/session.ts *)

Live  == {"starting", "working", "waiting"}

Card == [state : Live \cup {"finished", "closed"}, attention : BOOLEAN, gone : BOOLEAN]

ASSUME CardAssumption == NoCard \notin Card

NewCard == [state |-> "starting", attention |-> FALSE, gone |-> FALSE]

IsLive(c) == c # NoCard /\ c.state \in Live

Started(c) == IF c.state = "starting" THEN [c EXCEPT !.state = "working"] ELSE c

\* Only what changes is news, and only waiting is.
Active(c, activity) ==
    IF ~IsLive(c) \/ c.state = activity THEN c
    ELSE [c EXCEPT !.state = activity, !.attention = (activity = "waiting")]

\* The exit code only tells "finished" from "failed": the former stands for both.
Exited(c) ==
    IF ~IsLive(c) THEN c
    ELSE [c EXCEPT !.state = "finished", !.attention = TRUE]

ClosedForgetsResult(c) == [c EXCEPT !.state = "closed", !.gone = TRUE]

ClosedOnlyIfRunning(c) ==
    IF c.state = "starting" THEN [c EXCEPT !.gone = TRUE] ELSE [c EXCEPT !.state = "closed", !.gone = TRUE]

Closed(c) ==
    CASE c.gone                -> c
      [] ~c.gone /\ IsLive(c)  -> [state |-> "closed", attention |-> FALSE, gone |-> TRUE]
      [] OTHER                 -> [c EXCEPT !.gone = TRUE]

-----------------------------------------------------------------------------
(* What is kept of a session *)

\* late: its terminal was picked when it had closed, or was another session's.
NoSession ==
    [card |-> NoCard, terminal |-> NoTerminal, execution |-> NoExecution,
     pending |-> FALSE, awaits |-> NotWaiting, late |-> FALSE]

Unbind(s) == [NoSession EXCEPT !.card = s.card]

SessionsOf(t) == {i \in Id : sessions[i].terminal = t}

\* The one that what a terminal tells is for: the first that was bound to it.
Told(t) ==
    {i \in SessionsOf(t) : sessions[i].late => \A j \in SessionsOf(t) : sessions[j].late}

\* All sessions whose terminal is still being looked for.
Unattached == {i \in Id : sessions[i].awaits # NotWaiting}

HasNews(s) == s.card # NoCard /\ s.card.attention

\* What every change of the registry leads to: a card whose terminal is the one
\* in view has been seen.
Changes(new) ==
    \E view \in {NoTerminal} \cup {new[i].terminal : i \in {j \in Id : HasNews(new[j])}} :
       sessions' = [i \in Id |->
          IF HasNews(new[i]) /\ view # NoTerminal /\ new[i].terminal = view
          THEN [new[i] EXCEPT !.card.attention = FALSE] ELSE new[i]]

-----------------------------------------------------------------------------
(* Terminals and their shells *)

\* Whether the editor will ever know its shell ("integrated") is open.
NewTerminal ==
    [status |-> "open", integrated |-> FALSE, running |-> NoExecution, queue |-> <<>>,
     ended |-> NoExecution]

ClosedTerminal == [NewTerminal EXCEPT !.status = "closed"]

\* Disposed, or closed by the user: the extension hears of it last.
Closing(term) ==
    IF term.status # "open" THEN term
    ELSE [term EXCEPT !.status = "closing", !.running = NoExecution, !.queue = <<>>]

\* A terminal that is gone and that nothing refers to stands for a new one.
Unused(t) ==
    /\ terminals[t] = ClosedTerminal
    /\ t \notin offered
    /\ \A i \in Id : t \notin {sessions[i].terminal, sessions[i].awaits}

Elements(seq) == {seq[k] : k \in DOMAIN seq}

JobsOf(t) == ({terminals[t].running, terminals[t].ended} \ {NoExecution})
             \cup Elements(terminals[t].queue)

Jobs == UNION {JobsOf(t) : t \in Terminal}

\* An execution that no job, message or session refers to.
NewExecution == CHOOSE e \in Execution \ (Jobs \cup {sessions[i].execution : i \in Id}) : TRUE

\* A command line goes to a shell; one that is closing never reads it.
Enqueue(term, e) ==
    IF term.status = "open" THEN [term EXCEPT !.queue = Append(@, e)] ELSE term

HasRoom ==
    Cardinality(Jobs) + Cardinality({i \in Id : sessions[i].card # NoCard})
       + (IF offered = {} THEN 0 ELSE 1) < MaxLoad

UserOpens(t) ==
    /\ Unused(t)
    /\ terminals' = [terminals EXCEPT ![t] = NewTerminal]

\* The editor knows the shell: it reports executions and takes command lines.
Integrate(t) ==
    /\ terminals[t].status = "open"
    /\ ~terminals[t].integrated
    /\ terminals' = [terminals EXCEPT ![t].integrated = TRUE]

UserTypes(t) ==
    /\ terminals[t].status = "open"
    /\ HasRoom
    /\ terminals' = [terminals EXCEPT ![t] = Enqueue(@, NewExecution)]

\* A job is over; the message about it is on its way.
ShellEnds(t) ==
    /\ terminals[t].running # NoExecution
    /\ terminals[t].ended = NoExecution
    /\ terminals' = [terminals EXCEPT ![t].running = NoExecution,
                                      ![t].ended = terminals[t].running]

UserCloses(t) ==
    /\ terminals[t].status = "open"
    /\ terminals' = [terminals EXCEPT ![t] = Closing(@)]

Environment(t) ==
    /\ \/ UserOpens(t) \/ Integrate(t) \/ UserTypes(t)
       \/ ShellEnds(t) \/ UserCloses(t)
    /\ UNCHANGED <<sessions, attaching, offered, reloads>>

-----------------------------------------------------------------------------
(* Starting and adopting *)

\* A command line that waits for the shell of a new terminal.
Launched(s, t) == [s EXCEPT !.card = NewCard, !.terminal = t, !.pending = TRUE]

Start(i, t) ==
    /\ sessions[i] = NoSession
    /\ HasRoom
    /\ UserOpens(t)
    /\ Changes([sessions EXCEPT ![i] = Launched(@, t)])
    /\ UNCHANGED <<attaching, offered, reloads>>

\* run: the shell integration of the terminal takes the command line.
ExecuteCommand(i) ==
    LET t == sessions[i].terminal IN
    /\ sessions[i].pending
    /\ terminals[t].integrated
    /\ HasRoom
    /\ LET e == NewExecution
       IN  /\ sessions' = [sessions EXCEPT ![i].execution = e, ![i].pending = FALSE]
           /\ terminals' = [terminals EXCEPT ![t] = Enqueue(@, e)]
    /\ UNCHANGED <<attaching, offered, reloads>>

\* run: without it the command line is typed, into a shell that reads one, or
\* that nothing is known of for too long.
TypeCommand(i) ==
    LET t == sessions[i].terminal IN
    /\ sessions[i].pending
    /\ ~terminals[t].integrated
    /\ HasRoom
    /\ terminals' = [terminals EXCEPT ![t] = Enqueue(@, NewExecution)]
    /\ Changes([sessions EXCEPT ![i].pending = FALSE, ![i].card = Started(@)])
    /\ UNCHANGED <<attaching, offered, reloads>>

IsFree(t) == terminals[t].status # "closed" /\ SessionsOf(t) = {}

Adopted(t, e) == [NoSession EXCEPT !.card = Started(NewCard), !.terminal = t, !.execution = e]

\* The list is of the terminals that are free when it opens.
AdoptPick ==
    /\ \E t \in Terminal : IsFree(t)
    /\ offered = {} => HasRoom
    /\ offered' = {t \in Terminal : IsFree(t)}
    /\ UNCHANGED <<sessions, attaching, terminals, reloads>>

LeavePick ==
    /\ offered # {}
    /\ offered' = {}
    /\ UNCHANGED <<sessions, attaching, terminals, reloads>>

\* What became of the terminal since is not looked at.
PickTerminal(i, t) ==
    /\ t \in offered
    /\ sessions[i] = NoSession
    /\ offered' = {}
    /\ Changes([sessions EXCEPT ![i] =
                    [Adopted(t, NoExecution) EXCEPT !.late = ~IsFree(t)]])
    /\ UNCHANGED <<attaching, terminals, reloads>>

-----------------------------------------------------------------------------
(* Actions of the user *)

Focus(i) ==
    /\ HasNews(sessions[i])
    /\ Changes([sessions EXCEPT ![i].card.attention = FALSE])
    /\ UNCHANGED <<attaching, offered, terminals, reloads>>

\* Pressed again while it is armed, which the first press is for ten seconds:
\* the terminal closes.  Interrupting is one of the things that end a job.
Stop(i) ==
    /\ sessions[i].terminal # NoTerminal
    /\ terminals[sessions[i].terminal].status = "open"
    /\ terminals' = [terminals EXCEPT ![sessions[i].terminal] = Closing(@)]
    /\ UNCHANGED <<sessions, attaching, offered, reloads>>

CanReuse(s) ==
    s.terminal # NoTerminal /\ ~IsLive(s.card) /\ terminals[s.terminal].integrated

\* In its terminal when it is over and the shell is back.
RestartThere(i) ==
    LET t == sessions[i].terminal IN
    /\ sessions[i].card # NoCard
    /\ CanReuse(sessions[i])
    /\ HasRoom
    /\ LET e == NewExecution
       IN  /\ Changes([sessions EXCEPT ![i].card = NewCard, ![i].execution = e])
           /\ terminals' = [terminals EXCEPT ![t] = Enqueue(@, e)]
    /\ UNCHANGED <<attaching, offered, reloads>>

\* In a new one otherwise.  A terminal that did not come back yet is not one.
RestartInNew(i, t) ==
    LET s == sessions[i] IN
    /\ s.card # NoCard
    /\ ~CanReuse(s)
    /\ Unused(t)
    /\ terminals' = [u \in Terminal |-> CASE u = t          -> NewTerminal
                                          [] u = s.terminal -> Closing(terminals[u])
                                          [] OTHER          -> terminals[u]]
    /\ Changes([sessions EXCEPT ![i] =
          Launched(IF s.terminal # NoTerminal THEN Unbind(s)
                   ELSE [s EXCEPT !.execution = NoExecution], t)])
    /\ UNCHANGED <<attaching, offered, reloads>>

\* Its terminal stays.
Dismiss(i) ==
    /\ sessions[i].card # NoCard
    /\ sessions' = [sessions EXCEPT ![i] = [Unbind(@) EXCEPT !.card = NoCard]]
    /\ UNCHANGED <<attaching, offered, terminals, reloads>>

ClearEnded ==
    LET over == {i \in Id : sessions[i].card # NoCard /\ ~IsLive(sessions[i].card)} IN
    /\ over # {}
    /\ sessions' = [i \in Id |-> IF i \in over THEN [Unbind(sessions[i]) EXCEPT !.card = NoCard]
                                ELSE sessions[i]]
    /\ UNCHANGED <<attaching, offered, terminals, reloads>>

-----------------------------------------------------------------------------
(* What the editor tells *)

\* In a terminal that the editor knows the shell of.
StartOf(s, e, isAgent) ==
    CASE s.card.state = "starting"     -> [s EXCEPT !.card = Started(@), !.execution = e]
      [] ~IsLive(s.card) /\ isAgent    -> [s EXCEPT !.card = Started(NewCard), !.execution = e]
      [] OTHER                         -> s

EndOfAny(s, e) ==
    IF IsLive(s.card) THEN [s EXCEPT !.execution = NoExecution, !.card = Exited(@)]
    ELSE s

EndOf(s, e) ==
    IF s.card.state \in {"working", "waiting"} /\ s.execution \in {NoExecution, e}
    THEN [s EXCEPT !.execution = NoExecution, !.card = Exited(@)]
    ELSE s

\* The output tells too, where the shell marks its commands or where it is.
MarkC(s) == [s EXCEPT !.card = Started(@)]

MarkD(s) ==
    IF s.card.state \in {"working", "waiting"} THEN [s EXCEPT !.card = Exited(@)] ELSE s

\* Of any command, whichever shell in the terminal runs it.
Output(t) ==
    /\ terminals[t].status # "closed"
    /\ \E i \in Told(t) :
          /\ IsLive(sessions[i].card)
          /\ \/ Changes([sessions EXCEPT ![i] = MarkC(@)])
             \/ Changes([sessions EXCEPT ![i] = MarkD(@)])
    /\ UNCHANGED <<attaching, offered, terminals, reloads>>

\* The editor tells that e started in t, if it knows the shell.
Hears(t, e) ==
    \/ /\ terminals[t].integrated
       /\ \E i \in Told(t), isAgent \in BOOLEAN :
             Changes([sessions EXCEPT ![i] = StartOf(@, e, isAgent)])
    \/ /\ terminals[t].integrated
       /\ SessionsOf(t) = {}
       /\ \E i \in Id : /\ sessions[i] = NoSession
                        /\ HasRoom
                        /\ Changes([sessions EXCEPT ![i] = Adopted(t, e)])
    \/ \* no agent
       /\ ~terminals[t].integrated \/ SessionsOf(t) = {}
       /\ UNCHANGED sessions

\* The next command line runs.  What ended before it has been told before.
OnDidStartExecution(t) ==
    LET e == Head(terminals[t].queue) IN
    /\ terminals[t].running = NoExecution
    /\ terminals[t].queue # <<>>
    /\ terminals[t].ended = NoExecution
    /\ terminals' = [terminals EXCEPT ![t].running = e, ![t].queue = Tail(@)]
    /\ Hears(t, e)
    /\ UNCHANGED <<attaching, offered, reloads>>

\* Something else starts and ends while the agent runs, in a shell of its own:
\* its start is ignored.
OnDidExecuteInside(t) ==
    /\ terminals[t].running # NoExecution
    /\ terminals[t].integrated
    /\ \E i \in Told(t) :
          /\ sessions[i].card.state \in {"working", "waiting"}
          /\ Changes([sessions EXCEPT ![i] = EndOf(@, Inside)])
    /\ UNCHANGED <<attaching, offered, terminals, reloads>>

OnDidEndExecution(t) ==
    LET e == terminals[t].ended IN
    /\ e # NoExecution
    /\ terminals' = [terminals EXCEPT ![t].ended = NoExecution]
    /\ \/ /\ terminals[t].integrated
          /\ \E i \in Told(t) : Changes([sessions EXCEPT ![i] = EndOf(@, e)])
       \/ /\ ~terminals[t].integrated \/ SessionsOf(t) = {}
          /\ UNCHANGED sessions
    /\ UNCHANGED <<attaching, offered, reloads>>

WithoutTerminal(s) == [Unbind(s) EXCEPT !.card = Closed(s.card)]

OnDidCloseTerminal(t) ==
    /\ terminals[t].status = "closing"
    /\ terminals[t].ended = NoExecution
    /\ terminals' = [terminals EXCEPT ![t] = ClosedTerminal]
    /\ \/ \E i \in Told(t) :
             Changes([sessions EXCEPT ![i] = WithoutTerminal(@)])
       \/ SessionsOf(t) = {} /\ UNCHANGED sessions
    /\ attaching' = attaching \ {t}
    /\ UNCHANGED <<offered, reloads>>

\* A bell, a notification, or a silence that is long: the agent waits.
Waits(i) ==
    /\ sessions[i].card # NoCard
    /\ sessions[i].card.state = "working"
    /\ Changes([sessions EXCEPT ![i].card = Active(@, "waiting")])
    /\ UNCHANGED <<attaching, offered, terminals, reloads>>

\* Output for long enough: it goes on.
GoesOn(i) ==
    /\ sessions[i].terminal # NoTerminal
    /\ terminals[sessions[i].terminal].status # "closed"
    /\ i \in Told(sessions[i].terminal)
    /\ sessions[i].card.state = "waiting"
    /\ sessions' = [sessions EXCEPT ![i].card = Active(@, "working")]
    /\ UNCHANGED <<attaching, offered, terminals, reloads>>

-----------------------------------------------------------------------------
(* Window reload *)

\* dispose persists, restore reads it.  A process id is persisted if the editor
\* has told it by then.
Reload ==
    /\ reloads < MaxReloads
    /\ reloads' = reloads + 1
    /\ \E known \in SUBSET {i \in Id : sessions[i].terminal # NoTerminal} :
          sessions' = [i \in Id |->
             LET s == sessions[i] IN
             IF s.card = NoCard THEN NoSession
             ELSE [NoSession EXCEPT !.card = s.card, !.awaits =
                      IF s.card.gone THEN NotWaiting
                      ELSE IF s.awaits # NotWaiting THEN s.awaits
                      ELSE IF i \in known THEN s.terminal ELSE NoTerminal]]
    /\ terminals' = [t \in Terminal |-> IF terminals[t].status = "open"
                                        THEN [terminals[t] EXCEPT !.ended = NoExecution]
                                        ELSE ClosedTerminal]
    /\ attaching' = {t \in Terminal : terminals'[t].status = "open"
                                      /\ \E i \in Id : sessions'[i].awaits = t}
    /\ offered' = {}

\* attach, when the process id is there.
Attach(t) ==
    /\ t \in attaching
    /\ attaching' = attaching \ {t}
    /\ \/ \E i \in Id :
             /\ SessionsOf(t) = {}
             /\ sessions[i].awaits = t
             /\ Changes([sessions EXCEPT ![i].awaits = NotWaiting, ![i].terminal = t,
                                         ![i].pending = FALSE])
       \/ /\ SessionsOf(t) # {} \/ \A i \in Id : sessions[i].awaits # t
          /\ UNCHANGED sessions
    /\ UNCHANGED <<offered, terminals, reloads>>

\* What did not come back in time is gone.  The timer fires once, which has an
\* effect only while a session waits, and none waits but after a reload.
GiveUp ==
    /\ Unattached # {}
    /\ Changes([i \in Id |-> IF i \in Unattached
                             THEN [sessions[i] EXCEPT !.awaits = NotWaiting, !.card = Closed(@)]
                             ELSE sessions[i]])
    /\ UNCHANGED <<attaching, offered, terminals, reloads>>

-----------------------------------------------------------------------------
Init ==
    /\ sessions = [i \in Id |-> NoSession]
    /\ terminals = [t \in Terminal |-> ClosedTerminal]
    /\ attaching = {}
    /\ offered = {}
    /\ reloads = 0

Next ==
    \/ \E t \in Terminal : \/ Environment(t)
                           \/ OnDidStartExecution(t)
                           \/ OnDidExecuteInside(t)
                           \/ OnDidEndExecution(t)
                           \/ OnDidCloseTerminal(t)
                           \/ Output(t)
                           \/ Attach(t)
    \/ \E i \in Id : \/ ExecuteCommand(i) \/ TypeCommand(i)
                     \/ Focus(i) \/ Stop(i)
                     \/ RestartThere(i) \/ Dismiss(i) \/ Waits(i) \/ GoesOn(i)
    \/ \E i \in Id, t \in Terminal : Start(i, t) \/ PickTerminal(i, t) \/ RestartInNew(i, t)
    \/ AdoptPick \/ LeavePick \/ ClearEnded \/ Reload \/ GiveUp

Spec == Init /\ [][Next]_vars

-----------------------------------------------------------------------------
(* What is expected *)

\* Sessions and terminals keep their types; only a session with a terminal has
\* a command line that waits.
TypeOK ==
    /\ \A i \in Id :
          LET s == sessions[i] IN
          /\ s.card \in Card \cup {NoCard}
          /\ s.terminal \in Terminal \cup {NoTerminal}
          /\ s.execution \in Execution \cup {Inside, NoExecution}
          /\ s.pending \in BOOLEAN
          /\ s.pending => s.terminal # NoTerminal
          /\ s.awaits \in Terminal \cup {NoTerminal, NotWaiting}
          /\ s.late \in BOOLEAN
          /\ s.card = NoCard => s = NoSession
    /\ \A t \in Terminal :
          LET term == terminals[t] IN
          /\ term.status \in {"open", "closing", "closed"}
          /\ term.integrated \in BOOLEAN
          /\ {term.running, term.ended} \subseteq Execution \cup {NoExecution}
          /\ Elements(term.queue) \subseteq Execution
    /\ attaching \cup offered \subseteq Terminal
    /\ reloads \in 0..MaxReloads

\* A card that says that its agent may still be running has a terminal that is
\* not known to be gone, or still waits for the one of before the reload: it
\* never stays alive with nothing that could end it.  The exception is a session
\* that was given a terminal which had closed, or had become another session's,
\* while the list was open it was picked from.
LiveIsReachable ==
    \A i \in Id : IsLive(sessions[i].card) =>
       \/ sessions[i].awaits # NotWaiting
       \/ /\ sessions[i].terminal # NoTerminal
          /\ terminals[sessions[i].terminal].status # "closed"
       \/ sessions[i].late

\* While the execution that a card follows runs or waits in its terminal, the
\* card neither finishes nor closes, whatever else ends there, the run before
\* included.  Two things may end it all the same: the output of the terminal,
\* which marks the end of any command, and that a terminal of before a reload
\* is given up which the session still waits for.
SurvivesOtherEnds ==
    [][\A i \in Id :
          LET s == sessions[i]
              c == sessions'[i].card
          IN  /\ IsLive(s.card)
              /\ c # NoCard
              /\ ~IsLive(c)
              /\ s.terminal # NoTerminal
              /\ s.execution \in JobsOf(s.terminal) \ {terminals[s.terminal].ended}
              => s.awaits # NotWaiting \/ Output(s.terminal)]_vars

\* Every card keeps the promises of AgentSession.
OfCard(i) == INSTANCE AgentSession WITH card <- sessions[i].card

CardsKeepPromises ==
    /\ \A i \in Id : OfCard(i)!Init
    /\ [][\A i \in Id : UNCHANGED sessions[i].card \/ OfCard(i)!Next]_vars
=============================================================================
