---------------------------- MODULE SessionsProofs ----------------------------
(***************************************************************************)
(* The sessions of agents and the view that lists them, for any number of  *)
(* sessions, terminals and reloads.  A card keeps the promises of          *)
(* AgentSession, never stays alive with nothing that could end it unless   *)
(* its terminal was picked too late, and is never ended by what else ends  *)
(* in its terminal; the tab stop of the page is always one of its cards,   *)
(* and the focus is nowhere else.                                          *)
(***************************************************************************)
EXTENDS AgentTerminals, AgentsView, FiniteSetTheorems, TLAPS

Session ==
    [card : Card \cup {NoCard}, terminal : Terminal \cup {NoTerminal},
     execution : Execution \cup {Inside, NoExecution}, pending : BOOLEAN,
     awaits : Terminal \cup {NoTerminal, NotWaiting}, late : BOOLEAN]

Shell ==
    [status : {"open", "closing", "closed"}, integrated : BOOLEAN,
     running : Execution \cup {NoExecution}, queue : Seq(Execution),
     ended : Execution \cup {NoExecution}]

\* What a card never says: that it is alive without a terminal, or starts with news.
CardIsSane(c) ==
    c # NoCard => /\ IsLive(c) => ~c.gone
                  /\ c.state = "starting" => ~c.attention

SessionIsSane(s) ==
    /\ s \in Session
    /\ s.pending => s.terminal # NoTerminal
    /\ s.card = NoCard => s = NoSession
    /\ CardIsSane(s.card)

\* Something could end it, or its terminal was picked too late.
IsReachable(s, terms) ==
    IsLive(s.card) =>
       \/ s.awaits # NotWaiting
       \/ s.terminal # NoTerminal /\ terms[s.terminal].status # "closed"
       \/ s.late

SessionsAreSane ==
    /\ sessions = [i \in Id |-> sessions[i]]
    /\ \A i \in Id : SessionIsSane(sessions[i])
SessionsAreReachable == \A i \in Id : IsReachable(sessions[i], terminals)

\* Of the sessions that share a terminal all but one were given it too late.
OneSessionEach ==
    \A i, j \in Id :
       /\ sessions[i].terminal = sessions[j].terminal /\ sessions[i].terminal # NoTerminal
       /\ ~sessions[i].late /\ ~sessions[j].late
       => i = j

\* A closed terminal has forgotten everything, and one that closes runs nothing more.
ShellIsSane(term) ==
    /\ term \in Shell
    /\ term.status = "closed" => term = ClosedTerminal
    /\ term.status # "open" => term.running = NoExecution /\ term.queue = <<>>

ShellsAreSane ==
    /\ terminals = [t \in Terminal |-> terminals[t]]
    /\ \A t \in Terminal : ShellIsSane(terminals[t])

AttachingIsOpen ==
    /\ attaching \subseteq Terminal
    /\ \A t \in attaching : terminals[t].status # "closed"

IInv ==
    /\ SessionsAreSane
    /\ SessionsAreReachable
    /\ OneSessionEach
    /\ ShellsAreSane
    /\ AttachingIsOpen
    /\ offered \subseteq Terminal
    /\ reloads \in 0..MaxReloads

-----------------------------------------------------------------------------
(* Lemmas about shells                                                      *)

\* What a queue of command lines has, and has after it was read or written.
LEMMA ElementsOfQueue ==
    ASSUME NEW q \in Seq(Execution)
    PROVE  /\ Elements(q) \subseteq Execution
           /\ \A e \in Execution : Append(q, e) \in Seq(Execution)
           /\ q # <<>> => Head(q) \in Execution /\ Tail(q) \in Seq(Execution)
BY DEF Elements

\* Where there is room, an execution is there that nothing refers to.
LEMMA NewExecutionIsOne ==
    ASSUME SessionsAreSane, ShellsAreSane, HasRoom
    PROVE  NewExecution \in Execution
<1> DEFINE Cards  == {i \in Id : sessions[i].card # NoCard}
           Used   == {sessions[i].execution : i \in Id}
           Run    == {sessions[i].execution : i \in Cards} \cap Execution
           Busy   == {i \in Cards : sessions[i].execution \in Execution}
<1>1. Jobs \subseteq Execution
  <2>1. \A t \in Terminal : JobsOf(t) \subseteq Execution
    <3> TAKE t \in Terminal
    <3>1. terminals[t] \in Shell
      BY DEF ShellsAreSane, ShellIsSane
    <3>2. Elements(terminals[t].queue) \subseteq Execution
      BY <3>1, ElementsOfQueue DEF Shell
    <3>3. QED
      BY <3>1, <3>2 DEF JobsOf, Shell
  <2>2. QED
    BY <2>1 DEF Jobs
<1>2. IsFiniteSet(Execution) /\ Cardinality(Execution) = MaxLoad /\ MaxLoad \in Nat
  BY FS_Interval, BoundAssumption DEF Execution
<1>3. IsFiniteSet(Jobs) /\ Cardinality(Jobs) \in Nat
  BY <1>1, <1>2, FS_Subset, FS_CardinalityType
<1>4. IsFiniteSet(Cards) /\ Cardinality(Cards) \in Nat
  BY FS_Subset, FS_CardinalityType, BoundAssumption
<1>5. IsFiniteSet(Run) /\ Cardinality(Run) \in Nat /\ Cardinality(Run) <= Cardinality(Cards)
  <2>1. IsFiniteSet(Busy) /\ Cardinality(Busy) \in Nat /\ Cardinality(Busy) <= Cardinality(Cards)
    BY <1>4, FS_Subset, FS_CardinalityType
  <2> DEFINE f == [i \in Busy |-> sessions[i].execution]
  <2>2. f \in Surjection(Busy, Run)
    BY DEF Surjection
  <2> HIDE DEF Run, Busy, Cards
  <2>3. IsFiniteSet(Run) /\ Cardinality(Run) <= Cardinality(Busy)
    BY <2>1, <2>2, FS_Surjection
  <2>4. Cardinality(Run) \in Nat
    BY <2>3, FS_CardinalityType
  <2>5. QED
    BY <1>4, <2>1, <2>3, <2>4
<1>6. Used \cap Execution \subseteq Run
  BY BoundAssumption DEF SessionsAreSane, SessionIsSane, NoSession, Execution
<1>7. IsFiniteSet(Jobs \cup Run) /\ Cardinality(Jobs \cup Run) <= Cardinality(Jobs) + Cardinality(Run)
  <2>1. Cardinality(Jobs \cap Run) \in Nat
    BY <1>3, FS_Intersection, FS_CardinalityType
  <2>2. QED
    BY <1>3, <1>5, <2>1, FS_Union
<1>8. Cardinality(Jobs \cup Run) < MaxLoad
  <2>1. Cardinality(Jobs) + Cardinality(Cards) < MaxLoad
    BY <1>2, <1>3, <1>4 DEF HasRoom
  <2>2. Cardinality(Jobs \cup Run) \in Nat
    BY <1>7, FS_CardinalityType
  <2>3. Cardinality(Jobs \cup Run) <= Cardinality(Jobs) + Cardinality(Cards)
    BY <2>2, <1>3, <1>4, <1>5, <1>7
  <2>4. QED
    BY <2>1, <2>2, <2>3, <1>2, <1>3, <1>4
<1>9. Execution \ (Jobs \cup Used) # {}
  <2>1. Execution # Jobs \cup Run
    BY <1>2, <1>8
  <2>2. Jobs \cup Run \subseteq Execution
    BY <1>1
  <2>3. QED
    BY <2>1, <2>2, <1>6
<1>10. QED
  BY <1>9 DEF NewExecution

\* A terminal that closes: `t` only, or none.
ClosesOnly(t) == \A u \in Terminal \ {t} : terminals'[u].status = "closed" => terminals[u].status = "closed"
ClosesNone    == \A u \in Terminal : terminals'[u].status = "closed" => terminals[u].status = "closed"

LEMMA OneShell ==
    ASSUME ShellsAreSane, NEW t \in Terminal, NEW shell, ShellIsSane(shell),
           terminals' = [terminals EXCEPT ![t] = shell]
    PROVE  /\ ShellsAreSane'
           /\ (shell.status = "closed" => terminals[t].status = "closed") => ClosesNone
           /\ \A u \in Terminal : terminals'[u] = IF u = t THEN shell ELSE terminals[u]
<1>1. \A u \in Terminal : terminals'[u] = IF u = t THEN shell ELSE terminals[u]
  BY DEF ShellsAreSane
<1>2. terminals' = [u \in Terminal |-> terminals'[u]]
  BY DEF ShellsAreSane
<1>3. QED
  BY <1>1, <1>2 DEF ShellsAreSane, ClosesNone

LEMMA SameShells ==
    ASSUME ShellsAreSane, UNCHANGED terminals
    PROVE  ShellsAreSane' /\ ClosesNone
BY DEF ShellsAreSane, ClosesNone

LEMMA EnqueuedShell ==
    ASSUME ShellsAreSane, NEW t \in Terminal, NEW e \in Execution,
           terminals' = [terminals EXCEPT ![t] = Enqueue(@, e)]
    PROVE  ShellsAreSane' /\ ClosesNone /\ terminals'[t].status = terminals[t].status
<1> DEFINE shell == Enqueue(terminals[t], e)
<1>1. ShellIsSane(terminals[t])
  BY DEF ShellsAreSane
<1>2. ShellIsSane(shell) /\ shell.status = terminals[t].status
  <2>1. CASE terminals[t].status = "open"
    <3>1. shell = [terminals[t] EXCEPT !.queue = Append(terminals[t].queue, e)]
      BY <2>1 DEF Enqueue
    <3>2. Append(terminals[t].queue, e) \in Seq(Execution)
      BY <1>1, ElementsOfQueue DEF ShellIsSane, Shell
    <3>3. QED
      BY <1>1, <2>1, <3>1, <3>2 DEF ShellIsSane, Shell
  <2>2. CASE terminals[t].status # "open"
    BY <1>1, <2>2 DEF Enqueue
  <2>3. QED
    BY <2>1, <2>2
<1>3. terminals' = [terminals EXCEPT ![t] = shell]
  OBVIOUS
<1> HIDE DEF shell
<1>4. QED
  BY <1>2, <1>3, OneShell

-----------------------------------------------------------------------------
(* Lemmas about sessions                                                    *)

\* A card that has been seen says the same as before, but for its news.
Same(r, s) == r = s \/ (HasNews(s) /\ r = [s EXCEPT !.card.attention = FALSE])

\* One session changes; of the others, some were seen.
Effect(i, r) ==
    /\ sessions' = [j \in Id |-> sessions'[j]]
    /\ Same(sessions'[i], r)
    /\ \A j \in Id \ {i} : Same(sessions'[j], sessions[j])

LEMMA ChangesSee ==
    ASSUME NEW new, Changes(new)
    PROVE  /\ sessions' = [j \in Id |-> sessions'[j]]
           /\ \A j \in Id : Same(sessions'[j], new[j])
BY DEF Changes, Same

LEMMA ChangesOne ==
    ASSUME SessionsAreSane, NEW i \in Id, NEW r, Changes([sessions EXCEPT ![i] = r])
    PROVE  Effect(i, r)
<1> DEFINE new == [sessions EXCEPT ![i] = r]
<1>1. new[i] = r /\ \A j \in Id \ {i} : new[j] = sessions[j]
  BY DEF SessionsAreSane
<1>2. Changes(new)
  OBVIOUS
<1> HIDE DEF new
<1>3. QED
  BY <1>1, <1>2, ChangesSee DEF Effect

LEMMA ChangedOne ==
    ASSUME SessionsAreSane, NEW i \in Id, NEW r, sessions' = [sessions EXCEPT ![i] = r]
    PROVE  Effect(i, r)
BY DEF SessionsAreSane, Effect, Same

LEMMA SeenIsSane ==
    ASSUME NEW s, SessionIsSane(s), NEW r, Same(r, s)
    PROVE  /\ SessionIsSane(r)
           /\ r.terminal = s.terminal /\ r.execution = s.execution /\ r.awaits = s.awaits
           /\ r.pending = s.pending /\ r.late = s.late /\ (r.card = NoCard <=> s.card = NoCard)
           /\ s.card # NoCard => r.card.state = s.card.state /\ r.card.gone = s.card.gone
           /\ \A terms : IsReachable(s, terms) => IsReachable(r, terms)
<1>1. CASE r = s
  BY <1>1
<1>2. CASE HasNews(s) /\ r = [s EXCEPT !.card.attention = FALSE]
  <2>1. s \in Session /\ s.card \in Card
    BY <1>2 DEF SessionIsSane, HasNews, Session
  <2>2. /\ r.card = [s.card EXCEPT !.attention = FALSE]
        /\ r.terminal = s.terminal /\ r.execution = s.execution /\ r.awaits = s.awaits /\ r.pending = s.pending
        /\ r.late = s.late
        /\ r = [card |-> r.card, terminal |-> s.terminal, execution |-> s.execution,
                pending |-> s.pending, awaits |-> s.awaits, late |-> s.late]
    BY <1>2, <2>1 DEF Session
  <2>3. r.card \in Card /\ r.card.state = s.card.state /\ r.card.gone = s.card.gone /\ ~r.card.attention
    BY <2>1, <2>2 DEF Card
  <2>4. r \in Session /\ r.card # NoCard /\ s.card # NoCard
    BY <2>1, <2>2, <2>3, CardAssumption DEF Session
  <2>5. IsLive(r.card) <=> IsLive(s.card)
    BY <2>3, <2>4 DEF IsLive
  <2>6. SessionIsSane(r)
    BY <2>2, <2>3, <2>4, <2>5 DEF SessionIsSane, CardIsSane
  <2>7. QED
    BY <2>2, <2>3, <2>4, <2>5, <2>6 DEF IsReachable
<1>3. QED
  BY <1>1, <1>2 DEF Same

Sessions ==
    /\ SessionsAreSane
    /\ SessionsAreReachable
    /\ OneSessionEach

-----------------------------------------------------------------------------
(* What a step does to a card, and to the others                            *)

\* The steps of AgentSession, with the news as the registry first has it.
CardStep(c, d) ==
    \/ d = c
    \/ d \in {NewCard, Started(NewCard), NoCard}
    \/ /\ IsLive(c)
       /\ \/ c.state # "working" /\ d = [c EXCEPT !.state = "working", !.attention = FALSE]
          \/ c.state # "waiting" /\ d = [c EXCEPT !.state = "waiting", !.attention = TRUE]
          \/ d = [c EXCEPT !.state = "finished", !.attention = TRUE]
    \/ c # NoCard /\ ~c.gone /\ d = Closed(c)
    \/ c # NoCard /\ d = [c EXCEPT !.attention = FALSE]

\* What a card follows still runs, or waits to, and neither the output says that
\* it ended nor is a terminal of before a reload given up.
StillRuns(i) ==
    LET s == sessions[i] IN
    /\ IsLive(s.card)
    /\ s.terminal # NoTerminal
    /\ s.execution \in JobsOf(s.terminal) \ {terminals[s.terminal].ended}
    /\ s.awaits = NotWaiting
    /\ ~Output(s.terminal)

\* What may become of session i.
Good(i, r) ==
    /\ SessionIsSane(r)
    /\ IsReachable(r, terminals')
    /\ CardStep(sessions[i].card, r.card)
    /\ StillRuns(i) => r.card = NoCard \/ IsLive(r.card)

\* Two sessions that may be there at once.
Apart(s, r) == s.terminal # r.terminal \/ s.terminal = NoTerminal \/ s.late \/ r.late

\* What becomes of all, before some are seen.
GoodStep(new) ==
    /\ sessions' = [i \in Id |-> sessions'[i]]
    /\ \A i \in Id : Same(sessions'[i], new[i]) /\ Good(i, new[i])
    /\ \A i, j \in Id : Apart(new[i], new[j]) \/ i = j

LEMMA GoodStepKeeps ==
    ASSUME NEW new, GoodStep(new)
    PROVE  Sessions'
<1>1. ASSUME NEW i \in Id
      PROVE  /\ SessionIsSane(sessions'[i]) /\ IsReachable(sessions'[i], terminals')
             /\ sessions'[i].terminal = new[i].terminal /\ sessions'[i].late = new[i].late
  BY SeenIsSane DEF GoodStep, Good
<1>2. QED
  BY <1>1 DEF GoodStep, Sessions, SessionsAreSane, SessionsAreReachable, OneSessionEach, Apart

LEMMA IdleIsGood ==
    ASSUME Sessions, NEW i \in Id, IsReachable(sessions[i], terminals')
    PROVE  Good(i, sessions[i])
BY DEF Sessions, SessionsAreSane, Good, CardStep, StillRuns

\* A step that changes one session.
LEMMA OneIsGood ==
    ASSUME Sessions, NEW i \in Id, NEW r, Effect(i, r), Good(i, r),
           \/ r.terminal = NoTerminal
           \/ r.late
           \/ r.terminal = sessions[i].terminal /\ ~sessions[i].late
           \/ \A j \in Id : sessions[j].terminal # r.terminal,
           \A j \in Id \ {i} : IsReachable(sessions[j], terminals')
    PROVE  \E new : GoodStep(new)
<1> DEFINE new == [sessions EXCEPT ![i] = r]
<1>1. new[i] = r /\ \A j \in Id \ {i} : new[j] = sessions[j]
  BY DEF Sessions, SessionsAreSane
<1> HIDE DEF new
<1>2. \A j \in Id : Good(j, new[j])
  BY <1>1, IdleIsGood
<1>3. \A j \in Id : Same(sessions'[j], new[j])
  BY <1>1 DEF Effect
<1>4. \A j, k \in Id : Apart(new[j], new[k]) \/ j = k
  BY <1>1 DEF Sessions, OneSessionEach, Apart
<1>5. GoodStep(new)
  BY <1>2, <1>3, <1>4 DEF GoodStep, Effect
<1>6. QED
  BY <1>5

\* A step that changes none.
LEMMA NoneIsGood ==
    ASSUME Sessions, UNCHANGED sessions,
           \A j \in Id : IsReachable(sessions[j], terminals')
    PROVE  \E new : GoodStep(new)
<1>1. GoodStep(sessions)
  BY IdleIsGood DEF GoodStep, Same, Sessions, OneSessionEach, SessionsAreSane, Apart
<1>2. QED
  BY <1>1

\* Who is reachable stays so while terminals do not close, or none of his.
LEMMA ReachableAfter ==
    ASSUME Sessions, NEW t, ClosesOnly(t), ShellsAreSane, NEW j \in Id,
           sessions[j].terminal # t \/ sessions[j].late
    PROVE  IsReachable(sessions[j], terminals')
BY DEF Sessions, ClosesOnly, SessionsAreReachable, IsReachable, SessionsAreSane, SessionIsSane, Session

LEMMA ReachableStill ==
    ASSUME Sessions, ClosesNone, ShellsAreSane, NEW j \in Id
    PROVE  IsReachable(sessions[j], terminals')
BY DEF Sessions, ClosesNone, SessionsAreReachable, IsReachable, SessionsAreSane, SessionIsSane, Session

\* What the reducer of model/session makes of a card.
LEMMA CardFacts ==
    /\ NewCard \in Card /\ NewCard # NoCard /\ CardIsSane(NewCard) /\ NewCard.state = "starting"
    /\ Started(NewCard) \in Card /\ CardIsSane(Started(NewCard)) /\ Started(NewCard).state = "working"
    /\ \A c \in Card : c # NoCard
<1>1. NewCard \in Card /\ NewCard.state = "starting" /\ ~NewCard.attention /\ ~NewCard.gone
  BY DEF NewCard, Card, Live
<1>2. Started(NewCard) = [state |-> "working", attention |-> FALSE, gone |-> FALSE]
  BY <1>1 DEF Started, NewCard
<1>3. \A c \in Card : c # NoCard
  BY CardAssumption
<1>4. Started(NewCard) \in Card
  BY <1>2 DEF Card, Live
<1>5. QED
  BY <1>1, <1>2, <1>3, <1>4 DEF CardIsSane

LEMMA StartedStep ==
    ASSUME NEW c \in Card, CardIsSane(c)
    PROVE  Started(c) \in Card /\ CardIsSane(Started(c)) /\ CardStep(c, Started(c))
           /\ (IsLive(Started(c)) <=> IsLive(c))
<1>1. CASE c.state = "starting"
  <2>1. Started(c) = [c EXCEPT !.state = "working"] /\ ~c.attention /\ c # NoCard /\ IsLive(c) /\ ~c.gone
    BY <1>1, CardAssumption DEF Started, CardIsSane, IsLive, Live
  <2>2. Started(c) = [c EXCEPT !.state = "working", !.attention = FALSE]
    BY <2>1 DEF Card
  <2>3. Started(c) \in Card /\ Started(c) # NoCard /\ Started(c).state = "working" /\ ~Started(c).gone
    BY <2>1, CardAssumption DEF Card, Live
  <2>4. QED
    BY <1>1, <2>1, <2>2, <2>3 DEF CardStep, CardIsSane, IsLive, Live
<1>2. CASE c.state # "starting"
  BY <1>2 DEF Started, CardStep
<1>3. QED
  BY <1>1, <1>2

LEMMA ActiveStep ==
    ASSUME NEW c \in Card, CardIsSane(c), NEW a \in {"working", "waiting"}
    PROVE  Active(c, a) \in Card /\ CardIsSane(Active(c, a)) /\ CardStep(c, Active(c, a))
           /\ (IsLive(Active(c, a)) <=> IsLive(c))
<1>1. CASE ~IsLive(c) \/ c.state = a
  BY <1>1 DEF Active, CardStep
<1>2. CASE IsLive(c) /\ c.state # a
  <2>1. Active(c, a) = [c EXCEPT !.state = a, !.attention = (a = "waiting")]
    BY <1>2 DEF Active
  <2>2. /\ Active(c, a) \in Card /\ Active(c, a) # NoCard
        /\ Active(c, a).state = a /\ Active(c, a).gone = c.gone
    BY <2>1, CardAssumption DEF Card, Live
  <2>3. ~c.gone /\ c # NoCard
    BY <1>2, CardAssumption DEF CardIsSane
  <2>4. CardStep(c, Active(c, a))
    <3>1. CASE a = "working"
      BY <1>2, <2>1, <3>1 DEF CardStep
    <3>2. CASE a = "waiting"
      BY <1>2, <2>1, <3>2 DEF CardStep
    <3>3. QED
      BY <3>1, <3>2
  <2>5. QED
    BY <1>2, <2>2, <2>3, <2>4 DEF CardIsSane, IsLive, Live
<1>3. QED
  BY <1>1, <1>2

LEMMA ExitedStep ==
    ASSUME NEW c \in Card, CardIsSane(c)
    PROVE  Exited(c) \in Card /\ CardIsSane(Exited(c)) /\ CardStep(c, Exited(c)) /\ ~IsLive(Exited(c))
<1>1. CASE ~IsLive(c)
  BY <1>1 DEF Exited, CardStep
<1>2. CASE IsLive(c)
  <2>1. Exited(c) = [c EXCEPT !.state = "finished", !.attention = TRUE]
    BY <1>2 DEF Exited
  <2>2. Exited(c) \in Card /\ Exited(c).state = "finished"
    BY <2>1 DEF Card
  <2>3. QED
    BY <1>2, <2>1, <2>2 DEF CardStep, CardIsSane, IsLive, Live
<1>3. QED
  BY <1>1, <1>2

LEMMA ClosedStep ==
    ASSUME NEW c \in Card, CardIsSane(c)
    PROVE  Closed(c) \in Card /\ CardIsSane(Closed(c)) /\ CardStep(c, Closed(c)) /\ ~IsLive(Closed(c))
<1>1. CASE c.gone
  BY <1>1, CardAssumption DEF Closed, CardStep, CardIsSane
<1>2. CASE ~c.gone /\ IsLive(c)
  <2>1. Closed(c) = [state |-> "closed", attention |-> FALSE, gone |-> TRUE]
    BY <1>2 DEF Closed
  <2>2. QED
    BY <1>2, <2>1, CardAssumption DEF CardStep, CardIsSane, IsLive, Live, Card
<1>3. CASE ~c.gone /\ ~IsLive(c)
  <2>1. Closed(c) = [c EXCEPT !.gone = TRUE]
    BY <1>3 DEF Closed
  <2>2. Closed(c) \in Card /\ Closed(c).state = c.state /\ ~IsLive(Closed(c)) /\ Closed(c) # NoCard
    BY <1>3, <2>1, CardAssumption DEF Card, IsLive
  <2>3. QED
    BY <1>3, <2>2, CardAssumption DEF CardStep, CardIsSane, IsLive, Live
<1>4. QED
  BY <1>1, <1>2, <1>3 DEF Card

LEMMA SeenStep ==
    ASSUME NEW c \in Card, CardIsSane(c)
    PROVE  LET d == [c EXCEPT !.attention = FALSE]
           IN  d \in Card /\ CardIsSane(d) /\ CardStep(c, d) /\ (IsLive(d) <=> IsLive(c)) /\ d.state = c.state
<1> DEFINE d == [c EXCEPT !.attention = FALSE]
<1>1. d \in Card /\ d.state = c.state /\ d.gone = c.gone /\ ~d.attention
  BY DEF Card
<1>2. CardStep(c, d)
  BY CardAssumption DEF CardStep
<1> HIDE DEF d
<1>3. d # NoCard /\ c # NoCard
  BY <1>1, CardAssumption
<1>4. d \in Card /\ CardIsSane(d) /\ CardStep(c, d) /\ (IsLive(d) <=> IsLive(c)) /\ d.state = c.state
  BY <1>1, <1>2, <1>3 DEF CardIsSane, IsLive
<1>5. QED
  BY <1>4 DEF d

-----------------------------------------------------------------------------
(* The steps                                                                *)

StepIsGood ==
    /\ ShellsAreSane'
    /\ AttachingIsOpen'
    /\ (offered \subseteq Terminal)'
    /\ (reloads \in 0..MaxReloads)'
    /\ \E new : GoodStep(new)

LEMMA StaysAttaching ==
    ASSUME IInv, ClosesNone, attaching' \subseteq attaching
    PROVE  AttachingIsOpen'
BY DEF IInv, AttachingIsOpen, ClosesNone

LEMMA SameRest ==
    ASSUME IInv, UNCHANGED reloads, offered' \subseteq offered
    PROVE  (reloads \in 0..MaxReloads)' /\ (offered \subseteq Terminal)'
BY DEF IInv

\* What is known of a terminal, a session and its card.
LEMMA ShellFacts ==
    ASSUME ShellsAreSane, NEW t \in Terminal
    PROVE  /\ terminals[t] \in Shell /\ ShellIsSane(terminals[t])
           /\ ShellIsSane(NewTerminal) /\ ShellIsSane(ClosedTerminal)
           /\ NewTerminal.status = "open" /\ ClosedTerminal.status = "closed"
           /\ ~NewTerminal.integrated /\ ~ClosedTerminal.integrated
<1>1. <<>> \in Seq(Execution)
  OBVIOUS
<1>2. NewTerminal \in Shell /\ NewTerminal.status = "open" /\ ~NewTerminal.integrated
  BY <1>1 DEF NewTerminal, Shell
<1>3. ClosedTerminal \in Shell /\ ClosedTerminal.status = "closed" /\ ~ClosedTerminal.integrated
      /\ ClosedTerminal.running = NoExecution /\ ClosedTerminal.queue = <<>>
  BY <1>2 DEF ClosedTerminal, NewTerminal, Shell
<1>4. QED
  BY <1>2, <1>3 DEF ShellsAreSane, ShellIsSane

\* A terminal that is opened.
LEMMA OpenedShell ==
    ASSUME ShellsAreSane, NEW t \in Terminal, UserOpens(t)
    PROVE  ShellsAreSane' /\ ClosesNone /\ terminals'[t].status = "open"
<1>1. /\ terminals' = [terminals EXCEPT ![t] = NewTerminal]
      /\ ShellIsSane(NewTerminal) /\ NewTerminal.status = "open" /\ "open" # "closed"
  BY ShellFacts DEF UserOpens
<1>2. ShellsAreSane' /\ ClosesNone /\ terminals'[t] = NewTerminal
  BY <1>1, OneShell
<1>3. QED
  BY <1>1, <1>2

LEMMA ClosingShell ==
    ASSUME ShellsAreSane, NEW t \in Terminal, terminals[t].status = "open"
    PROVE  ShellIsSane(Closing(terminals[t])) /\ Closing(terminals[t]).status = "closing"
<1>1. terminals[t] \in Shell
  BY ShellFacts
<1>2. Closing(terminals[t]) = [terminals[t] EXCEPT !.status = "closing", !.running = NoExecution, !.queue = <<>>]
  BY DEF Closing
<1>3. <<>> \in Seq(Execution)
  OBVIOUS
<1>4. Closing(terminals[t]) = [status |-> "closing", integrated |-> terminals[t].integrated,
                              running |-> NoExecution, queue |-> <<>>, ended |-> terminals[t].ended]
  BY <1>1, <1>2 DEF Shell
<1>5. QED
  BY <1>1, <1>3, <1>4 DEF Shell, ShellIsSane

\* A terminal that the user or the extension closes.
LEMMA ClosesShell ==
    ASSUME ShellsAreSane, NEW t \in Terminal, terminals[t].status = "open",
           terminals' = [terminals EXCEPT ![t] = Closing(@)]
    PROVE  ShellsAreSane' /\ ClosesNone
<1> DEFINE shell == Closing(terminals[t])
<1>1. ShellIsSane(shell) /\ shell.status = "closing" /\ "closing" # "closed"
  BY ClosingShell
<1>2. terminals' = [terminals EXCEPT ![t] = shell]
  OBVIOUS
<1> HIDE DEF shell
<1>3. QED
  BY <1>1, <1>2, OneShell

\* What happens in a shell, and of which no message came yet.
LEMMA EnvironmentIsGood ==
    ASSUME IInv, NEW t \in Terminal, Environment(t)
    PROVE  StepIsGood
<1>1. Sessions /\ ShellsAreSane /\ SessionsAreSane /\ ShellIsSane(terminals[t])
  BY ShellFacts DEF IInv, Sessions
<1>2. SUFFICES ShellsAreSane' /\ ClosesNone
  <2>1. UNCHANGED <<sessions, attaching, offered, reloads>>
    BY DEF Environment
  <2>2. \A j \in Id : IsReachable(sessions[j], terminals')
    BY <1>1, <1>2, ReachableStill
  <2>3. \E new : GoodStep(new)
    BY <1>1, <2>1, <2>2, NoneIsGood
  <2>4. QED
    BY <1>2, <2>1, <2>3, StaysAttaching, SameRest DEF StepIsGood
<1>3. CASE UserOpens(t)
  BY <1>1, <1>3, OpenedShell
<1>4. CASE Integrate(t)
  <2> DEFINE shell == [terminals[t] EXCEPT !.integrated = TRUE]
  <2>1. ShellIsSane(shell) /\ shell.status = "open" /\ "open" # "closed"
    BY <1>1, <1>4 DEF Integrate, ShellIsSane, Shell
  <2>2. terminals' = [terminals EXCEPT ![t] = shell]
    BY <1>1, <1>4 DEF Integrate, ShellsAreSane
  <2> HIDE DEF shell
  <2>3. QED
    BY <1>1, <2>1, <2>2, OneShell
<1>5. CASE UserTypes(t)
  <2>1. NewExecution \in Execution
    BY <1>1, <1>5, NewExecutionIsOne DEF UserTypes
  <2>2. QED
    BY <1>1, <1>5, <2>1, EnqueuedShell DEF UserTypes
<1>6. CASE ShellEnds(t)
  <2> DEFINE shell == [terminals[t] EXCEPT !.running = NoExecution, !.ended = terminals[t].running]
  <2>1. terminals[t].status = "open"
    BY <1>1, <1>6 DEF ShellEnds, ShellIsSane
  <2>2. ShellIsSane(shell) /\ shell.status = "open" /\ "open" # "closed"
    BY <1>1, <1>6, <2>1 DEF ShellEnds, ShellIsSane, Shell
  <2>3. terminals' = [terminals EXCEPT ![t] = shell]
    BY <1>1, <1>6 DEF ShellEnds, ShellsAreSane
  <2> HIDE DEF shell
  <2>4. QED
    BY <1>1, <2>2, <2>3, OneShell
<1>7. CASE UserCloses(t)
  BY <1>1, <1>7, ClosesShell DEF UserCloses
<1>8. QED
  BY <1>3, <1>4, <1>5, <1>6, <1>7 DEF Environment

\* What is known of a session.
LEMMA SessionFacts ==
    ASSUME Sessions, NEW i \in Id
    PROVE  /\ sessions[i] \in Session /\ SessionIsSane(sessions[i])
           /\ sessions[i].card # NoCard => sessions[i].card \in Card /\ CardIsSane(sessions[i].card)
           /\ sessions[i].card = NoCard => sessions[i] = NoSession /\ sessions[i].terminal = NoTerminal
           /\ sessions[i].terminal # NoTerminal => sessions[i].terminal \in Terminal /\ sessions[i].card # NoCard
           /\ IsReachable(sessions[i], terminals)
BY DEF Sessions, SessionsAreSane, SessionIsSane, Session, NoSession, SessionsAreReachable

\* Only the card of a session changes.
LEMMA CardChanges ==
    ASSUME IInv, ShellsAreSane', ClosesNone, UNCHANGED reloads, attaching' \subseteq attaching, offered' \subseteq offered,
           NEW i \in Id, NEW c \in Card,
           sessions[i].card # NoCard, CardIsSane(c), CardStep(sessions[i].card, c),
           IsLive(c) => IsLive(sessions[i].card),
           StillRuns(i) => IsLive(c),
           NEW e \in Execution \cup {Inside, NoExecution},
           Effect(i, [sessions[i] EXCEPT !.execution = e, !.card = c])
    PROVE  StepIsGood
<1> DEFINE r == [sessions[i] EXCEPT !.execution = e, !.card = c]
<1>1. Sessions /\ ShellsAreSane
  BY DEF IInv, Sessions
<1>2. r \in Session /\ r.card = c /\ r.terminal = sessions[i].terminal /\ r.late = sessions[i].late
      /\ r.awaits = sessions[i].awaits /\ r.pending = sessions[i].pending /\ SessionIsSane(sessions[i])
  BY <1>1, SessionFacts DEF Session
<1>3. Effect(i, r)
  OBVIOUS
<1> HIDE DEF r
<1>4. SessionIsSane(r)
  BY <1>2, CardAssumption DEF SessionIsSane
<1>5. IsReachable(r, terminals')
  BY <1>1, <1>2, ReachableStill DEF IsReachable
<1>6. Good(i, r)
  BY <1>2, <1>4, <1>5 DEF Good
<1>7. \A j \in Id : IsReachable(sessions[j], terminals')
  BY <1>1, ReachableStill
<1>8. r.late \/ (r.terminal = sessions[i].terminal /\ ~sessions[i].late)
  BY <1>2 DEF Session
<1>9. \E new : GoodStep(new)
  BY <1>1, <1>3, <1>6, <1>7, <1>8, OneIsGood
<1>10. QED
  BY <1>9, StaysAttaching, SameRest DEF StepIsGood

LEMMA OnlyCardChanges ==
    ASSUME IInv, ShellsAreSane', ClosesNone, UNCHANGED reloads, attaching' \subseteq attaching, offered' \subseteq offered,
           NEW i \in Id, NEW c \in Card,
           sessions[i].card # NoCard, CardIsSane(c), CardStep(sessions[i].card, c),
           IsLive(c) => IsLive(sessions[i].card),
           StillRuns(i) => IsLive(c),
           Effect(i, [sessions[i] EXCEPT !.card = c])
    PROVE  StepIsGood
<1>1. sessions[i] \in Session
  BY SessionFacts DEF IInv, Sessions
<1>2. [sessions[i] EXCEPT !.card = c] = [sessions[i] EXCEPT !.execution = sessions[i].execution, !.card = c]
  BY <1>1 DEF Session
<1>3. sessions[i].execution \in Execution \cup {Inside, NoExecution}
  BY <1>1 DEF Session
<1>4. QED
  BY <1>2, <1>3, CardChanges

\* A session gets a card, or a new one, that is alive, with a terminal that is
\* there and that no other session has, unless it is given it too late.
LEMMA RunBegins ==
    ASSUME IInv, ShellsAreSane', ClosesNone, UNCHANGED reloads, attaching' \subseteq attaching, offered' \subseteq offered,
           NEW i \in Id, NEW r \in Session, Effect(i, r),
           r.card \in {NewCard, Started(NewCard)},
           r.terminal # NoTerminal,
           r.late \/ terminals'[r.terminal].status # "closed",
           \/ r.late
           \/ r.terminal = sessions[i].terminal /\ r.late = sessions[i].late
           \/ \A j \in Id : sessions[j].terminal # r.terminal
    PROVE  StepIsGood
<1>1. Sessions /\ ShellsAreSane
  BY DEF IInv, Sessions
<1>2. SessionIsSane(r) /\ IsLive(r.card)
  BY CardFacts DEF SessionIsSane, IsLive, Live
<1>3. Good(i, r)
  BY <1>2 DEF Good, IsReachable, CardStep
<1>4. \A j \in Id : IsReachable(sessions[j], terminals')
  BY <1>1, ReachableStill
<1>5. r.late \/ (r.terminal = sessions[i].terminal /\ ~sessions[i].late) \/ \A j \in Id : sessions[j].terminal # r.terminal
  OBVIOUS
<1>6. \E new : GoodStep(new)
  BY <1>1, <1>3, <1>4, <1>5, OneIsGood
<1>7. QED
  BY <1>6, StaysAttaching, SameRest DEF StepIsGood
-----------------------------------------------------------------------------
LEMMA StartIsGood ==
    ASSUME IInv, NEW i \in Id, NEW t \in Terminal, Start(i, t)
    PROVE  StepIsGood
<1> DEFINE r == Launched(sessions[i], t)
<1>1. Sessions /\ SessionsAreSane /\ ShellsAreSane
  BY DEF IInv, Sessions
<1>2. Effect(i, r)
  BY <1>1, ChangesOne DEF Start
<1>3. r \in Session /\ r.card = NewCard /\ r.terminal = t
  <2>1. sessions[i] \in Session
    BY <1>1, SessionFacts
  <2>2. r = [sessions[i] EXCEPT !.card = NewCard, !.terminal = t, !.pending = TRUE]
    BY DEF Launched
  <2>3. QED
    BY <2>1, <2>2, CardFacts DEF Session
<1>4. ShellsAreSane' /\ ClosesNone /\ terminals'[t].status = "open"
  BY <1>1, OpenedShell DEF Start
<1>5. \A j \in Id : sessions[j].terminal # t
  BY DEF Start, UserOpens, Unused
<1> HIDE DEF r
<1>6. t # NoTerminal
  BY BoundAssumption
<1>7. QED
  BY <1>2, <1>3, <1>4, <1>5, <1>6, RunBegins DEF Start

\* The list that a terminal is picked from opens, or is left.
LEMMA PickIsGood ==
    ASSUME IInv, AdoptPick \/ LeavePick
    PROVE  StepIsGood
<1>1. Sessions /\ ShellsAreSane
  BY DEF IInv, Sessions
<1>2. UNCHANGED <<sessions, attaching, terminals, reloads>> /\ offered' \subseteq Terminal
  BY DEF AdoptPick, LeavePick
<1>3. ShellsAreSane' /\ ClosesNone
  BY <1>1, <1>2, SameShells
<1>4. \A j \in Id : IsReachable(sessions[j], terminals')
  BY <1>1, <1>3, ReachableStill
<1>5. \E new : GoodStep(new)
  BY <1>1, <1>2, <1>4, NoneIsGood
<1>6. QED
  BY <1>2, <1>3, <1>5, StaysAttaching DEF StepIsGood, IInv

LEMMA PickTerminalIsGood ==
    ASSUME IInv, NEW i \in Id, NEW t \in Terminal, PickTerminal(i, t)
    PROVE  StepIsGood
<1> DEFINE r == [Adopted(t, NoExecution) EXCEPT !.late = ~IsFree(t)]
<1>1. Sessions /\ SessionsAreSane /\ ShellsAreSane
  BY DEF IInv, Sessions
<1>2. Effect(i, r)
  BY <1>1, ChangesOne DEF PickTerminal
<1>3. r \in Session /\ r.card = Started(NewCard) /\ r.terminal = t /\ r.late = ~IsFree(t)
  <2>1. Adopted(t, NoExecution) \in Session /\ Adopted(t, NoExecution).card = Started(NewCard)
        /\ Adopted(t, NoExecution).terminal = t
    BY CardFacts DEF Adopted, NoSession, Session
  <2>2. IsFree(t) \in BOOLEAN
    BY DEF IsFree
  <2>3. QED
    BY <2>1, <2>2 DEF Session
<1>4. ShellsAreSane' /\ ClosesNone /\ UNCHANGED <<attaching, terminals, reloads>> /\ offered' \subseteq offered
  BY <1>1, SameShells DEF PickTerminal
<1>5. r.late \/ (terminals'[t].status # "closed" /\ \A j \in Id : sessions[j].terminal # t)
  BY <1>3, <1>4 DEF IsFree, SessionsOf
<1> HIDE DEF r
<1>6. t # NoTerminal
  BY BoundAssumption
<1>7. QED
  BY <1>2, <1>3, <1>4, <1>5, <1>6, RunBegins

LEMMA ExecuteCommandIsGood ==
    ASSUME IInv, NEW i \in Id, ExecuteCommand(i)
    PROVE  StepIsGood
<1> DEFINE t == sessions[i].terminal
           e == NewExecution
           r == [sessions[i] EXCEPT !.execution = e, !.pending = FALSE]
<1>1. Sessions /\ SessionsAreSane /\ ShellsAreSane
  BY DEF IInv, Sessions
<1>2. /\ sessions[i] \in Session /\ SessionIsSane(sessions[i]) /\ t \in Terminal /\ sessions[i].pending
      /\ sessions[i].card # NoCard /\ terminals[t].integrated
  BY <1>1, SessionFacts DEF ExecuteCommand, SessionIsSane
<1>3. e \in Execution
  BY <1>1, NewExecutionIsOne DEF ExecuteCommand
<1>4. terminals' = [terminals EXCEPT ![t] = Enqueue(@, e)]
      /\ sessions' = [sessions EXCEPT ![i].execution = e, ![i].pending = FALSE]
  BY DEF ExecuteCommand
<1>5. Effect(i, r)
  <2>1. sessions' = [sessions EXCEPT ![i] = r]
    BY <1>1, <1>4 DEF SessionsAreSane
  <2>2. QED
    BY <1>1, <2>1, ChangedOne
<1>6. /\ r \in Session /\ r.card = sessions[i].card /\ r.terminal = t /\ r.late = sessions[i].late
      /\ ~r.pending /\ r.awaits = sessions[i].awaits
  BY <1>2, <1>3 DEF Session
<1> HIDE DEF r, e
<1>7. ShellsAreSane' /\ ClosesNone
  BY <1>1, <1>2, <1>3, <1>4, EnqueuedShell
<1>8. SessionIsSane(r)
  BY <1>2, <1>6 DEF SessionIsSane
<1>9. \A j \in Id : IsReachable(sessions[j], terminals')
  BY <1>1, <1>7, ReachableStill
<1>10. IsReachable(r, terminals')
  BY <1>6, <1>9 DEF IsReachable
<1>11. Good(i, r)
  BY <1>6, <1>8, <1>10 DEF Good, CardStep, StillRuns
<1>12. r.late \/ (r.terminal = sessions[i].terminal /\ ~sessions[i].late)
  BY <1>6 DEF Session
<1>13. \E new : GoodStep(new)
  BY <1>1, <1>5, <1>9, <1>11, <1>12, OneIsGood
<1>14. QED
  BY <1>7, <1>13, StaysAttaching, SameRest DEF StepIsGood, ExecuteCommand

LEMMA TypeCommandIsGood ==
    ASSUME IInv, NEW i \in Id, TypeCommand(i)
    PROVE  StepIsGood
<1> DEFINE t == sessions[i].terminal
           e == NewExecution
           r == [sessions[i] EXCEPT !.pending = FALSE, !.card = Started(sessions[i].card)]
<1>1. Sessions /\ SessionsAreSane /\ ShellsAreSane
  BY DEF IInv, Sessions
<1>2. /\ sessions[i] \in Session /\ SessionIsSane(sessions[i]) /\ t \in Terminal
      /\ sessions[i].card # NoCard /\ sessions[i].card \in Card /\ CardIsSane(sessions[i].card)
  BY <1>1, SessionFacts DEF TypeCommand, SessionIsSane
<1>3. e \in Execution
  BY <1>1, NewExecutionIsOne DEF TypeCommand
<1>4. terminals' = [terminals EXCEPT ![t] = Enqueue(@, e)]
  BY DEF TypeCommand
<1>5. Effect(i, r)
  <2>1. [sessions EXCEPT ![i].pending = FALSE, ![i].card = Started(@)] = [sessions EXCEPT ![i] = r]
    BY <1>1, <1>2 DEF SessionsAreSane, Session
  <2>2. Changes([sessions EXCEPT ![i] = r])
    BY <2>1 DEF TypeCommand
  <2>3. QED
    BY <1>1, <2>2, ChangesOne
<1>6. /\ Started(sessions[i].card) \in Card /\ CardIsSane(Started(sessions[i].card))
      /\ CardStep(sessions[i].card, Started(sessions[i].card))
      /\ IsLive(Started(sessions[i].card)) <=> IsLive(sessions[i].card)
  BY <1>2, StartedStep
<1>7. /\ r \in Session /\ r.card = Started(sessions[i].card) /\ r.terminal = t
      /\ r.late = sessions[i].late /\ ~r.pending /\ r.awaits = sessions[i].awaits
  BY <1>2, <1>6 DEF Session
<1> HIDE DEF r, e
<1>8. ShellsAreSane' /\ ClosesNone
  BY <1>1, <1>2, <1>3, <1>4, EnqueuedShell
<1>9. SessionIsSane(r)
  BY <1>6, <1>7, CardAssumption DEF SessionIsSane
<1>10. \A j \in Id : IsReachable(sessions[j], terminals')
  BY <1>1, <1>8, ReachableStill
<1>11. IsReachable(r, terminals')
  BY <1>6, <1>7, <1>10 DEF IsReachable
<1>12. Good(i, r)
  BY <1>6, <1>7, <1>9, <1>11 DEF Good, StillRuns
<1>13. r.late \/ (r.terminal = sessions[i].terminal /\ ~sessions[i].late)
  BY <1>7 DEF Session
<1>14. \E new : GoodStep(new)
  BY <1>1, <1>5, <1>10, <1>12, <1>13, OneIsGood
<1>15. QED
  BY <1>8, <1>14, StaysAttaching, SameRest DEF StepIsGood, TypeCommand

LEMMA FocusIsGood ==
    ASSUME IInv, NEW i \in Id, Focus(i)
    PROVE  StepIsGood
<1> DEFINE c == [sessions[i].card EXCEPT !.attention = FALSE]
<1>1. Sessions /\ SessionsAreSane /\ ShellsAreSane
  BY DEF IInv, Sessions
<1>2. sessions[i].card # NoCard /\ sessions[i].card \in Card /\ CardIsSane(sessions[i].card) /\ sessions[i] \in Session
  BY <1>1, SessionFacts DEF Focus, HasNews
<1>3. c \in Card /\ CardIsSane(c) /\ CardStep(sessions[i].card, c) /\ (IsLive(c) <=> IsLive(sessions[i].card))
  BY <1>2, SeenStep
<1>4. Effect(i, [sessions[i] EXCEPT !.card = c])
  <2>1. [sessions EXCEPT ![i].card.attention = FALSE] = [sessions EXCEPT ![i] = [sessions[i] EXCEPT !.card = c]]
    BY <1>1, <1>2 DEF SessionsAreSane, Session
  <2>2. Changes([sessions EXCEPT ![i] = [sessions[i] EXCEPT !.card = c]])
    BY <2>1 DEF Focus
  <2>3. QED
    BY <1>1, <2>2, ChangesOne
<1>5. ShellsAreSane' /\ ClosesNone
  BY <1>1, SameShells DEF Focus
<1> HIDE DEF c
<1>6. StillRuns(i) => IsLive(c)
  BY <1>3 DEF StillRuns
<1>7. QED
  BY <1>2, <1>3, <1>4, <1>5, <1>6, OnlyCardChanges DEF Focus

LEMMA StopIsGood ==
    ASSUME IInv, NEW i \in Id, Stop(i)
    PROVE  StepIsGood
<1>1. Sessions /\ ShellsAreSane
  BY DEF IInv, Sessions
<1>2. sessions[i].terminal \in Terminal
  BY <1>1, SessionFacts DEF Stop
<1>3. ShellsAreSane' /\ ClosesNone
  BY <1>1, <1>2, ClosesShell DEF Stop
<1>4. \A j \in Id : IsReachable(sessions[j], terminals')
  BY <1>1, <1>3, ReachableStill
<1>5. \E new : GoodStep(new)
  BY <1>1, <1>3, <1>4, NoneIsGood DEF Stop
<1>6. QED
  BY <1>3, <1>5, StaysAttaching, SameRest DEF StepIsGood, Stop

LEMMA RestartThereIsGood ==
    ASSUME IInv, NEW i \in Id, RestartThere(i)
    PROVE  StepIsGood
<1> DEFINE t == sessions[i].terminal
           e == NewExecution
           r == [sessions[i] EXCEPT !.card = NewCard, !.execution = e]
<1>1. Sessions /\ SessionsAreSane /\ ShellsAreSane
  BY DEF IInv, Sessions
<1>2. sessions[i] \in Session /\ t \in Terminal /\ t # NoTerminal /\ terminals[t].integrated
  BY <1>1, SessionFacts DEF RestartThere, CanReuse
<1>3. e \in Execution
  BY <1>1, NewExecutionIsOne DEF RestartThere
<1>4. terminals' = [terminals EXCEPT ![t] = Enqueue(@, e)]
  BY DEF RestartThere
<1>5. Effect(i, r)
  <2>1. [sessions EXCEPT ![i].card = NewCard, ![i].execution = e] = [sessions EXCEPT ![i] = r]
    BY <1>1, <1>2 DEF SessionsAreSane, Session
  <2>2. Changes([sessions EXCEPT ![i] = r])
    BY <2>1 DEF RestartThere
  <2>3. QED
    BY <1>1, <2>2, ChangesOne
<1>6. r \in Session /\ r.card = NewCard /\ r.terminal = t /\ r.late = sessions[i].late
  BY <1>2, <1>3, CardFacts DEF Session
<1> HIDE DEF r, e
<1>7. ShellsAreSane' /\ ClosesNone /\ terminals'[t].status = terminals[t].status
  BY <1>1, <1>2, <1>3, <1>4, EnqueuedShell
<1>8. terminals[t].status # "closed"
  BY <1>1, <1>2, ShellFacts DEF ShellIsSane
<1>9. QED
  BY <1>2, <1>5, <1>6, <1>7, <1>8, RunBegins DEF RestartThere

LEMMA RestartInNewIsGood ==
    ASSUME IInv, NEW i \in Id, NEW t \in Terminal, RestartInNew(i, t)
    PROVE  StepIsGood
<1> DEFINE s == sessions[i]
           r == Launched(IF s.terminal # NoTerminal THEN Unbind(s) ELSE [s EXCEPT !.execution = NoExecution], t)
<1>1. Sessions /\ SessionsAreSane /\ ShellsAreSane
  BY DEF IInv, Sessions
<1>2. Effect(i, r)
  BY <1>1, ChangesOne DEF RestartInNew
<1>3. r \in Session /\ r.card = NewCard /\ r.terminal = t
  <2> DEFINE b == IF s.terminal # NoTerminal THEN Unbind(s) ELSE [s EXCEPT !.execution = NoExecution]
  <2>1. s \in Session
    BY <1>1, SessionFacts
  <2>2. b \in Session
    BY <2>1 DEF Unbind, NoSession, Session
  <2> HIDE DEF b
  <2>3. r = [b EXCEPT !.card = NewCard, !.terminal = t, !.pending = TRUE]
    BY DEF Launched, b
  <2>4. QED
    BY <2>2, <2>3, CardFacts DEF Session
<1>4. \A j \in Id : sessions[j].terminal # t
  BY DEF RestartInNew, Unused
<1>5. \A u \in Terminal : /\ ShellIsSane(terminals'[u])
                          /\ terminals'[u].status = "closed" => u # t /\ terminals'[u] = terminals[u]
  <2> TAKE u \in Terminal
  <2>1. terminals'[u] = CASE u = t          -> NewTerminal
                          [] u = s.terminal -> Closing(terminals[u])
                          [] OTHER          -> terminals[u]
    BY DEF RestartInNew
  <2>2. CASE u = t
    <3>1. terminals'[u] = NewTerminal /\ "open" # "closed"
      BY <1>4, <2>1, <2>2
    <3>2. QED
      BY <1>1, <3>1, ShellFacts
  <2>3. CASE u # t /\ u = s.terminal /\ terminals[u].status = "open"
    <3>1. terminals'[u] = Closing(terminals[u]) /\ "closing" # "closed"
      BY <2>1, <2>3
    <3>2. QED
      BY <1>1, <2>3, <3>1, ClosingShell
  <2>4. CASE u # t /\ (u = s.terminal => terminals[u].status # "open")
    BY <1>1, <2>1, <2>4, ShellFacts DEF Closing
  <2>5. QED
    BY <2>2, <2>3, <2>4
<1>6. terminals' = [u \in Terminal |-> terminals'[u]]
  BY DEF RestartInNew
<1> HIDE DEF r
<1>7. ShellsAreSane' /\ ClosesNone /\ terminals'[t].status # "closed"
  BY <1>5, <1>6 DEF ShellsAreSane, ClosesNone
<1>8. t # NoTerminal
  BY BoundAssumption
<1>9. QED
  BY <1>2, <1>3, <1>4, <1>7, <1>8, RunBegins DEF RestartInNew

\* A session that is removed.
LEMMA RemovedIsGood ==
    ASSUME IInv, NEW i \in Id
    PROVE  /\ [Unbind(sessions[i]) EXCEPT !.card = NoCard].terminal = NoTerminal
           /\ Good(i, [Unbind(sessions[i]) EXCEPT !.card = NoCard])
<1> DEFINE r == [Unbind(sessions[i]) EXCEPT !.card = NoCard]
<1>1. r = NoSession
  <2>1. sessions[i].card \in Card \cup {NoCard} /\ NoSession \in Session
    BY SessionFacts DEF IInv, Sessions, Session, NoSession
  <2>2. [NoSession EXCEPT !.card = sessions[i].card] \in Session
    BY <2>1 DEF Session
  <2>3. r = [[NoSession EXCEPT !.card = sessions[i].card] EXCEPT !.card = NoCard]
    BY DEF Unbind
  <2>4. r = [NoSession EXCEPT !.card = NoCard]
    BY <2>1, <2>2, <2>3 DEF Session
  <2>5. NoSession.card = NoCard
    BY DEF NoSession
  <2>6. QED
    BY <2>1, <2>4, <2>5 DEF Session
<1> HIDE DEF r
<1>2. r \in Session /\ r.card = NoCard /\ r.terminal = NoTerminal /\ ~r.pending
  BY <1>1 DEF NoSession, Session
<1>3. SessionIsSane(r)
  BY <1>1, <1>2 DEF SessionIsSane, CardIsSane
<1>4. Good(i, r)
  BY <1>2, <1>3 DEF Good, IsReachable, IsLive, CardStep
<1>5. QED
  BY <1>2, <1>4 DEF r

LEMMA DismissIsGood ==
    ASSUME IInv, NEW i \in Id, Dismiss(i)
    PROVE  StepIsGood
<1> DEFINE r == [Unbind(sessions[i]) EXCEPT !.card = NoCard]
<1>1. Sessions /\ SessionsAreSane /\ ShellsAreSane
  BY DEF IInv, Sessions
<1>2. ShellsAreSane' /\ ClosesNone
  BY <1>1, SameShells DEF Dismiss
<1>3. Effect(i, r)
  BY <1>1, ChangedOne DEF Dismiss
<1>4. Good(i, r) /\ r.terminal = NoTerminal
  BY RemovedIsGood
<1> HIDE DEF r
<1>5. \A j \in Id : IsReachable(sessions[j], terminals')
  BY <1>1, <1>2, ReachableStill
<1>6. \E new : GoodStep(new)
  BY <1>1, <1>3, <1>4, <1>5, OneIsGood
<1>7. QED
  BY <1>2, <1>6, StaysAttaching, SameRest DEF StepIsGood, Dismiss

LEMMA ClearEndedIsGood ==
    ASSUME IInv, ClearEnded
    PROVE  StepIsGood
<1>1. Sessions /\ SessionsAreSane /\ ShellsAreSane
  BY DEF IInv, Sessions
<1>2. ShellsAreSane' /\ ClosesNone
  BY <1>1, SameShells DEF ClearEnded
<1>3. ASSUME NEW i \in Id
      PROVE  Good(i, sessions'[i]) /\ (sessions'[i].terminal = NoTerminal \/ sessions'[i] = sessions[i])
  <2>1. CASE sessions'[i] = sessions[i]
    BY <1>1, <1>2, <2>1, IdleIsGood, ReachableStill
  <2>2. CASE sessions'[i] = [Unbind(sessions[i]) EXCEPT !.card = NoCard]
    BY <2>2, RemovedIsGood
  <2>3. QED
    BY <2>1, <2>2 DEF ClearEnded
<1>4. \A i, j \in Id : Apart(sessions'[i], sessions'[j]) \/ i = j
  BY <1>1, <1>3 DEF Sessions, OneSessionEach, Apart
<1>5. sessions' = [i \in Id |-> sessions'[i]]
  BY DEF ClearEnded
<1>6. GoodStep(sessions')
  BY <1>3, <1>4, <1>5 DEF GoodStep, Same
<1>7. QED
  BY <1>2, <1>6, StaysAttaching, SameRest DEF StepIsGood, ClearEnded

\* The shell of a terminal reads the next command line.
LEMMA ReadShell ==
    ASSUME ShellsAreSane, NEW t \in Terminal,
           terminals[t].queue # <<>>,
           terminals' = [terminals EXCEPT ![t].running = Head(terminals[t].queue), ![t].queue = Tail(@)]
    PROVE  /\ ShellsAreSane' /\ ClosesNone
           /\ terminals[t].status = "open" /\ terminals'[t].status = "open"
           /\ Head(terminals[t].queue) \in Execution
<1> DEFINE e == Head(terminals[t].queue)
           q == Tail(terminals[t].queue)
           shell == [terminals[t] EXCEPT !.running = e, !.queue = q]
<1>1. /\ ShellIsSane(terminals[t]) /\ terminals[t] \in Shell /\ terminals[t].queue \in Seq(Execution)
      /\ terminals[t].status = "open" /\ "open" # "closed"
  BY ShellFacts DEF Shell, ShellIsSane
<1>2. e \in Execution /\ q \in Seq(Execution)
  BY <1>1, ElementsOfQueue
<1>3. terminals' = [terminals EXCEPT ![t] = shell]
  BY <1>1 DEF ShellsAreSane, Shell
<1> HIDE DEF e, q
<1>4. ShellIsSane(shell) /\ shell.status = "open"
  BY <1>1, <1>2 DEF Shell, ShellIsSane
<1> HIDE DEF shell
<1>5. QED
  BY <1>1, <1>2, <1>3, <1>4, OneShell DEF e

LEMMA OnDidStartExecutionIsGood ==
    ASSUME IInv, NEW t \in Terminal, OnDidStartExecution(t)
    PROVE  StepIsGood
<1> DEFINE e == Head(terminals[t].queue)
<1>1. Sessions /\ SessionsAreSane /\ ShellsAreSane
  BY DEF IInv, Sessions
<1>2. /\ ShellsAreSane' /\ ClosesNone /\ terminals'[t].status # "closed" /\ e \in Execution
  <2>1. "open" # "closed"
    OBVIOUS
  <2>2. QED
    BY <1>1, <2>1, ReadShell DEF OnDidStartExecution
<1>3. Hears(t, e) /\ UNCHANGED <<attaching, offered, reloads>>
  BY DEF OnDidStartExecution
<1> HIDE DEF e
<1>4. \A j \in Id : IsReachable(sessions[j], terminals') /\ Good(j, sessions[j])
  BY <1>1, <1>2, ReachableStill, IdleIsGood
<1>5. t # NoTerminal
  BY BoundAssumption
<1>6. ASSUME NEW i \in Id, sessions[i].terminal = t, NEW isAgent \in BOOLEAN,
             Changes([sessions EXCEPT ![i] = StartOf(@, e, isAgent)])
      PROVE  StepIsGood
  <2> DEFINE s == sessions[i]
             r == StartOf(s, e, isAgent)
  <2>1. s \in Session /\ s.card \in Card /\ CardIsSane(s.card) /\ s.card # NoCard
    BY <1>1, <1>5, <1>6, SessionFacts
  <2>2. Effect(i, r)
    BY <1>1, <1>6, ChangesOne
  <2>3. CASE s.card.state = "starting"
    <3>1. r = [s EXCEPT !.execution = e, !.card = Started(s.card)]
      <4>1. r = [s EXCEPT !.card = Started(s.card), !.execution = e]
        BY <2>1, <2>3 DEF StartOf, IsLive, Live
      <4>2. QED
        BY <2>1, <4>1 DEF Session
    <3>2. /\ Started(s.card) \in Card /\ CardIsSane(Started(s.card)) /\ CardStep(s.card, Started(s.card))
          /\ IsLive(Started(s.card)) <=> IsLive(s.card)
      BY <2>1, StartedStep
    <3>3. Effect(i, [s EXCEPT !.execution = e, !.card = Started(s.card)])
      BY <2>2, <3>1
    <3>4. StillRuns(i) => IsLive(Started(s.card))
      BY <3>2 DEF StillRuns
    <3> HIDE DEF r
    <3>5. QED
      BY <1>2, <1>3, <2>1, <3>2, <3>3, <3>4, CardChanges
  <2>4. CASE ~IsLive(s.card) /\ isAgent
    <3>1. r = [s EXCEPT !.card = Started(NewCard), !.execution = e]
      BY <2>4 DEF StartOf, IsLive, Live
    <3>2. r \in Session /\ r.card = Started(NewCard) /\ r.terminal = t /\ r.late = s.late
      BY <1>2, <1>6, <2>1, <3>1, CardFacts DEF Session
    <3> HIDE DEF r
    <3>3. QED
      BY <1>2, <1>3, <1>5, <1>6, <2>2, <3>2, RunBegins
  <2>5. CASE r = s
    <3> HIDE DEF r
    <3>1. r.late \/ (r.terminal = sessions[i].terminal /\ ~sessions[i].late)
      BY <2>1, <2>5 DEF Session
    <3>2. \E new : GoodStep(new)
      BY <1>1, <1>2, <1>4, <2>2, <2>5, <3>1, OneIsGood
    <3>3. QED
      BY <1>2, <1>3, <3>2, StaysAttaching, SameRest DEF StepIsGood
  <2>6. QED
    BY <2>3, <2>4, <2>5 DEF StartOf
<1>7. ASSUME SessionsOf(t) = {}, NEW i \in Id, Changes([sessions EXCEPT ![i] = Adopted(t, e)])
      PROVE  StepIsGood
  <2> DEFINE r == Adopted(t, e)
  <2>1. Effect(i, r)
    BY <1>1, <1>7, ChangesOne
  <2>2. r \in Session /\ r.card = Started(NewCard) /\ r.terminal = t
    BY <1>2, CardFacts DEF Adopted, NoSession, Session
  <2>3. \A j \in Id : sessions[j].terminal # t
    BY <1>7 DEF SessionsOf
  <2> HIDE DEF r
  <2>4. QED
    BY <1>2, <1>3, <1>5, <2>1, <2>2, <2>3, RunBegins
<1>8. CASE UNCHANGED sessions
  <2>1. \E new : GoodStep(new)
    BY <1>1, <1>4, <1>8, NoneIsGood
  <2>2. QED
    BY <1>2, <1>3, <2>1, StaysAttaching, SameRest DEF StepIsGood
<1>9. QED
  BY <1>3, <1>6, <1>7, <1>8 DEF Hears, Told, SessionsOf

\* The output marks the start or the end of a command: it is what may end a card.
LEMMA OutputIsGood ==
    ASSUME IInv, NEW t \in Terminal, Output(t)
    PROVE  StepIsGood
<1>1. Sessions /\ SessionsAreSane /\ ShellsAreSane /\ t # NoTerminal
  BY BoundAssumption DEF IInv, Sessions
<1>2. ShellsAreSane' /\ ClosesNone /\ UNCHANGED <<attaching, offered, reloads>>
  BY <1>1, SameShells DEF Output
<1>3. PICK i \in Told(t) : \/ Changes([sessions EXCEPT ![i] = MarkC(sessions[i])])
                          \/ Changes([sessions EXCEPT ![i] = MarkD(sessions[i])])
  BY DEF Output
<1>4. i \in Id /\ sessions[i].terminal = t /\ ~StillRuns(i)
  BY <1>3 DEF Told, SessionsOf, StillRuns
<1>5. /\ sessions[i] \in Session /\ sessions[i].card # NoCard /\ sessions[i].card \in Card
      /\ CardIsSane(sessions[i].card)
  BY <1>1, <1>4, SessionFacts
<1>6. PICK c \in {sessions[i].card, Started(sessions[i].card), Exited(sessions[i].card)} :
         Effect(i, [sessions[i] EXCEPT !.card = c])
  <2>1. sessions[i] = [sessions[i] EXCEPT !.card = sessions[i].card]
    BY <1>5 DEF Session
  <2>2. Effect(i, MarkC(sessions[i])) \/ Effect(i, MarkD(sessions[i]))
    BY <1>1, <1>3, <1>4, ChangesOne
  <2>3. QED
    BY <2>1, <2>2 DEF MarkC, MarkD
<1>7. c \in Card /\ CardIsSane(c) /\ CardStep(sessions[i].card, c) /\ (IsLive(c) => IsLive(sessions[i].card))
  <2>1. CASE c = sessions[i].card
    BY <1>5, <2>1 DEF CardStep
  <2>2. CASE c # sessions[i].card
    BY <1>5, <1>6, <2>2, StartedStep, ExitedStep
  <2>3. QED
    BY <2>1, <2>2
<1>8. QED
  BY <1>2, <1>4, <1>5, <1>6, <1>7, OnlyCardChanges

\* A session hears that something ended which is not what it follows and still runs.
LEMMA EndOfIsGood ==
    ASSUME IInv, ShellsAreSane', ClosesNone, UNCHANGED <<attaching, offered, reloads>>,
           NEW i \in Id, sessions[i].card # NoCard, NEW e,
           StillRuns(i) => sessions[i].execution \notin {NoExecution, e},
           Changes([sessions EXCEPT ![i] = EndOf(@, e)])
    PROVE  StepIsGood
<1> DEFINE s == sessions[i]
           r == EndOf(s, e)
<1>1. Sessions /\ SessionsAreSane /\ ShellsAreSane
  BY DEF IInv, Sessions
<1>2. s \in Session /\ s.card \in Card /\ CardIsSane(s.card)
  BY <1>1, SessionFacts
<1>3. Effect(i, r)
  BY <1>1, ChangesOne
<1>4. CASE s.card.state \in {"working", "waiting"} /\ s.execution \in {NoExecution, e}
  <2>1. r = [s EXCEPT !.execution = NoExecution, !.card = Exited(s.card)]
    BY <1>2, <1>4 DEF EndOf, Session
  <2>2. /\ Exited(s.card) \in Card /\ CardIsSane(Exited(s.card)) /\ CardStep(s.card, Exited(s.card))
        /\ ~IsLive(Exited(s.card))
    BY <1>2, ExitedStep
  <2>3. Effect(i, [s EXCEPT !.execution = NoExecution, !.card = Exited(s.card)])
    BY <1>3, <2>1
  <2> HIDE DEF r
  <2>4. QED
    BY <1>2, <1>4, <2>2, <2>3, CardChanges
<1>5. CASE r = s
  <2> HIDE DEF r
  <2>1. \A j \in Id : IsReachable(sessions[j], terminals') /\ Good(j, sessions[j])
    BY <1>1, ReachableStill, IdleIsGood
  <2>2. r.late \/ (r.terminal = sessions[i].terminal /\ ~sessions[i].late)
    BY <1>2, <1>5 DEF Session
  <2>3. \E new : GoodStep(new)
    BY <1>1, <1>3, <1>5, <2>1, <2>2, OneIsGood
  <2>4. QED
    BY <2>3, StaysAttaching, SameRest DEF StepIsGood
<1>6. QED
  BY <1>4, <1>5 DEF EndOf

\* An execution is one of those that are counted; NoExecution and Inside are not.
LEMMA JobFacts ==
    ASSUME ShellsAreSane, NEW t \in Terminal
    PROVE  /\ JobsOf(t) \subseteq Execution
           /\ NoExecution \notin JobsOf(t) /\ Inside \notin JobsOf(t)
<1>1. terminals[t] \in Shell
  BY DEF ShellsAreSane, ShellIsSane
<1>2. Elements(terminals[t].queue) \subseteq Execution
  BY <1>1, ElementsOfQueue DEF Shell
<1>3. JobsOf(t) \subseteq Execution
  BY <1>1, <1>2 DEF JobsOf, Shell
<1>4. NoExecution \notin Execution /\ Inside \notin Execution
  BY BoundAssumption DEF Execution, Inside
<1>5. QED
  BY <1>3, <1>4

LEMMA OnDidExecuteInsideIsGood ==
    ASSUME IInv, NEW t \in Terminal, OnDidExecuteInside(t)
    PROVE  StepIsGood
<1>1. Sessions /\ SessionsAreSane /\ ShellsAreSane
  BY DEF IInv, Sessions
<1>2. ShellsAreSane' /\ ClosesNone
  BY <1>1, SameShells DEF OnDidExecuteInside
<1>3. PICK i \in Told(t) : Changes([sessions EXCEPT ![i] = EndOf(@, Inside)])
  BY DEF OnDidExecuteInside
<1>4. i \in Id /\ sessions[i].terminal = t /\ t # NoTerminal
  BY <1>3, BoundAssumption DEF Told, SessionsOf
<1>5. sessions[i].card # NoCard
  BY <1>1, <1>4, SessionFacts
<1>6. StillRuns(i) => sessions[i].execution \notin {NoExecution, Inside}
  BY <1>1, <1>4, JobFacts DEF StillRuns
<1>7. UNCHANGED <<attaching, offered, reloads>>
  BY DEF OnDidExecuteInside
<1>8. QED
  BY <1>2, <1>3, <1>4, <1>5, <1>6, <1>7, EndOfIsGood

LEMMA OnDidEndExecutionIsGood ==
    ASSUME IInv, NEW t \in Terminal, OnDidEndExecution(t)
    PROVE  StepIsGood
<1> DEFINE e == terminals[t].ended
           shell == [terminals[t] EXCEPT !.ended = NoExecution]
<1>1. Sessions /\ SessionsAreSane /\ ShellsAreSane /\ t # NoTerminal
  BY BoundAssumption DEF IInv, Sessions
<1>2. ShellIsSane(terminals[t]) /\ e # NoExecution
  BY <1>1, ShellFacts DEF OnDidEndExecution
<1>3. terminals[t].status # "closed"
  BY <1>2 DEF ClosedTerminal, NewTerminal, ShellIsSane
<1>4. ShellIsSane(shell) /\ shell.status # "closed"
  BY <1>2, <1>3 DEF Shell, ShellIsSane
<1>5. terminals' = [terminals EXCEPT ![t] = shell]
  BY <1>1, <1>2 DEF OnDidEndExecution, ShellsAreSane
<1>6. UNCHANGED <<attaching, offered, reloads>>
  BY DEF OnDidEndExecution
<1> HIDE DEF shell
<1>7. ShellsAreSane' /\ ClosesNone
  BY <1>1, <1>4, <1>5, OneShell
<1>8. CASE UNCHANGED sessions
  <2>1. \A j \in Id : IsReachable(sessions[j], terminals')
    BY <1>1, <1>7, ReachableStill
  <2>2. \E new : GoodStep(new)
    BY <1>1, <1>8, <2>1, NoneIsGood
  <2>3. QED
    BY <1>6, <1>7, <2>2, StaysAttaching, SameRest DEF StepIsGood
<1>9. ASSUME NEW i \in Id, sessions[i].terminal = t, Changes([sessions EXCEPT ![i] = EndOf(@, e)])
      PROVE  StepIsGood
  <2>1. sessions[i].card # NoCard
    BY <1>1, <1>9, SessionFacts
  <2>2. StillRuns(i) => sessions[i].execution \notin {NoExecution, e}
    BY <1>1, <1>9, JobFacts DEF StillRuns
  <2>3. QED
    BY <1>6, <1>7, <1>9, <2>1, <2>2, EndOfIsGood
<1>10. QED
  BY <1>8, <1>9 DEF OnDidEndExecution, Told, SessionsOf

LEMMA OnDidCloseTerminalIsGood ==
    ASSUME IInv, NEW t \in Terminal, OnDidCloseTerminal(t)
    PROVE  StepIsGood
<1>1. Sessions /\ SessionsAreSane /\ ShellsAreSane /\ OneSessionEach /\ AttachingIsOpen /\ t # NoTerminal
  BY BoundAssumption DEF IInv, Sessions
<1>2. /\ terminals' = [terminals EXCEPT ![t] = ClosedTerminal]
      /\ attaching' = attaching \ {t} /\ UNCHANGED <<offered, reloads>>
  BY DEF OnDidCloseTerminal
<1>3. /\ ShellsAreSane'
      /\ \A u \in Terminal : terminals'[u] = IF u = t THEN ClosedTerminal ELSE terminals[u]
  BY <1>1, <1>2, ShellFacts, OneShell
<1>4. ClosesOnly(t) /\ AttachingIsOpen'
  BY <1>1, <1>2, <1>3 DEF ClosesOnly, AttachingIsOpen
<1>5. \A j \in Id : sessions[j].terminal # t \/ sessions[j].late => IsReachable(sessions[j], terminals')
  BY <1>1, <1>4, ReachableAfter
<1>6. JobsOf(t) = {}
  <2>1. ShellIsSane(terminals[t]) /\ terminals[t].status # "open" /\ terminals[t].ended = NoExecution
    BY <1>1, ShellFacts DEF OnDidCloseTerminal
  <2>2. terminals[t].running = NoExecution /\ terminals[t].queue = <<>>
    BY <2>1 DEF ShellIsSane
  <2>3. QED
    BY <2>1, <2>2 DEF JobsOf, Elements
<1>7. CASE SessionsOf(t) = {} /\ UNCHANGED sessions
  <2>1. \E new : GoodStep(new)
    BY <1>1, <1>5, <1>7, NoneIsGood DEF SessionsOf
  <2>2. QED
    BY <1>2, <1>3, <1>4, <2>1, SameRest DEF StepIsGood
<1>8. ASSUME NEW i \in Told(t), Changes([sessions EXCEPT ![i] = WithoutTerminal(@)])
      PROVE  StepIsGood
  <2> DEFINE s == sessions[i]
             r == [Unbind(s) EXCEPT !.card = Closed(s.card)]
  <2>1. s \in Session /\ s.card \in Card /\ CardIsSane(s.card) /\ s.card # NoCard /\ s.terminal = t /\ i \in Id
    BY <1>1, <1>8, SessionFacts DEF Told, SessionsOf
  <2>2. /\ Closed(s.card) \in Card /\ CardIsSane(Closed(s.card)) /\ CardStep(s.card, Closed(s.card))
        /\ ~IsLive(Closed(s.card))
    BY <2>1, ClosedStep
  <2>3. Unbind(s) \in Session /\ Unbind(s).card = s.card /\ Unbind(s).terminal = NoTerminal /\ ~Unbind(s).pending
    BY <2>1 DEF Unbind, NoSession, Session
  <2>4. Effect(i, r)
    BY <1>1, <1>8, <2>1, ChangesOne DEF WithoutTerminal
  <2>5. r \in Session /\ r.card = Closed(s.card) /\ r.terminal = NoTerminal /\ ~r.pending
    BY <2>2, <2>3 DEF Session
  <2> HIDE DEF r
  <2>6. SessionIsSane(r) /\ IsReachable(r, terminals')
    BY <2>2, <2>5, CardAssumption DEF SessionIsSane, IsReachable
  <2>7. ~StillRuns(i)
    BY <1>6, <2>1 DEF StillRuns
  <2>8. Good(i, r)
    BY <2>2, <2>5, <2>6, <2>7 DEF Good
  <2>9. \A j \in Id \ {i} : IsReachable(sessions[j], terminals')
    <3>1. \A j \in Id \ {i} : sessions[j].terminal # t \/ sessions[j].late
      BY <1>1, <1>8, <2>1 DEF OneSessionEach, Told, SessionsOf
    <3>2. QED
      BY <1>5, <3>1
  <2>10. \E new : GoodStep(new)
    BY <1>1, <2>1, <2>4, <2>5, <2>8, <2>9, OneIsGood
  <2>11. QED
    BY <1>2, <1>3, <1>4, <2>10, SameRest DEF StepIsGood
<1>9. QED
  BY <1>7, <1>8 DEF OnDidCloseTerminal

LEMMA WaitsIsGood ==
    ASSUME IInv, NEW i \in Id, Waits(i) \/ GoesOn(i)
    PROVE  StepIsGood
<1>1. Sessions /\ SessionsAreSane /\ ShellsAreSane
  BY DEF IInv, Sessions
<1>2. ShellsAreSane' /\ ClosesNone
  BY <1>1, SameShells DEF Waits, GoesOn
<1>3. sessions[i].card # NoCard /\ sessions[i].card \in Card /\ CardIsSane(sessions[i].card)
  BY <1>1, SessionFacts DEF Waits, GoesOn
<1>4. PICK a \in {"working", "waiting"} : Effect(i, [sessions[i] EXCEPT !.card = Active(sessions[i].card, a)])
  <2>1. CASE Waits(i)
    <3> DEFINE after == Active(sessions[i].card, "waiting")
    <3>1. Changes([sessions EXCEPT ![i] = [sessions[i] EXCEPT !.card = after]])
      <4>1. Changes([sessions EXCEPT ![i].card = after])
        BY <2>1 DEF Waits
      <4> HIDE DEF after
      <4>2. [sessions EXCEPT ![i].card = after] = [sessions EXCEPT ![i] = [sessions[i] EXCEPT !.card = after]]
        OBVIOUS
      <4>3. QED
        BY <4>1, <4>2
    <3>2. QED
      BY <1>1, <3>1, ChangesOne
  <2>2. CASE GoesOn(i)
    <3>1. sessions' = [sessions EXCEPT ![i] = [sessions[i] EXCEPT !.card = Active(sessions[i].card, "working")]]
      BY <1>1, <2>2 DEF GoesOn, SessionsAreSane
    <3>2. QED
      BY <1>1, <3>1, ChangedOne
  <2>3. QED
    BY <2>1, <2>2
<1> DEFINE c == Active(sessions[i].card, a)
<1>5. /\ c \in Card /\ CardIsSane(c) /\ CardStep(sessions[i].card, c)
      /\ IsLive(c) <=> IsLive(sessions[i].card)
  BY <1>3, ActiveStep
<1>6. Effect(i, [sessions[i] EXCEPT !.card = c])
  BY <1>4
<1> HIDE DEF c
<1>7. StillRuns(i) => IsLive(c)
  BY <1>5 DEF StillRuns
<1>8. UNCHANGED <<attaching, offered, reloads>>
  BY DEF Waits, GoesOn
<1>9. QED
  BY <1>2, <1>3, <1>5, <1>6, <1>7, <1>8, OnlyCardChanges

LEMMA AttachIsGood ==
    ASSUME IInv, NEW t \in Terminal, Attach(t)
    PROVE  StepIsGood
<1>1. Sessions /\ SessionsAreSane /\ ShellsAreSane /\ AttachingIsOpen
  BY DEF IInv, Sessions
<1>2. t # NoTerminal /\ t # NotWaiting
  BY BoundAssumption
<1>3. ShellsAreSane' /\ ClosesNone /\ UNCHANGED <<offered, terminals, reloads>> /\ attaching' \subseteq attaching
  BY <1>1, SameShells DEF Attach
<1>4. terminals'[t].status # "closed"
  BY <1>1, <1>3 DEF Attach, AttachingIsOpen
<1>5. \A j \in Id : IsReachable(sessions[j], terminals')
  BY <1>1, <1>3, ReachableStill
<1>6. CASE UNCHANGED sessions
  <2>1. \E new : GoodStep(new)
    BY <1>1, <1>5, <1>6, NoneIsGood
  <2>2. QED
    BY <1>3, <2>1, StaysAttaching, SameRest DEF StepIsGood
<1>7. ASSUME NEW i \in Id, SessionsOf(t) = {}, sessions[i].awaits = t,
             Changes([sessions EXCEPT ![i].awaits = NotWaiting, ![i].terminal = t, ![i].pending = FALSE])
      PROVE  StepIsGood
  <2> DEFINE s == sessions[i]
             r == [s EXCEPT !.awaits = NotWaiting, !.terminal = t, !.pending = FALSE]
  <2>1. s \in Session /\ SessionIsSane(s) /\ s.card # NoCard
    BY <1>1, <1>2, <1>7, SessionFacts DEF NoSession
  <2>2. Effect(i, r)
    <3>1. [sessions EXCEPT ![i].awaits = NotWaiting, ![i].terminal = t, ![i].pending = FALSE]
          = [sessions EXCEPT ![i] = r]
      BY <1>1, <2>1 DEF SessionsAreSane, Session
    <3>2. QED
      BY <1>1, <1>7, <3>1, ChangesOne
  <2>3. r \in Session /\ r.card = s.card /\ r.terminal = t /\ ~r.pending
    BY <2>1 DEF Session
  <2> HIDE DEF r
  <2>4. SessionIsSane(r) /\ IsReachable(r, terminals')
    BY <1>2, <1>4, <2>1, <2>3 DEF SessionIsSane, IsReachable
  <2>5. Good(i, r)
    BY <2>3, <2>4 DEF Good, CardStep, StillRuns
  <2>6. \A j \in Id : sessions[j].terminal # t
    BY <1>7 DEF SessionsOf
  <2>7. \E new : GoodStep(new)
    BY <1>1, <1>5, <2>2, <2>3, <2>5, <2>6, OneIsGood
  <2>8. QED
    BY <1>3, <2>7, StaysAttaching, SameRest DEF StepIsGood
<1>8. QED
  BY <1>6, <1>7 DEF Attach

LEMMA GiveUpIsGood ==
    ASSUME IInv, GiveUp
    PROVE  StepIsGood
<1> DEFINE new == [i \in Id |-> IF i \in Unattached
                               THEN [sessions[i] EXCEPT !.awaits = NotWaiting, !.card = Closed(@)]
                               ELSE sessions[i]]
<1>1. Sessions /\ SessionsAreSane /\ ShellsAreSane
  BY DEF IInv, Sessions
<1>2. ShellsAreSane' /\ ClosesNone /\ UNCHANGED <<attaching, offered, terminals, reloads>>
  BY <1>1, SameShells DEF GiveUp
<1>3. ASSUME NEW i \in Id
      PROVE  Good(i, new[i]) /\ new[i].terminal = sessions[i].terminal /\ new[i].late = sessions[i].late
  <2> DEFINE s == sessions[i]
             r == [s EXCEPT !.awaits = NotWaiting, !.card = Closed(s.card)]
  <2>1. CASE i \notin Unattached
    <3>1. new[i] = s
      BY <2>1
    <3>2. QED
      BY <1>1, <1>2, <3>1, IdleIsGood, ReachableStill
  <2>2. CASE i \in Unattached
    <3>1. s \in Session /\ SessionIsSane(s) /\ s.card \in Card /\ CardIsSane(s.card)
      BY <1>1, <2>2, SessionFacts DEF Unattached, NoSession
    <3>2. new[i] = r
      BY <2>2, <3>1 DEF Session
    <3>3. /\ Closed(s.card) \in Card /\ CardIsSane(Closed(s.card)) /\ CardStep(s.card, Closed(s.card))
          /\ ~IsLive(Closed(s.card))
      BY <3>1, ClosedStep
    <3>4. /\ r \in Session /\ r.card = Closed(s.card) /\ r.terminal = s.terminal
          /\ r.late = s.late /\ r.pending = s.pending
      BY <3>1, <3>3 DEF Session
    <3> HIDE DEF r, new
    <3>5. SessionIsSane(r) /\ IsReachable(r, terminals')
      BY <3>1, <3>3, <3>4, CardAssumption DEF SessionIsSane, IsReachable
    <3>6. ~StillRuns(i)
      BY <2>2 DEF StillRuns, Unattached
    <3>7. Good(i, r)
      BY <3>3, <3>4, <3>5, <3>6 DEF Good
    <3>8. QED
      BY <3>2, <3>4, <3>7
  <2>3. QED
    BY <2>1, <2>2
<1>4. Changes(new)
  BY DEF GiveUp
<1> HIDE DEF new
<1>5. GoodStep(new)
  <2>1. \A i, j \in Id : Apart(new[i], new[j]) \/ i = j
    BY <1>1, <1>3 DEF Sessions, OneSessionEach, Apart
  <2>2. QED
    BY <1>3, <1>4, <2>1, ChangesSee DEF GoodStep
<1>6. QED
  BY <1>2, <1>5, StaysAttaching, SameRest DEF StepIsGood

LEMMA ReloadIsGood ==
    ASSUME IInv, Reload
    PROVE  StepIsGood
<1>1. Sessions /\ SessionsAreSane /\ ShellsAreSane
  BY DEF IInv, Sessions
<1>2. ASSUME NEW t \in Terminal
      PROVE  ShellIsSane(terminals'[t])
  <2>1. terminals'[t] = IF terminals[t].status = "open" THEN [terminals[t] EXCEPT !.ended = NoExecution]
                        ELSE ClosedTerminal
    BY DEF Reload
  <2>2. QED
    BY <1>1, <2>1, ShellFacts DEF ShellIsSane, Shell
<1>3. ShellsAreSane'
  <2>1. terminals' = [t \in Terminal |-> terminals'[t]]
    BY DEF Reload
  <2>2. QED
    BY <1>2, <2>1 DEF ShellsAreSane
<1>4. ASSUME NEW i \in Id
      PROVE  Good(i, sessions'[i]) /\ sessions'[i].terminal = NoTerminal
  <2> DEFINE s == sessions[i]
             r == sessions'[i]
  <2>1. s \in Session /\ SessionIsSane(s) /\ NoSession \in Session
    BY <1>1, SessionFacts DEF Session, NoSession
  <2>2. PICK known : r = IF s.card = NoCard THEN NoSession
                         ELSE [NoSession EXCEPT !.card = s.card, !.awaits =
                                 IF s.card.gone THEN NotWaiting
                                   ELSE IF s.awaits # NotWaiting THEN s.awaits
                                   ELSE IF i \in known THEN s.terminal ELSE NoTerminal]
    BY DEF Reload
  <2>3. NoSession.terminal = NoTerminal /\ ~NoSession.pending /\ NoSession.card = NoCard
    BY DEF NoSession
  <2>4. CASE s.card = NoCard
    <3>1. r = NoSession
      BY <2>2, <2>4
    <3>2. SessionIsSane(r) /\ IsReachable(r, terminals')
      BY <2>1, <2>3, <3>1 DEF SessionIsSane, CardIsSane, IsReachable, IsLive
    <3>3. QED
      BY <2>3, <3>1, <3>2 DEF Good, CardStep
  <2>5. CASE s.card # NoCard
    <3> DEFINE a == IF s.card.gone THEN NotWaiting
                      ELSE IF s.awaits # NotWaiting THEN s.awaits
                      ELSE IF i \in known THEN s.terminal ELSE NoTerminal
    <3>1. NotWaiting # NoTerminal /\ NotWaiting \notin Terminal
      BY BoundAssumption
    <3>2. a \in Terminal \cup {NoTerminal, NotWaiting} /\ (~s.card.gone => a # NotWaiting)
      BY <2>1, <3>1 DEF Session
    <3>3. r = [NoSession EXCEPT !.card = s.card, !.awaits = a]
      BY <2>2, <2>5
    <3> HIDE DEF a, r
    <3>4. r \in Session /\ r.card = s.card /\ r.terminal = NoTerminal /\ ~r.pending /\ r.awaits = a
      BY <2>1, <2>3, <3>2, <3>3 DEF Session
    <3>5. SessionIsSane(r)
      BY <2>1, <2>5, <3>4 DEF SessionIsSane
    <3>6. IsReachable(r, terminals')
      BY <2>1, <2>5, <3>2, <3>4 DEF SessionIsSane, CardIsSane, IsReachable
    <3>7. Good(i, r)
      BY <3>4, <3>5, <3>6 DEF Good, CardStep, StillRuns
    <3>8. QED
      BY <3>4, <3>7 DEF r
  <2>6. QED
    BY <2>4, <2>5
<1>5. sessions' = [i \in Id |-> sessions'[i]]
  BY DEF Reload
<1>6. GoodStep(sessions')
  BY <1>4, <1>5 DEF GoodStep, Same, Apart
<1>7. AttachingIsOpen'
  <2>1. attaching' = {t \in Terminal : terminals'[t].status = "open" /\ \E i \in Id : sessions'[i].awaits = t}
    BY DEF Reload
  <2>2. QED
    BY <2>1 DEF AttachingIsOpen
<1>8. (reloads \in 0..MaxReloads)' /\ (offered \subseteq Terminal)'
  <2>1. reloads \in 0..MaxReloads /\ reloads < MaxReloads /\ reloads' = reloads + 1 /\ MaxReloads \in Nat
        /\ offered' = {}
    BY BoundAssumption DEF IInv, Reload
  <2>2. QED
    BY <2>1
<1>9. QED
  BY <1>3, <1>6, <1>7, <1>8 DEF StepIsGood

-----------------------------------------------------------------------------
(* The invariant                                                            *)

LEMMA StepsAreGood ==
    ASSUME IInv, Next
    PROVE  StepIsGood
<1>1. ASSUME NEW t \in Terminal,
             \/ Environment(t) \/ OnDidStartExecution(t) \/ OnDidExecuteInside(t)
             \/ OnDidEndExecution(t) \/ OnDidCloseTerminal(t) \/ Output(t) \/ Attach(t)
      PROVE  StepIsGood
  BY <1>1, EnvironmentIsGood, OnDidStartExecutionIsGood, OnDidExecuteInsideIsGood,
     OnDidEndExecutionIsGood, OnDidCloseTerminalIsGood, OutputIsGood, AttachIsGood
<1>2. ASSUME NEW i \in Id,
             \/ ExecuteCommand(i) \/ TypeCommand(i) \/ Focus(i) \/ Stop(i)
             \/ RestartThere(i) \/ Dismiss(i) \/ Waits(i) \/ GoesOn(i)
      PROVE  StepIsGood
  BY <1>2, ExecuteCommandIsGood, TypeCommandIsGood, FocusIsGood, StopIsGood,
     RestartThereIsGood, DismissIsGood, WaitsIsGood
<1>3. ASSUME NEW i \in Id, NEW t \in Terminal, Start(i, t) \/ PickTerminal(i, t) \/ RestartInNew(i, t)
      PROVE  StepIsGood
  BY <1>3, StartIsGood, PickTerminalIsGood, RestartInNewIsGood
<1>4. ASSUME AdoptPick \/ LeavePick \/ ClearEnded \/ Reload \/ GiveUp
      PROVE  StepIsGood
  BY <1>4, PickIsGood, ClearEndedIsGood, ReloadIsGood, GiveUpIsGood
<1>5. QED
  BY <1>1, <1>2, <1>3, <1>4 DEF Next

\* IInv holds at first, and every step keeps it.
LEMMA IInvHolds == Spec => []IInv
<1>1. Init => IInv
  <2> SUFFICES ASSUME Init PROVE IInv
    OBVIOUS
  <2>1. NoSession \in Session /\ NoSession.card = NoCard /\ ~NoSession.pending
        /\ NoSession.terminal = NoTerminal
    BY DEF NoSession, Session
  <2>2. \A i \in Id : sessions[i] = NoSession
    BY DEF Init
  <2>3. SessionsAreSane
    BY <2>1, <2>2 DEF Init, SessionsAreSane, SessionIsSane, CardIsSane
  <2>4. SessionsAreReachable /\ OneSessionEach
    BY <2>1, <2>2 DEF SessionsAreReachable, IsReachable, IsLive, OneSessionEach
  <2>5. NewTerminal \in Shell /\ NewTerminal.queue = <<>> /\ NewTerminal.running = NoExecution
    BY DEF NewTerminal, Shell
  <2>6. ShellIsSane(ClosedTerminal)
    BY <2>5 DEF ClosedTerminal, Shell, ShellIsSane
  <2>7. ShellsAreSane
    BY <2>6 DEF Init, ShellsAreSane
  <2>8. AttachingIsOpen /\ offered \subseteq Terminal /\ reloads \in 0..MaxReloads
    BY BoundAssumption DEF Init, AttachingIsOpen
  <2>9. QED
    BY <2>3, <2>4, <2>7, <2>8 DEF IInv
<1>2. IInv /\ [Next]_vars => IInv'
  <2> SUFFICES ASSUME IInv, [Next]_vars PROVE IInv'
    OBVIOUS
  <2>1. CASE Next
    BY <2>1, StepsAreGood, GoodStepKeeps DEF StepIsGood, IInv, Sessions
  <2>2. CASE UNCHANGED vars
    BY <2>2 DEF vars, IInv, SessionsAreSane, SessionsAreReachable,
                OneSessionEach, ShellsAreSane, AttachingIsOpen
  <2>3. QED
    BY <2>1, <2>2
<1>3. QED
  BY <1>1, <1>2, PTL DEF Spec

-----------------------------------------------------------------------------
(* Theorems                                                                 *)

\* Sessions of model/registry and terminals keep their types, and only a session
\* with a terminal has a command line that waits.
THEOREM TypeCorrect == Spec => []TypeOK
<1>1. IInv => TypeOK
  <2> SUFFICES ASSUME IInv PROVE TypeOK
    OBVIOUS
  <2>1. \A i \in Id : SessionIsSane(sessions[i])
    BY DEF IInv, SessionsAreSane
  <2>2. \A t \in Terminal : terminals[t] \in Shell /\ Elements(terminals[t].queue) \subseteq Execution
    BY ElementsOfQueue DEF IInv, ShellsAreSane, ShellIsSane, Shell
  <2>3. ASSUME NEW i \in Id
        PROVE  LET s == sessions[i] IN
               /\ s.card \in Card \cup {NoCard}
               /\ s.terminal \in Terminal \cup {NoTerminal}
               /\ s.execution \in Execution \cup {Inside, NoExecution}
               /\ s.pending \in BOOLEAN
               /\ s.pending => s.terminal # NoTerminal
               /\ s.awaits \in Terminal \cup {NoTerminal, NotWaiting}
               /\ s.late \in BOOLEAN
               /\ s.card = NoCard => s = NoSession
    BY <2>1 DEF SessionIsSane, Session
  <2>4. ASSUME NEW t \in Terminal
        PROVE  LET term == terminals[t] IN
               /\ term.status \in {"open", "closing", "closed"}
               /\ term.integrated \in BOOLEAN
               /\ {term.running, term.ended} \subseteq Execution \cup {NoExecution}
               /\ Elements(term.queue) \subseteq Execution
    BY <2>2 DEF Shell
  <2>5. attaching \cup offered \subseteq Terminal /\ reloads \in 0..MaxReloads
    BY DEF IInv, AttachingIsOpen
  <2>6. QED
    BY <2>3, <2>4, <2>5 DEF TypeOK
<1>2. QED
  BY <1>1, IInvHolds, PTL

\* A card whose agent may be running has a terminal that host/terminals did not
\* hear the end of, or waits for the one of before the reload, or is of a session
\* that adoptPick gave a terminal which was not free any more.
THEOREM LiveStaysReachable == Spec => []LiveIsReachable
<1>1. IInv => LiveIsReachable
  BY DEF IInv, SessionsAreReachable, IsReachable, LiveIsReachable
<1>2. QED
  BY <1>1, IInvHolds, PTL

\* Of the starts, ends and closings that host/terminals hears of, none ends a card
\* whose execution still runs or waits, by an exit or otherwise: only the output of
\* its terminal does, or a terminal that a session still waits for and gives up.
THEOREM OtherEndsAreSurvived == Spec => SurvivesOtherEnds
<1> DEFINE A == \A i \in Id :
          LET s == sessions[i]
              c == sessions'[i].card
          IN  /\ IsLive(s.card)
              /\ c # NoCard
              /\ ~IsLive(c)
              /\ s.terminal # NoTerminal
              /\ s.execution \in JobsOf(s.terminal) \ {terminals[s.terminal].ended}
              => s.awaits # NotWaiting \/ Output(s.terminal)
<1>1. IInv /\ [Next]_vars => [A]_vars
  <2> SUFFICES ASSUME IInv, Next PROVE A
    BY DEF vars
  <2>1. PICK new : GoodStep(new)
    BY StepsAreGood DEF StepIsGood
  <2>2. ASSUME NEW i \in Id, StillRuns(i)
        PROVE  sessions'[i].card = NoCard \/ IsLive(sessions'[i].card)
    <3>1. /\ Same(sessions'[i], new[i]) /\ SessionIsSane(new[i])
          /\ new[i].card = NoCard \/ IsLive(new[i].card)
      BY <2>1, <2>2 DEF GoodStep, Good
    <3>2. QED
      BY <3>1, SeenIsSane DEF IsLive
  <2>3. QED
    BY <2>2 DEF StillRuns
<1>2. QED
  BY <1>1, IInvHolds, PTL DEF Spec, SurvivesOtherEnds

\* What a step makes of a card, and the registry of its news, is a step of AgentSession.
LEMMA StepIsPromised ==
    ASSUME NEW i \in Id, NEW c, c = sessions[i].card, c \in Card \cup {NoCard}, NEW d, CardStep(c, d),
           sessions'[i].card = d \/ (d # NoCard /\ d.attention /\ sessions'[i].card = [d EXCEPT !.attention = FALSE])
    PROVE  UNCHANGED sessions[i].card \/ OfCard(i)!Next
<1> DEFINE f == sessions'[i].card
<1>1. /\ NewCard \in [state : {"starting", "working"}, attention : {FALSE}, gone : {FALSE}] /\ ~NewCard.attention
      /\ Started(NewCard) \in [state : {"starting", "working"}, attention : {FALSE}, gone : {FALSE}]
      /\ ~Started(NewCard).attention
  BY DEF NewCard, Started
<1>2. CASE d = c
  BY <1>2 DEF OfCard!Next, OfCard!See
<1>3. CASE d \in {NewCard, Started(NewCard)}
  <2>1. f = d
    BY <1>1, <1>3
  <2>2. QED
    BY <1>1, <1>3, <2>1 DEF OfCard!Next, OfCard!Appear, OfCard!Restart
<1>4. CASE d = NoCard
  BY <1>4 DEF OfCard!Next, OfCard!Dismiss
<1>5. CASE IsLive(c) /\ c.state # "working" /\ d = [c EXCEPT !.state = "working", !.attention = FALSE]
  <2>1. c \in Card /\ ~d.attention
    BY <1>5 DEF IsLive, Card
  <2>2. f = d
    BY <2>1
  <2>3. QED
    BY <1>5, <2>1, <2>2 DEF OfCard!Next, OfCard!Work, OfCard!IsLive, OfCard!Live, IsLive, Live
<1>6. CASE IsLive(c) /\ c.state # "waiting" /\ d = [c EXCEPT !.state = "waiting", !.attention = TRUE]
  <2>1. c \in Card /\ OfCard(i)!IsLive(c)
    BY <1>6 DEF IsLive, Live, OfCard!IsLive, OfCard!Live
  <2>2. PICK news \in BOOLEAN : f = [c EXCEPT !.state = "waiting", !.attention = news]
    BY <1>6, <2>1 DEF Card
  <2>3. QED
    BY <1>6, <2>1, <2>2 DEF OfCard!Next, OfCard!Wait
<1>7. CASE IsLive(c) /\ d = [c EXCEPT !.state = "finished", !.attention = TRUE]
  <2>1. c \in Card /\ OfCard(i)!IsLive(c)
    BY <1>7 DEF IsLive, Live, OfCard!IsLive, OfCard!Live
  <2>2. PICK news \in BOOLEAN : f = [c EXCEPT !.state = "finished", !.attention = news]
    BY <1>7, <2>1 DEF Card
  <2>3. QED
    BY <1>7, <2>1, <2>2 DEF OfCard!Next, OfCard!Exit
<1>8. CASE c # NoCard /\ ~c.gone /\ d = Closed(c)
  <2>1. c \in Card /\ (OfCard(i)!IsLive(c) <=> IsLive(c))
    BY <1>8 DEF IsLive, Live, OfCard!IsLive, OfCard!Live
  <2>2. PICK news \in {FALSE, c.attention /\ ~IsLive(c)} :
           f = [state |-> IF IsLive(c) THEN "closed" ELSE c.state, attention |-> news, gone |-> TRUE]
    <3>1. CASE IsLive(c)
      <4>1. d = [state |-> "closed", attention |-> FALSE, gone |-> TRUE]
        BY <1>8, <3>1 DEF Closed
      <4>2. QED
        BY <3>1, <4>1
    <3>2. CASE ~IsLive(c)
      <4>1. d = [c EXCEPT !.gone = TRUE]
        BY <1>8, <3>2 DEF Closed
      <4>2. d = [state |-> c.state, attention |-> c.attention, gone |-> TRUE]
        BY <2>1, <4>1 DEF Card
      <4>3. QED
        BY <2>1, <3>2, <4>2 DEF Card
    <3>3. QED
      BY <3>1, <3>2
  <2>3. OfCard(i)!Close
    BY <1>8, <2>1, <2>2 DEF OfCard!Close
  <2>4. QED
    BY <2>3 DEF OfCard!Next
<1>9. CASE c # NoCard /\ d = [c EXCEPT !.attention = FALSE]
  <2>1. c \in Card /\ ~d.attention
    BY <1>9 DEF Card
  <2>2. QED
    BY <1>9, <2>1 DEF OfCard!Next, OfCard!See
<1>10. QED
  BY <1>2, <1>3, <1>4, <1>5, <1>6, <1>7, <1>8, <1>9 DEF CardStep

\* Every card of the Agents view keeps the promises of AgentSession: the refinement,
\* for every session.
THEOREM CardsArePromised == Spec => CardsKeepPromises
<1> DEFINE B == \A i \in Id : UNCHANGED sessions[i].card \/ OfCard(i)!Next
           P == \A i \in Id : OfCard(i)!Init
<1>1. Init => P
  BY DEF Init, NoSession, OfCard!Init
<1>2. IInv /\ [Next]_vars => [B]_vars
  <2> SUFFICES ASSUME IInv, Next, NEW i \in Id PROVE UNCHANGED sessions[i].card \/ OfCard(i)!Next
    BY DEF vars
  <2>1. PICK new : GoodStep(new)
    BY StepsAreGood DEF StepIsGood
  <2>2. Same(sessions'[i], new[i]) /\ SessionIsSane(new[i]) /\ CardStep(sessions[i].card, new[i].card)
    BY <2>1 DEF GoodStep, Good
  <2>3. sessions[i].card \in Card \cup {NoCard} /\ new[i] \in Session
    BY <2>2, SessionFacts DEF IInv, Sessions, Session, SessionIsSane
  <2>4. \/ sessions'[i].card = new[i].card
        \/ /\ new[i].card # NoCard /\ new[i].card.attention
           /\ sessions'[i].card = [new[i].card EXCEPT !.attention = FALSE]
    BY <2>2, <2>3 DEF Same, HasNews, Session
  <2>5. QED
    BY <2>2, <2>3, <2>4, StepIsPromised
<1>3. QED
  BY <1>1, <1>2, IInvHolds, PTL DEF Spec, CardsKeepPromises


-----------------------------------------------------------------------------
(* The Sessions view                                                        *)

\* What is ordered strictly and totally can be listed by how many come before.
LEMMA RanksAreDistinct ==
    ASSUME NEW S, IsFiniteSet(S), NEW R \in SUBSET (S \X S),
           \A x \in S : <<x, x>> \notin R,
           \A x, y, z \in S : <<x, y>> \in R /\ <<y, z>> \in R => <<x, z>> \in R,
           \A x, y \in S : x = y \/ <<x, y>> \in R \/ <<y, x>> \in R
    PROVE  LET rank(x) == Cardinality({y \in S : <<y, x>> \in R})
           IN  /\ \A x \in S : rank(x) \in 0 .. Cardinality(S) - 1
               /\ \A x, y \in S : <<x, y>> \in R <=> rank(x) < rank(y)
               /\ \A x, y \in S : rank(x) = rank(y) => x = y
               /\ \A k \in 0 .. Cardinality(S) - 1 : \E x \in S : rank(x) = k
<1> DEFINE below(x) == {y \in S : <<y, x>> \in R}
           rank(x) == Cardinality(below(x))
           n == Cardinality(S)
<1>1. /\ n \in Nat
      /\ \A x \in S : IsFiniteSet(below(x)) /\ rank(x) \in Nat
  <2>1. \A x \in S : below(x) \in SUBSET S
    OBVIOUS
  <2>2. \A x \in S : IsFiniteSet(below(x))
    <3> HIDE DEF below
    <3> QED BY <2>1, FS_Subset
  <2>3. \A x \in S : rank(x) \in Nat
    <3> HIDE DEF below
    <3> QED BY <2>2, FS_CardinalityType
  <2> QED BY <2>2, <2>3, FS_CardinalityType
<1>2. \A x \in S : rank(x) < n
  <2> SUFFICES ASSUME NEW x \in S PROVE rank(x) < n
    OBVIOUS
  <2>1. below(x) \in SUBSET S /\ below(x) # S
    OBVIOUS
  <2> HIDE DEF below
  <2>2. rank(x) <= n /\ rank(x) # n
    BY <2>1, FS_Subset
  <2> QED BY <1>1, <2>2
<1>3. ASSUME NEW x \in S, NEW y \in S, <<x, y>> \in R
      PROVE  rank(x) < rank(y)
  <2>1. below(x) \in SUBSET below(y) /\ below(x) # below(y)
    BY <1>3
  <2>2. IsFiniteSet(below(y)) /\ rank(x) \in Nat /\ rank(y) \in Nat
    BY <1>1
  <2> HIDE DEF below
  <2>3. rank(x) <= rank(y) /\ rank(x) # rank(y)
    BY <2>1, <2>2, FS_Subset
  <2> QED BY <2>2, <2>3
<1>4. \A x, y \in S : <<x, y>> \in R <=> rank(x) < rank(y)
  <2> SUFFICES ASSUME NEW x \in S, NEW y \in S, rank(x) < rank(y) PROVE <<x, y>> \in R
    BY <1>3
  <2>1. rank(x) \in Nat /\ rank(y) \in Nat
    BY <1>1
  <2>2. x # y
    <3> HIDE DEF rank
    <3> QED BY <2>1
  <2>3. <<y, x>> \notin R
    <3> SUFFICES ASSUME <<y, x>> \in R PROVE FALSE
      OBVIOUS
    <3>1. rank(y) < rank(x)
      BY <1>3
    <3> HIDE DEF rank
    <3> QED BY <2>1, <3>1
  <2> QED BY <2>2, <2>3
<1>5. \A x, y \in S : rank(x) = rank(y) => x = y
  <2> SUFFICES ASSUME NEW x \in S, NEW y \in S, rank(x) = rank(y), x # y PROVE FALSE
    OBVIOUS
  <2>1. <<x, y>> \in R \/ <<y, x>> \in R
    OBVIOUS
  <2>2. rank(x) \in Nat /\ rank(y) \in Nat
    BY <1>1
  <2> HIDE DEF rank
  <2> QED BY <1>3, <2>1, <2>2
<1>6. \A k \in 0 .. n - 1 : \E x \in S : rank(x) = k
  <2> DEFINE f == [x \in S |-> rank(x)]
  <2> HIDE DEF rank
  <2>1. f \in Injection(S, 0 .. n - 1)
    <3>1. f \in [S -> 0 .. n - 1]
      <4> SUFFICES ASSUME NEW x \in S PROVE rank(x) \in 0 .. n - 1
        OBVIOUS
      <4>1. rank(x) \in Nat /\ n \in Nat /\ rank(x) < n
        BY <1>1, <1>2
      <4> HIDE DEF rank, n
      <4> QED BY <4>1
    <3>2. IsInjective(f)
      BY <1>5 DEF IsInjective
    <3> HIDE DEF f, n
    <3> QED BY <3>1, <3>2 DEF Injection
  <2>2. IsFiniteSet(0 .. n - 1) /\ Cardinality(0 .. n - 1) = n
    <3>1. 0 \in Int /\ n - 1 \in Int
      BY <1>1
    <3> HIDE DEF n
    <3>2. IsFiniteSet(0 .. n - 1) /\ Cardinality(0 .. n - 1) = IF 0 > n - 1 THEN 0 ELSE n - 1 - 0 + 1
      BY <3>1, FS_Interval
    <3> QED BY <1>1, <3>2
  <2> HIDE DEF f
  <2>3. f \in Surjection(S, 0 .. n - 1)
    BY <2>1, <2>2, FS_Injection
  <2> QED BY <2>3 DEF Surjection, f
<1> HIDE DEF rank, below
<1>7. /\ \A x \in S : rank(x) \in 0 .. n - 1
      /\ \A x, y \in S : <<x, y>> \in R <=> rank(x) < rank(y)
      /\ \A x, y \in S : rank(x) = rank(y) => x = y
      /\ \A k \in 0 .. n - 1 : \E x \in S : rank(x) = k
  BY <1>1, <1>2, <1>4, <1>5, <1>6
<1> QED BY <1>7 DEF rank, below

-----------------------------------------------------------------------------
(* The cards                                                                *)

LEMMA AgeIs ==
    ASSUME ViewTypeOK
    PROVE  /\ Cardinality(SessionId) \in Nat
           /\ \A i \in SessionId : Age(i) \in 1 .. Cardinality(SessionId) /\ recent[Age(i)] = i
<1>1. Cardinality(SessionId) \in Nat
  BY ViewBounds, FS_CardinalityType
<1> SUFFICES ASSUME NEW i \in SessionId
             PROVE  Age(i) \in 1 .. Cardinality(SessionId) /\ recent[Age(i)] = i
  BY <1>1
<1>2. \E k \in DOMAIN recent : recent[k] = i
  BY DEF ViewTypeOK, Range
<1>3. Age(i) \in DOMAIN recent /\ recent[Age(i)] = i
  BY <1>2 DEF Age
<1> QED BY <1>3 DEF ViewTypeOK

LEMMA RankIs == ASSUME NEW c \in Summary PROVE Rank(c) \in 0 .. 4
BY DEF Rank, Summary

\* Cards are shown each once, from what needs the user first to what is done, and
\* what changed last before what changed earlier (orderSessions).
THEOREM OrderListsPresent ==
    ASSUME ViewTypeOK
    PROVE  /\ OrderSessions \in Seq(SessionId)
           /\ Range(OrderSessions) = Present
           /\ Len(OrderSessions) = Cardinality(Present)
           /\ \A k, l \in DOMAIN OrderSessions : k < l => IsAbove(OrderSessions[k], OrderSessions[l])
<1> DEFINE R == {p \in Present \X Present : IsAbove(p[1], p[2])}
           below(x) == {y \in Present : <<y, x>> \in R}
           n == Cardinality(Present)
<1>1. Present \in SUBSET SessionId
  BY DEF Present
<1>2. IsFiniteSet(Present) /\ n \in Nat
  BY <1>1, ViewBounds, FS_Subset, FS_CardinalityType
<1>3. \A i \in Present : Rank(cards[i]) \in 0 .. 4
  BY RankIs DEF ViewTypeOK, Present
<1>4. \A i \in Present : Age(i) \in Nat /\ recent[Age(i)] = i
  BY <1>1, AgeIs
<1>5. \A x, y \in Present : <<x, y>> \in R <=> IsAbove(x, y)
  OBVIOUS
<1>6. /\ R \in SUBSET (Present \X Present)
      /\ \A x \in Present : <<x, x>> \notin R
      /\ \A x, y, z \in Present : <<x, y>> \in R /\ <<y, z>> \in R => <<x, z>> \in R
      /\ \A x, y \in Present : x = y \/ <<x, y>> \in R \/ <<y, x>> \in R
  <2>1. R \in SUBSET (Present \X Present)
    OBVIOUS
  <2> HIDE DEF R
  <2>2. \A x \in Present : <<x, x>> \notin R
    BY <1>3, <1>4, <1>5 DEF IsAbove
  <2>3. \A x, y, z \in Present : <<x, y>> \in R /\ <<y, z>> \in R => <<x, z>> \in R
    BY <1>3, <1>4, <1>5 DEF IsAbove
  <2>4. \A x, y \in Present : x = y \/ <<x, y>> \in R \/ <<y, x>> \in R
    <3> SUFFICES ASSUME NEW x \in Present, NEW y \in Present, x # y
                 PROVE  IsAbove(x, y) \/ IsAbove(y, x)
      BY <1>5
    <3>1. Age(x) \in Nat /\ Age(y) \in Nat /\ Age(x) # Age(y)
      BY <1>4
    <3>2. Rank(cards[x]) \in Nat /\ Rank(cards[y]) \in Nat
      BY <1>3
    <3> QED BY <3>1, <3>2 DEF IsAbove
  <2> QED BY <2>1, <2>2, <2>3, <2>4
<1>7. \A x \in Present : below(x) = {y \in Present : IsAbove(y, x)}
  BY <1>5
<1> HIDE DEF R
<1>8. /\ \A x \in Present : Cardinality(below(x)) \in 0 .. n - 1
      /\ \A x, y \in Present : <<x, y>> \in R <=> Cardinality(below(x)) < Cardinality(below(y))
      /\ \A x, y \in Present : Cardinality(below(x)) = Cardinality(below(y)) => x = y
      /\ \A k \in 0 .. n - 1 : \E x \in Present : Cardinality(below(x)) = k
  BY <1>2, <1>6, RanksAreDistinct
<1> HIDE DEF below
<1>9. OrderSessions = [k \in 1 .. n |-> CHOOSE i \in Present : Cardinality(below(i)) = k - 1]
  <2>1. \A i \in Present : Cardinality({j \in Present : IsAbove(j, i)}) = Cardinality(below(i))
    BY <1>7
  <2> QED BY <2>1 DEF OrderSessions
<1> HIDE DEF n
<1>10. \A k \in 1 .. n : OrderSessions[k] \in Present /\ Cardinality(below(OrderSessions[k])) = k - 1
  <2> SUFFICES ASSUME NEW k \in 1 .. n
               PROVE  OrderSessions[k] \in Present /\ Cardinality(below(OrderSessions[k])) = k - 1
    OBVIOUS
  <2>1. k - 1 \in 0 .. n - 1
    BY <1>2
  <2>2. \E i \in Present : Cardinality(below(i)) = k - 1
    BY <1>8, <2>1
  <2>3. OrderSessions[k] = CHOOSE i \in Present : Cardinality(below(i)) = k - 1
    BY <1>9
  <2> QED BY <2>2, <2>3
<1>11. DOMAIN OrderSessions = 1 .. n
  BY <1>9
<1>12. OrderSessions \in Seq(SessionId) /\ Len(OrderSessions) = n
  <2>1. OrderSessions \in [1 .. n -> SessionId]
    BY <1>1, <1>9, <1>10
  <2> QED BY <1>2, <2>1
<1>13. Range(OrderSessions) = Present
  <2>1. \A k \in DOMAIN OrderSessions : OrderSessions[k] \in Present
    BY <1>10, <1>11
  <2>2. ASSUME NEW x \in Present PROVE \E k \in DOMAIN OrderSessions : OrderSessions[k] = x
    <3>1. Cardinality(below(x)) + 1 \in 1 .. n
      BY <1>2, <1>8
    <3>2. OrderSessions[Cardinality(below(x)) + 1] = x
      BY <1>2, <1>8, <1>10, <3>1
    <3> QED BY <1>11, <3>1, <3>2
  <2> QED BY <2>1, <2>2 DEF Range
<1>14. ASSUME NEW k \in 1 .. n, NEW l \in 1 .. n, k < l
       PROVE  IsAbove(OrderSessions[k], OrderSessions[l])
  <2>1. Cardinality(below(OrderSessions[k])) < Cardinality(below(OrderSessions[l]))
    BY <1>2, <1>10, <1>14
  <2> QED BY <1>5, <1>8, <1>10, <2>1
<1> QED BY <1>11, <1>12, <1>13, <1>14 DEF n

-----------------------------------------------------------------------------
(* The inductive invariant                                                  *)

ViewIInv == ViewTypeOK /\ RovingTabStop

LEMMA StatusTyped == ASSUME ViewTypeOK PROVE WindowStatus \in [working : Nat, attention : Nat]
<1> DEFINE working == {i \in Present : cards[i].state = "working"}
           attention == {i \in Present : cards[i].attention \/ cards[i].state = "waiting"}
<1>1. Present \in SUBSET SessionId
  BY DEF Present
<1>2. working \in SUBSET SessionId /\ attention \in SUBSET SessionId
  BY <1>1
<1>3. WindowStatus = [working |-> Cardinality(working), attention |-> Cardinality(attention)]
  BY DEF WindowStatus
<1> HIDE DEF working, attention
<1>4. Cardinality(working) \in Nat /\ Cardinality(attention) \in Nat
  BY <1>2, ViewBounds, FS_Subset, FS_CardinalityType
<1> QED BY <1>3, <1>4

\* What a refresh tells the tab and posts to the page.
LEMMA ShowTyped ==
    ASSUME ViewTypeOK, NEW said \in 0 .. MaxRow, Show(said)
    PROVE  /\ tab' \in [working : Nat, attention : Nat]
           /\ inbox' \in Seq(Posted) /\ Len(inbox') <= MaxInbox
<1>1. tab' \in [working : Nat, attention : Nat]
  BY StatusTyped DEF Show
<1>2. Message(changes, said) \in Posted
  BY OrderListsPresent DEF Message, Posted, ViewTypeOK
<1>3. inbox' = inbox \/ (Len(inbox) < MaxInbox /\ inbox' = Append(inbox, Message(changes, said)))
  BY DEF Show, Post
<1>4. inbox \in Seq(Posted) /\ Len(inbox) <= MaxInbox /\ MaxInbox \in Nat
  BY ViewBounds DEF ViewTypeOK
<1> DEFINE message == Message(changes, said)
<1> HIDE DEF message
<1>5. message \in Posted /\ (inbox' = inbox \/ (Len(inbox) < MaxInbox /\ inbox' = Append(inbox, message)))
  BY <1>2, <1>3 DEF message
<1>6. inbox' \in Seq(Posted) /\ Len(inbox') <= MaxInbox
  BY <1>4, <1>5
<1> QED BY <1>1, <1>6

LEMMA NewestTyped ==
    ASSUME ViewTypeOK, NEW i \in SessionId
    PROVE  Newest(i) \in [1 .. Cardinality(SessionId) -> SessionId] /\ Range(Newest(i)) = SessionId
<1> DEFINE n == Cardinality(SessionId)
           at == Age(i)
<1>1. /\ n \in Nat /\ at \in 1 .. n /\ recent[at] = i
      /\ recent \in [1 .. n -> SessionId] /\ Range(recent) = SessionId
  BY AgeIs DEF ViewTypeOK
<1>2. Newest(i) = [k \in 1 .. n |->
                     IF k = 1 THEN i ELSE IF k <= at THEN recent[k - 1] ELSE recent[k]]
  BY <1>1 DEF Newest
<1> HIDE DEF n, at
<1>3. Newest(i) \in [1 .. n -> SessionId]
  <2> SUFFICES ASSUME NEW k \in 1 .. n, k # 1, k <= at
               PROVE  recent[k - 1] \in SessionId
    BY <1>1, <1>2
  <2>1. k - 1 \in 1 .. n
    BY <1>1
  <2> QED BY <1>1, <2>1
<1>4. ASSUME NEW j \in SessionId PROVE \E k \in 1 .. n : Newest(i)[k] = j
  <2>1. PICK k \in 1 .. n : recent[k] = j
    BY <1>1 DEF Range
  <2>2. CASE k = at
    <3>1. 1 \in 1 .. n /\ Newest(i)[1] = i
      BY <1>1, <1>2
    <3> QED BY <1>1, <2>1, <2>2, <3>1
  <2>3. CASE k < at
    <3>1. k + 1 \in 1 .. n /\ k + 1 # 1 /\ k + 1 <= at /\ (k + 1) - 1 = k
      BY <1>1, <2>3
    <3>2. Newest(i)[k + 1] = j
      BY <1>2, <2>1, <3>1
    <3> QED BY <3>1, <3>2
  <2>4. CASE k > at
    <3>1. k # 1 /\ ~(k <= at)
      BY <1>1, <2>4
    <3> QED BY <1>2, <2>1, <3>1
  <2> QED BY <1>1, <2>2, <2>3, <2>4
<1>5. Range(Newest(i)) = SessionId
  BY <1>2, <1>3, <1>4 DEF Range
<1> QED BY <1>3, <1>5 DEF n

\* Where the tab stop goes when a message is drawn.
LEMMA TabStopIs ==
    ASSUME ViewTypeOK, NEW message \in Posted
    PROVE  /\ TabStop(message) \in SessionId \cup {NoId}
           /\ CardsOf(message) \subseteq SessionId
           /\ message.order # <<>> => TabStop(message) \in CardsOf(message)
           /\ message.order = <<>> => TabStop(message) = NoId /\ CardsOf(message) = {}
           /\ currentId \in CardsOf(message) => TabStop(message) = currentId
<1>1. message.order \in Seq(SessionId)
  BY DEF Posted
<1>2. CardsOf(message) \subseteq SessionId
  BY <1>1 DEF CardsOf, Range
<1>3. message.order # <<>> => Head(message.order) \in CardsOf(message)
  BY <1>1 DEF CardsOf, Range
<1>4. message.order = <<>> => CardsOf(message) = {}
  BY DEF CardsOf, Range
<1> HIDE DEF CardsOf
<1> QED BY <1>2, <1>3, <1>4 DEF TabStop

LEMMA ViewInitIInv == ViewInit => ViewIInv
<1> SUFFICES ASSUME ViewInit PROVE ViewIInv
  OBVIOUS
<1> DEFINE n == Cardinality(SessionId)
<1>1. SetToSeq(SessionId) \in [1 .. n -> SessionId] /\ Range(SetToSeq(SessionId)) = SessionId
  <2>1. IsFiniteSet(SessionId) /\ n \in Nat /\ ExistsBijection(1 .. n, SessionId)
    BY ViewBounds, FS_CardinalityType
  <2>2. \E f \in [1 .. n -> SessionId] : IsInjective(f)
    BY <2>1 DEF ExistsBijection, Bijection, Injection
  <2>3. SetToSeq(SessionId) \in [1 .. n -> SessionId] /\ IsInjective(SetToSeq(SessionId))
    BY <2>2 DEF SetToSeq
  <2> DEFINE f == SetToSeq(SessionId)
  <2>4. f \in Injection(1 .. n, SessionId)
    BY <2>3 DEF Injection
  <2>5. Cardinality(1 .. n) = n
    BY <2>1, FS_Interval
  <2> HIDE DEF f, n
  <2>6. f \in Surjection(1 .. n, SessionId)
    BY <2>1, <2>4, <2>5, FS_Injection DEF n
  <2>7. f \in [1 .. n -> SessionId] /\ \A t \in SessionId : \E s \in 1 .. n : f[s] = t
    BY <2>6 DEF Surjection
  <2>8. Range(f) = SessionId
    BY <2>7 DEF Range
  <2> QED BY <2>7, <2>8 DEF f
<1>2. Nothing \in Posted
  BY ViewBounds DEF Nothing, Posted
<1>3. CardsOf(Nothing) = {} /\ Nothing.order = <<>>
  BY DEF CardsOf, Nothing, Range
<1>4. <<0>> \in Seq(0 .. MaxRow) /\ Len(<<0>>) <= MaxAsked /\ Len(<<>>) <= MaxInbox
  BY ViewBounds
<1>5. <<>> \in Seq(Posted)
  OBVIOUS
<1> HIDE DEF Nothing, Posted
<1>6. ViewTypeOK
  <2>1. cards \in [SessionId -> Summary \cup {NoId}]
    BY DEF ViewInit
  <2>2. recent \in [1 .. n -> SessionId] /\ Range(recent) = SessionId
    BY <1>1 DEF ViewInit
  <2>3. tab \in [working : Nat, attention : Nat]
    BY DEF ViewInit, NoStatus
  <2>4. 0 \in 0 .. MaxRow /\ 0 \in 0 .. MaxChanges
    BY ViewBounds
  <2> QED BY <1>2, <1>4, <1>5, <2>1, <2>2, <2>3, <2>4 DEF ViewInit, ViewTypeOK
<1>7. RovingTabStop
  BY <1>3 DEF ViewInit, RovingTabStop
<1> QED BY <1>6, <1>7 DEF ViewIInv

\* Delete leads to a card that is on screen.
LEMMA NeighbourIsCard ==
    ASSUME ViewIInv, DeleteKey
    PROVE  focused' = currentId' /\ focused' \in CardsOf(shown)
<1> DEFINE order == shown.order
           at == CHOOSE k \in DOMAIN order : order[k] = focused
<1>1. order \in Seq(SessionId) /\ focused \in CardsOf(shown)
  BY DEF ViewIInv, ViewTypeOK, Posted, RovingTabStop, DeleteKey
<1>2. \E k \in DOMAIN order : order[k] = focused
  BY <1>1 DEF CardsOf, Range
<1>3. at \in DOMAIN order
  BY <1>2
<1>4. focused' = currentId'
  BY DEF DeleteKey
<1>5. focused' = CASE at + 1 \in DOMAIN order -> order[at + 1]
                   [] at + 1 \notin DOMAIN order /\ at > 1 -> order[at - 1]
                   [] OTHER -> focused
  BY DEF DeleteKey
<1> HIDE DEF at
<1>6. at > 1 => at - 1 \in DOMAIN order
  BY <1>1, <1>3
<1>7. \A k \in DOMAIN order : order[k] \in CardsOf(shown)
  BY DEF CardsOf, Range
<1> HIDE DEF order
<1> QED BY <1>1, <1>4, <1>5, <1>6, <1>7

LEMMA ViewStepKeepsType == ASSUME ViewIInv, ViewNext PROVE ViewTypeOK'
<1> USE DEF ViewIInv
<1>1. ASSUME NEW i \in SessionId, SessionChanges(i) PROVE ViewTypeOK'
  <2>1. PICK c \in Summary \cup {NoId} :
            /\ cards' = [cards EXCEPT ![i] = c]
            /\ recent' = recent \/ recent' = Newest(i)
    BY <1>1 DEF SessionChanges
  <2>2. cards' \in [SessionId -> Summary \cup {NoId}]
    BY <2>1 DEF ViewTypeOK
  <2>3. recent' \in [1 .. Cardinality(SessionId) -> SessionId] /\ Range(recent') = SessionId
    BY <2>1, NewestTyped DEF ViewTypeOK
  <2>4. changes' \in 0 .. MaxChanges
    BY <1>1, ViewBounds DEF SessionChanges, ViewTypeOK
  <2>5. timer' \in {"off", "cards", "all"}
    BY <1>1 DEF SessionChanges, RefreshSoon, ViewTypeOK
  <2> QED BY <1>1, <2>2, <2>3, <2>4, <2>5 DEF SessionChanges, ViewTypeOK, display
<1>2. ASSUME NEW i \in SessionId, FocusCard(i) PROVE ViewTypeOK'
  BY <1>2 DEF FocusCard, ViewTypeOK, model, host
<1>3. CASE RowChanges
  <2>1. row' \in 0 .. MaxRow
    BY <1>3, ViewBounds DEF RowChanges, ViewTypeOK
  <2>2. timer' \in {"off", "cards", "all"}
    BY <1>3 DEF RowChanges, RefreshSoon
  <2> QED BY <1>3, <2>1, <2>2 DEF RowChanges, ViewTypeOK, display
<1>4. ASSUME Ask PROVE asked' \in Seq(0 .. MaxRow) /\ Len(asked') <= MaxAsked
  <2>1. asked \in Seq(0 .. MaxRow) /\ row \in 0 .. MaxRow /\ MaxAsked \in Nat
    BY ViewBounds DEF ViewTypeOK
  <2> QED BY <1>4, <2>1 DEF Ask
<1>5. CASE TimerFires
  <2>1. asked' \in Seq(0 .. MaxRow) /\ Len(asked') <= MaxAsked
    BY <1>4, <1>5 DEF TimerFires, ViewTypeOK
  <2>2. /\ tab' \in [working : Nat, attention : Nat]
        /\ inbox' \in Seq(Posted) /\ Len(inbox') <= MaxInbox
    <3>1. rows \in 0 .. MaxRow
      BY DEF ViewTypeOK
    <3> QED BY <1>5, <3>1, ShowTyped DEF TimerFires, ViewTypeOK
  <2> QED BY <1>5, <2>1, <2>2 DEF TimerFires, ViewTypeOK, model
<1>6. CASE Answered
  <2>1. Head(asked) \in 0 .. MaxRow /\ Tail(asked) \in Seq(0 .. MaxRow) /\ Len(Tail(asked)) <= MaxAsked
    <3>1. asked \in Seq(0 .. MaxRow) /\ asked # <<>> /\ Len(asked) <= MaxAsked /\ MaxAsked \in Nat
      BY <1>6, ViewBounds DEF Answered, ViewTypeOK
    <3> DEFINE Said == 0 .. MaxRow
    <3> HIDE DEF Said
    <3>2. asked \in Seq(Said)
      BY <3>1 DEF Said
    <3>3. Head(asked) \in Said /\ Tail(asked) \in Seq(Said) /\ Len(Tail(asked)) <= MaxAsked
      BY <3>1, <3>2
    <3> QED BY <3>3 DEF Said
  <2>2. /\ tab' \in [working : Nat, attention : Nat]
        /\ inbox' \in Seq(Posted) /\ Len(inbox') <= MaxInbox
    BY <1>6, <2>1, ShowTyped DEF Answered
  <2> QED BY <1>6, <2>1, <2>2 DEF Answered, ViewTypeOK, model
<1>7. CASE ResolveView
  BY <1>7 DEF ResolveView, ViewTypeOK, model
<1>8. Nothing \in Posted /\ <<>> \in Seq(Posted) /\ Len(<<>>) <= MaxInbox
  BY ViewBounds DEF Nothing, Posted
<1>9. CASE Hide
  BY <1>8, <1>9 DEF Hide, NoDocument, ViewTypeOK, model, host
<1>10. CASE Reveal
  BY <1>10 DEF Reveal, RefreshSoon, ViewTypeOK, model
<1>11. CASE DisposeView
  BY <1>8, <1>11 DEF DisposeView, NoDocument, ViewTypeOK, model
<1>12. CASE PageLoads
  BY <1>12 DEF PageLoads, ViewTypeOK, model, host
<1>13. CASE OnReady
  BY <1>4, <1>13 DEF OnReady, ViewTypeOK, model
<1>14. CASE Render
  <2>1. /\ Head(inbox) \in Posted
        /\ Tail(inbox) \in Seq(Posted) /\ Len(Tail(inbox)) <= MaxInbox
    <3>1. inbox \in Seq(Posted) /\ inbox # <<>> /\ Len(inbox) <= MaxInbox /\ MaxInbox \in Nat
      BY <1>14, ViewBounds DEF Render, ViewTypeOK
    <3> QED BY <3>1
  <2>2. {currentId', focused'} \subseteq SessionId \cup {NoId}
    BY <1>14, <2>1, TabStopIs DEF Render, ViewTypeOK
  <2> QED BY <1>14, <2>1, <2>2 DEF Render, ViewTypeOK, model, host
<1>15. CASE DeleteKey
  <2>1. focused' = currentId' /\ focused' \in CardsOf(shown) \cup {focused}
    BY <1>15, NeighbourIsCard
  <2>2. CardsOf(shown) \subseteq SessionId
    BY TabStopIs DEF ViewTypeOK
  <2> QED BY <1>15, <2>1, <2>2 DEF DeleteKey, ViewTypeOK, model, host
<1> QED BY <1>1, <1>2, <1>3, <1>5, <1>6, <1>7, <1>9, <1>10, <1>11, <1>12, <1>13, <1>14, <1>15
        DEF ViewNext

LEMMA ViewStepKeepsTabStop == ASSUME ViewIInv, ViewNext PROVE RovingTabStop'
<1> USE DEF ViewIInv
<1>1. ASSUME UNCHANGED <<shown, currentId, focused>> PROVE RovingTabStop'
  BY <1>1 DEF RovingTabStop, CardsOf
<1>2. ASSUME NoDocument PROVE RovingTabStop'
  BY <1>2 DEF NoDocument, RovingTabStop, Nothing, CardsOf
<1>3. ASSUME NEW i \in SessionId, FocusCard(i) PROVE RovingTabStop'
  BY <1>3 DEF FocusCard, RovingTabStop, CardsOf
<1>4. CASE Render
  <2>1. Head(inbox) \in Posted
    <3>1. inbox \in Seq(Posted) /\ inbox # <<>>
      BY <1>4 DEF Render, ViewTypeOK
    <3> QED BY <3>1
  <2> DEFINE message == Head(inbox)
  <2>2. /\ shown' = message /\ currentId' = TabStop(message)
        /\ focused' = IF focused = NoId \/ focused \in CardsOf(message) THEN focused ELSE TabStop(message)
    BY <1>4 DEF Render
  <2>3. CardsOf(shown') = CardsOf(message)
    BY <2>2
  <2>4. focused # NoId => focused = currentId
    BY DEF RovingTabStop
  <2> HIDE DEF message
  <2> QED BY <2>1, <2>2, <2>3, <2>4, TabStopIs DEF RovingTabStop, message
<1>5. CASE DeleteKey
  <2>1. focused' = currentId' /\ focused' \in CardsOf(shown) /\ CardsOf(shown') = CardsOf(shown)
    BY <1>5, NeighbourIsCard DEF DeleteKey, CardsOf
  <2> QED BY <1>5, <2>1 DEF DeleteKey, RovingTabStop
<1> QED BY <1>1, <1>2, <1>3, <1>4, <1>5
        DEF ViewNext, SessionChanges, RowChanges, TimerFires, Answered, ResolveView, Hide, Reveal,
            DisposeView, PageLoads, OnReady, display

LEMMA ViewIInvHolds == ViewSpec => []ViewIInv
<1>1. ASSUME ViewIInv, [ViewNext]_viewVars PROVE ViewIInv'
  <2>1. CASE ViewNext
    BY <1>1, <2>1, ViewStepKeepsType, ViewStepKeepsTabStop DEF ViewIInv
  <2>2. CASE UNCHANGED viewVars
    <3>1. ViewTypeOK'
      BY <1>1, <2>2 DEF ViewIInv, ViewTypeOK, viewVars, model, host, display
    <3>2. RovingTabStop'
      BY <1>1, <2>2 DEF ViewIInv, RovingTabStop, CardsOf, viewVars, model, host, display
    <3> QED BY <3>1, <3>2 DEF ViewIInv
  <2> QED BY <1>1, <2>1, <2>2
<1> QED BY <1>1, ViewInitIInv, PTL DEF ViewSpec

\* Everything keeps its type, and there is a document only for a view on screen.
THEOREM ViewTypeCorrect == ViewSpec => []ViewTypeOK
<1>1. ViewIInv => ViewTypeOK
  BY DEF ViewIInv
<1> QED BY <1>1, ViewIInvHolds, PTL

\* One card is reachable by Tab as long as there is one, and it is the one with the
\* focus if any has it, whatever cards come and go while messages wait (render,
\* createCard, onListKeyDown).
THEOREM RovingTabStopHolds == ViewSpec => []RovingTabStop
<1>1. ViewIInv => RovingTabStop
  BY DEF ViewIInv
<1> QED BY <1>1, ViewIInvHolds, PTL
====
