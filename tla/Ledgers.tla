------------------------------- MODULE Ledgers -------------------------------
(***************************************************************************)
(* The ledgers of Chandra as the window sees them: the append-only files   *)
(* of the workspace, the file watchers and the debouncer that report what  *)
(* happened to them, the LedgerService that finds, reads and folds them,   *)
(* and the cache that parses a file from where the last read stopped.      *)
(*                                                                         *)
(* A file is a sequence of whole lines, each worth two bytes, and perhaps  *)
(* half a line behind them; a line is known by the version of the file     *)
(* that brought it, and is a row when it parses. Every file lies in a directory of    *)
(* its own that belongs to one paper. A version counts what happened to a  *)
(* file; the code has no such number, the properties compare by it.        *)
(***************************************************************************)
EXTENDS Naturals, FiniteSets, Sequences, SequencesExt

CONSTANTS
    File,        \* the ledger files that may exist below the ledger roots
    Papers,      \* the papers
    PaperOf,     \* the paper of each file
    AtStart,     \* the files that are there when the window opens
    MaxLines,    \* lines of a file
    MaxEvents    \* changes of the disk, faults and reloads together

ASSUME BoundsAssumption == MaxLines \in Nat \ {0} /\ MaxEvents \in Nat
ASSUME PaperAssumption  == PaperOf \in [File -> Papers]
ASSUME StartAssumption  == AtStart \subseteq File

VARIABLES
    disk,        \* the content of every file, Missing when it is not there
    dirs,        \* the files whose directory exists
    unreadable,  \* the files that cannot be read right now
    version,     \* how often each file changed
    events,      \* changes that the watchers have not reported yet
    pending,     \* changes that the debouncer collects
    wanted,      \* the papers to show, none: all of them
    run,         \* the refresh that runs, None when none does
    queued,      \* what the follow-up refreshes, None when none waits
    cache,       \* the parsed rows of every file, None when there are none
    known,       \* the ledger files that exist, as far as the service knows
    failures,    \* the files whose read failed
    current,     \* what the listeners were given last
    taken,       \* the version of each file that the service saw last
    happened     \* how much of MaxEvents is used up

service    == <<run, queued, cache, known, failures, current, taken>>
ledgerVars == <<disk, dirs, unreadable, version, events, pending, wanted, service, happened>>

Missing == [missing |-> TRUE]
None    == [none |-> TRUE]

Line    == [by : 1 .. MaxEvents + 1, parses : BOOLEAN]
Lines   == BoundedSeq(Line, MaxLines)
Row(v)  == [by |-> v, parses |-> TRUE]
Bad(v)  == [by |-> v, parses |-> FALSE]
Content == [lines : Lines, torn : BOOLEAN]
Size(c) == 2 * Len(c.lines) + (IF c.torn THEN 1 ELSE 0)

\* classifyChange: a ledger file, the directory of one paper, or a directory
\* above them, of which the watcher reports only the path.
FileChange(f)  == [under |-> {f}, kind |-> "file"]
PaperChange(f) == [under |-> {f}, kind |-> "paper"]
RootChange     == [under |-> File, kind |-> "above"]
Change == {FileChange(f) : f \in File} \cup {PaperChange(f) : f \in File} \cup {RootChange}

Happens == /\ happened < MaxEvents
           /\ happened' = happened + 1

-----------------------------------------------------------------------------
(* The disk, and the writers of the ledgers.                               *)

Touch(S, c) == /\ version' = [f \in File |-> IF f \in S THEN version[f] + 1 ELSE version[f]]
               /\ events' = events \cup {c}
               /\ Happens
               /\ UNCHANGED <<unreadable, pending, wanted, service>>

Put(f, c) == /\ disk' = [disk EXCEPT ![f] = c]
             /\ UNCHANGED dirs
             /\ Touch({f}, FileChange(f))

\* A row is appended, sometimes in two writes.
Append1(f) ==
    /\ disk[f] # Missing
    /\ Len(disk[f].lines) < MaxLines
    /\ \E r \in {Row(version[f] + 1), Bad(version[f] + 1)} :
          Put(f, [lines |-> Append(disk[f].lines, r), torn |-> FALSE])

AppendHalf(f) ==
    /\ disk[f] # Missing
    /\ ~disk[f].torn
    /\ Len(disk[f].lines) < MaxLines
    /\ Put(f, [disk[f] EXCEPT !.torn = TRUE])

\* Something else writes the file anew: every line differs from those before.
Rewrite(f) ==
    /\ f \in dirs
    /\ \E n \in 0 .. MaxLines :
          Put(f, [lines |-> [i \in 1 .. n |-> Row(version[f] + 1)], torn |-> FALSE])

RemoveFile(f) == /\ disk[f] # Missing
             /\ Put(f, Missing)

RemoveDirs(S, c) ==
    /\ S \cap dirs # {}
    /\ dirs' = dirs \ S
    /\ disk' = [f \in File |-> IF f \in S THEN Missing ELSE disk[f]]
    /\ Touch(S, c)

RemoveDir(f) == RemoveDirs({f}, PaperChange(f))
RemoveRoot   == RemoveDirs(File, RootChange)

CreateDir(f) ==
    /\ f \notin dirs
    /\ dirs' = dirs \cup {f}
    /\ disk' = [disk EXCEPT ![f] = [lines |-> <<Row(version[f] + 1)>>, torn |-> FALSE]]
    /\ Touch({f}, PaperChange(f))

Lock(f) == /\ f \notin unreadable
           /\ unreadable' = unreadable \cup {f}
           /\ Happens
           /\ UNCHANGED <<disk, dirs, version, events, pending, wanted, service>>

Unlock(f) == /\ f \in unreadable
             /\ unreadable' = unreadable \ {f}
             /\ UNCHANGED <<disk, dirs, version, events, pending, wanted, service, happened>>

-----------------------------------------------------------------------------
(* LedgerFileCache.                                                        *)

Fresh == [rows |-> <<>>, bad |-> 0, consumed |-> 0, guard |-> None, size |-> 0]

AppendedIfLonger(e, c) == /\ e # None
                          /\ Len(c.lines) >= e.consumed

\* The bytes before the end of what was consumed are still the same.
MatchesGuard(e, c) == e.consumed = 0 \/ c.lines[e.consumed] = e.guard

Appended(e, c) == /\ e # None
                  /\ Len(c.lines) >= e.consumed
                  /\ MatchesGuard(e, c)

IsRow(line) == line.parses

\* parseJsonl: the rows of whole lines, and how many of them are not one.
RowsIn(lines) ==
    LET rows[i \in 0 .. Len(lines)] ==
            IF i = 0 THEN <<>>
            ELSE IF IsRow(lines[i]) THEN Append(rows[i - 1], lines[i]) ELSE rows[i - 1]
    IN  rows[Len(lines)]
BadIn(lines) == Len(lines) - Len(RowsIn(lines))

ParseInto(e, c) ==
    LET new == SubSeq(c.lines, e.consumed + 1, Len(c.lines)) IN
    [rows     |-> e.rows \o RowsIn(new),
     bad      |-> e.bad + BadIn(new),
     consumed |-> Len(c.lines),
     guard    |-> IF c.lines = <<>> THEN None ELSE Last(c.lines),
     size     |-> Size(c)]

Update(e, c) ==
    IF c = Missing THEN None
    ELSE IF ~Appended(e, c) THEN ParseInto(Fresh, c)
    ELSE IF Size(c) = e.size THEN e
    ELSE ParseInto(e, c)

\* What counts as a change of the content: any new entry that starts over, a
\* removed one, and an append that brought rows or bad lines.
Differs(e, c) ==
    LET new == Update(e, c) IN
    IF c = Missing THEN e # None
    ELSE \/ ~Appended(e, c)
         \/ new.rows # e.rows
         \/ new.bad # e.bad

RowsOf(e)  == IF e = None THEN <<>> ELSE e.rows
BadOf(e)   == IF e = None THEN 0 ELSE e.bad

-----------------------------------------------------------------------------
(* LedgerService.                                                          *)

Covered(changes) == UNION {c.under : c \in changes}

\* The versions that a refresh promises to include.
Owed(S) == [f \in File |-> IF f \in S THEN version[f] ELSE 0]
Later(a, b) == [f \in File |-> IF a[f] > b[f] THEN a[f] ELSE b[f]]

\* The part of a run before its first await. A reload forgets everything; a
\* changed file is read again, a changed directory is looked at and all that
\* was known below it read again.
Begin(q) ==
    /\ cache' = IF q.all THEN [f \in File |-> None] ELSE cache
    /\ known' = IF q.all THEN {} ELSE known
    /\ failures' = IF q.all THEN {} ELSE failures
    /\ run' = [all     |-> q.all,
               toList  |-> IF q.all THEN {RootChange} ELSE q.changes \cap {RootChange},
               toRead  |-> IF q.all THEN {}
                           ELSE UNION {c.under \cap (IF c.kind = "above" THEN known ELSE File) :
                                          c \in q.changes},
               content |-> FALSE,
               sources |-> q.all /\ known # {},
               owed    |-> q.owed]

Merge(q, r) == [all     |-> q.all \/ r.all,
                changes |-> q.changes \cup r.changes,
                owed    |-> Later(q.owed, r.owed)]

EnqueueLast(q) ==
    IF run = None
    THEN Begin(q) /\ UNCHANGED <<queued, current, taken>>
    ELSE /\ queued' = IF queued = None THEN q ELSE [q EXCEPT !.owed = Later(@, queued.owed)]
         /\ UNCHANGED <<run, cache, known, failures, current, taken>>

\* What arrives during a refresh is merged into a single follow-up.
Enqueue(q) ==
    \/ /\ run = None
       /\ Begin(q)
       /\ UNCHANGED <<queued, current, taken>>
    \/ /\ run # None
       /\ queued' = IF queued = None THEN q ELSE Merge(queued, q)
       /\ UNCHANGED <<run, cache, known, failures, current, taken>>

ReloadRequest == [all |-> TRUE, changes |-> {}, owed |-> Owed(File)]
RefreshRequest(changes) == [all |-> FALSE, changes |-> changes, owed |-> Owed(Covered(changes))]

\* discover: the directories below the changed one that exist now.
Look(c) ==
    /\ run # None
    /\ c \in run.toList
    /\ run' = [run EXCEPT !.toList = @ \ {c}, !.toRead = @ \cup (c.under \cap dirs)]
    /\ taken' = [f \in File |-> IF f \in (c.under \ dirs) \ run.toRead
                                THEN version[f] ELSE taken[f]]
    /\ UNCHANGED <<disk, dirs, unreadable, version, events, pending, wanted,
                   queued, cache, known, failures, current, happened>>

\* The reads start together once the last directory was looked at.
MayRead(f) == run # None /\ run.toList = {} /\ f \in run.toRead

\* Not gone, just unreadable: the rows already known are kept.
ReadFailed(f) ==
    /\ MayRead(f)
    /\ f \in unreadable
    /\ run' = [run EXCEPT !.toRead = @ \ {f},
                          !.content = @ \/ f \notin failures]
    /\ failures' = failures \cup {f}
    /\ UNCHANGED <<disk, dirs, unreadable, version, events, pending, wanted,
                   queued, cache, known, current, taken, happened>>

\* A file that is there is known from now on, one that is not is forgotten.
KnownAfter(f, c) == IF c = Missing THEN known \ {f} ELSE known \cup {f}

\* `contentChanged ||= this.failures.delete(key)`: the failure is forgotten
\* only when nothing has changed in this run before.
ReadDone(f) ==
    /\ MayRead(f)
    /\ f \notin unreadable
    /\ LET c == disk[f] IN
       /\ run' = [run EXCEPT !.toRead = @ \ {f},
                             !.content = @ \/ f \in failures \/ Differs(cache[f], c),
                             !.sources = @ \/ (c = Missing <=> f \in known)]
       /\ failures' = IF run.content THEN failures ELSE failures \ {f}
       /\ cache' = [cache EXCEPT ![f] = Update(@, c)]
       /\ known' = KnownAfter(f, c)
       /\ taken' = [taken EXCEPT ![f] = version[f]]
    /\ UNCHANGED <<disk, dirs, unreadable, version, events, pending, wanted,
                   queued, current, happened>>

Selected(papers) == {f \in known : papers = {} \/ PaperOf[f] \in papers}

Fold == [rows   |-> [f \in File |-> IF f \in Selected(wanted) THEN RowsOf(cache[f]) ELSE <<>>],
         bad    |-> [f \in File |-> IF f \in known THEN BadOf(cache[f]) ELSE 0],
         failed |-> failures]

\* The run folds, unless nothing changed, and tells its listeners; then the
\* follow-up starts at once.
Finish ==
    /\ run # None
    /\ run.toList = {} /\ run.toRead = {}
    /\ current' = IF run.all \/ run.content \/ run.sources THEN Fold ELSE current
    /\ queued' = None
    /\ \/ /\ queued = None
          /\ run' = None
          /\ UNCHANGED <<cache, known, failures>>
       \/ /\ queued # None
          /\ Begin(queued)
    /\ UNCHANGED <<disk, dirs, unreadable, version, events, pending, wanted, taken, happened>>

-----------------------------------------------------------------------------
(* The extension around the service.                                       *)

\* The debouncer collects what arrives in a burst, each path once.
Collect(c) == pending' = pending \cup {c}

\* A watcher reports a change.
Report(c) ==
    /\ c \in events
    /\ events' = events \ {c}
    /\ Collect(c)
    /\ UNCHANGED <<disk, dirs, unreadable, version, wanted, service, happened>>

\* The burst ended, or lasted for as long as it may.
Flush ==
    /\ pending # {}
    /\ pending' = {}
    /\ Enqueue(RefreshRequest(pending))
    /\ UNCHANGED <<disk, dirs, unreadable, version, events, wanted, happened>>

\* The refresh command, other folders or another ledger root.
Reload ==
    /\ Happens
    /\ Enqueue(ReloadRequest)
    /\ UNCHANGED <<disk, dirs, unreadable, version, events, pending, wanted>>

\* The papers to show are picked, or set: everything is loaded again.
SelectPaper(papers) ==
    /\ papers # wanted
    /\ wanted' = papers
    /\ Happens
    /\ Enqueue(ReloadRequest)
    /\ UNCHANGED <<disk, dirs, unreadable, version, events, pending>>

-----------------------------------------------------------------------------
NoRows == [rows |-> [f \in File |-> <<>>], bad |-> [f \in File |-> 0], failed |-> {}]

\* The window opens on a workspace that has ledgers, or none; the extension
\* starts and loads everything.
LedgerInit ==
    /\ dirs = AtStart
    /\ disk = [f \in File |-> IF f \in dirs THEN [lines |-> <<Row(1)>>, torn |-> FALSE] ELSE Missing]
    /\ unreadable = {} /\ events = {} /\ pending = {} /\ wanted = {}
    /\ version = [f \in File |-> 1]
    /\ run = [all |-> TRUE, toList |-> {RootChange}, toRead |-> {},
              content |-> FALSE, sources |-> FALSE, owed |-> [f \in File |-> 1]]
    /\ queued = None
    /\ cache = [f \in File |-> None]
    /\ known = {} /\ failures = {}
    /\ current = NoRows
    /\ taken = [f \in File |-> 0]
    /\ happened = 0

World ==
    \/ \E f \in File : \/ Append1(f) \/ AppendHalf(f) \/ Rewrite(f) \/ RemoveFile(f)
                       \/ RemoveDir(f) \/ CreateDir(f) \/ Lock(f) \/ Unlock(f)
    \/ RemoveRoot
    \/ Reload
    \/ \E papers \in SUBSET Papers : SelectPaper(papers)

LedgerSystem ==
    \/ \E c \in Change : Look(c) \/ Report(c)
    \/ \E f \in File : ReadFailed(f) \/ ReadDone(f)
    \/ Finish
    \/ Flush

LedgerNext == World \/ LedgerSystem

LedgerSpec == LedgerInit /\ [][LedgerNext]_ledgerVars

\* Watchers report, timers fire, reads are answered and the promises of a run
\* resolve; nothing of the world has to happen.
FairLedgerSpec == LedgerSpec /\ WF_ledgerVars(LedgerSystem)

-----------------------------------------------------------------------------
Entry == [rows : Seq(Line), bad : Nat, consumed : Nat, guard : Line \cup {None}, size : Nat]
Request == [all : BOOLEAN, changes : SUBSET Change, owed : [File -> Nat]]
Refresh == [all : BOOLEAN, toList : SUBSET {RootChange}, toRead : SUBSET File,
            content : BOOLEAN, sources : BOOLEAN, owed : [File -> Nat]]
Shown   == [rows : [File -> Seq(Line)], bad : [File -> Nat], failed : SUBSET File]

\* The shape of the state; a file has a directory, and what is queued waits
\* for a run.
LedgerTypeOK ==
    /\ disk \in [File -> {Missing} \cup Content]
    /\ dirs \subseteq File /\ \A f \in File : disk[f] # Missing => f \in dirs
    /\ unreadable \subseteq File
    /\ version \in [File -> Nat] /\ taken \in [File -> Nat]
    /\ events \subseteq Change /\ pending \subseteq Change
    /\ wanted \subseteq Papers
    /\ run \in {None} \cup Refresh
    /\ queued = None \/ (queued \in Request /\ run # None)
    /\ cache \in [File -> {None} \cup Entry]
    /\ known \subseteq File /\ failures \subseteq File
    /\ \A f \in File : cache[f] # None <=> f \in known
    /\ current \in Shown
    /\ happened \in 0 .. MaxEvents

\* ledgers.ts:127, "Resolves with a snapshot that includes these changes":
\* when a refresh resolves, every file that it was asked for was read after
\* the change, unless that read failed.
IncludesTheseChanges ==
    [][Finish => \A f \in File : taken'[f] >= run.owed[f] \/ f \in failures]_ledgerVars

\* What the graph is folded from is what the files say, unless the problem
\* with the file is told.
ShowsFile(f) ==
    LET c == disk[f] IN
    IF c = Missing THEN current.rows[f] = <<>>
    ELSE /\ current.rows[f] = IF wanted = {} \/ PaperOf[f] \in wanted
                               THEN RowsIn(c.lines) ELSE <<>>
         /\ current.bad[f] = BadIn(c.lines)

EventuallyCurrent ==
    <>[](\A f \in File : ShowsFile(f) \/ f \in current.failed)

\* ledgers.ts:210, "Not gone, just unreadable right now: keep the rows already
\* known and say so", as ledgers.test.ts:140 has it: once a file was read, the
\* problem with it is no longer told.
ProblemsAreCurrent ==
    [][\A f \in File : ReadDone(f) => f \notin failures']_ledgerVars
=============================================================================
