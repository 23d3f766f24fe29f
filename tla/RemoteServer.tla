----------------------------- MODULE RemoteServer -----------------------------
(***************************************************************************)
(* How the server of one commit comes to run on a host (vibe-remote-ssh).  *)
(*                                                                         *)
(* An attempt is one resolution of a remote window: it asks the host what  *)
(* it has, uploads a build and runs a script that unpacks it               *)
(* (vibe/serverUpload.ts, vibe/serverTarball.ts), then runs the script     *)
(* that starts the server or finds it running (scripts/server-setup.sh).   *)
(* Windows, and the retries of one window, are attempts on the same host.  *)
(* Only the second script takes a lock.                                    *)
(*                                                                         *)
(* The folder of the server is what every attempt looks at and writes.     *)
(* Left out: the platform of the host, product.json, the text of the       *)
(* results, Windows hosts.                                                 *)
(***************************************************************************)
EXTENDS Naturals, FiniteSets

CONSTANTS
    Attempt,     \* the ids of the attempts; also the connection tokens they draw
    Uploads,     \* the attempts that have a build to upload; the host downloads for others
    HasFlock,    \* whether the host has the command flock
    MaxLost,     \* bound: the connections that break
    None

ASSUME AttemptAssumption ==
    /\ Uploads \subseteq Attempt /\ HasFlock \in BOOLEAN
    /\ MaxLost \in Nat /\ None \notin Attempt

VARIABLES
    \* the attempts
    pc,          \* where the attempt, or the script it runs, is
    lost,        \* the attempts whose connection broke: scripts go on, nobody reads them
    got, port,   \* the token the attempt was told and the server it was sent to
    \* the host: files
    part,        \* what each attempt uploaded
    staged,      \* the attempts whose unpacked copy lies next to the folder
    dir,         \* the folder of the server
    nested,      \* the unpacked copies that lie inside the folder
    lock,        \* who holds the install lock
    tokenFile, pidFile,
    log,         \* the server whose output the log file has, and whether it says
                 \* that the server listens
    \* the host: processes
    server, token,
    \* history: so far only unpack scripts have filled the folder, one after the other
    alone

files == <<part, staged, dir, nested>>
results == <<lost, got, port>>
run == <<lock, tokenFile, pidFile, log, server, token>>
serverVars == <<pc, results, files, run, alone>>

Ended == {"ok", "failed", "gone"}
Replacing == {"remove", "removing", "move"}
Unpacking == {"check", "unpack", "test", "drop"} \cup Replacing
Locked == {"folder", "script", "download", "extract", "find", "reset", "launch", "note", "token", "poll"}
Stage == {"idle", "put", "lock"} \cup Unpacking \cup Locked \cup Ended

HasScript == dir \in {"torn", "complete"}
Running(s) == server[s] \in {"booting", "listening"}

ServerInit ==
    /\ pc = [a \in Attempt |-> "idle"]
    /\ lost = {}
    /\ got = [a \in Attempt |-> None] /\ port = [a \in Attempt |-> None]
    /\ part = [a \in Attempt |-> "none"]
    /\ staged = {}
    /\ dir = "absent" /\ nested = {}
    /\ lock = None
    /\ tokenFile = None /\ pidFile = None
    /\ log = [by |-> None, listens |-> FALSE]
    /\ server = [a \in Attempt |-> "none"] /\ token = [a \in Attempt |-> None]
    /\ alone = TRUE

Go(a, stage) == pc' = [pc EXCEPT ![a] = stage]

\* A script that ended is read by its attempt, if that is still there.
Close(a, stage) == Go(a, IF a \in lost THEN "gone" ELSE stage)

-----------------------------------------------------------------------------
(* The build travels                                                        *)

\* The probe, and the plan made of what it says.  Listing the builds of this machine
\* may fail, and so may the host: it has no tar, or answers nothing.
ProbeHost(a) ==
    /\ pc[a] = "idle"
    /\ \/ Go(a, IF HasScript \/ a \notin Uploads THEN "lock" ELSE "put")
       \/ Go(a, "failed")
    /\ UNCHANGED <<results, files, run, alone>>

\* The upload goes to a file of its own; its size and digest may be wrong on arrival.
Put(a) ==
    /\ pc[a] = "put"
    /\ \E arrived \in {"whole", "damaged"} : part' = [part EXCEPT ![a] = arrived]
    /\ Go(a, "check")
    /\ UNCHANGED <<results, staged, dir, nested, run, alone>>

PutFails(a) ==
    /\ pc[a] = "put"
    /\ part' = [part EXCEPT ![a] = "none"]
    /\ Go(a, "failed")
    /\ UNCHANGED <<results, staged, dir, nested, run, alone>>

-----------------------------------------------------------------------------
(* The unpack script.  It takes no lock.                                    *)

\* fail(): neither the copy nor the upload stays behind.
Refuse(a) ==
    /\ staged' = staged \ {a}
    /\ part' = [part EXCEPT ![a] = "none"]
    /\ Close(a, "failed")
    /\ UNCHANGED <<dir, nested, alone>>

Check(a) ==
    /\ pc[a] = "check"
    /\ IF part[a] = "whole"
       THEN Go(a, "unpack") /\ UNCHANGED <<files, alone>>
       ELSE Refuse(a)
    /\ UNCHANGED <<results, run>>

Unpack(a) ==
    /\ pc[a] = "unpack"
    /\ staged' = staged \cup {a}
    /\ Go(a, "test")
    /\ UNCHANGED <<results, part, dir, nested, run, alone>>

UnpackFails(a) == pc[a] = "unpack" /\ Refuse(a) /\ UNCHANGED <<results, run>>

TestKeepsCopy(a) ==
    /\ pc[a] = "test"
    /\ IF HasScript
       THEN Go(a, "drop") /\ UNCHANGED alone
       ELSE Go(a, "remove") /\ alone' = (alone /\ \A b \in Attempt : pc[b] \notin Replacing)
    /\ UNCHANGED <<results, files, run>>

\* Another window may have been faster.
Test(a) ==
    /\ pc[a] = "test"
    /\ IF HasScript
       THEN staged' = staged \ {a} /\ Go(a, "drop") /\ UNCHANGED alone
       ELSE /\ Go(a, "remove")
            /\ alone' = (alone /\ \A b \in Attempt : pc[b] \notin Replacing)
            /\ UNCHANGED staged
    /\ UNCHANGED <<results, part, dir, nested, run>>

\* Removing a folder takes its time: what is removed first is open.
Remove(a) ==
    /\ pc[a] = "remove"
    /\ IF dir = "absent"
       THEN Go(a, "move") /\ UNCHANGED dir
       ELSE /\ dir' \in IF HasScript THEN {"torn", "empty"} ELSE {"empty"}
            /\ Go(a, "removing")
    /\ UNCHANGED <<results, part, staged, nested, run, alone>>

\* What others move into the folder meanwhile may stay, and the folder with it.
Removed(a) ==
    /\ pc[a] = "removing"
    /\ \/ dir # "complete" /\ dir' = "absent" /\ nested' = {}
       \/ (dir = "complete" \/ nested # {}) /\ UNCHANGED <<dir, nested>>
    /\ Go(a, "move")
    /\ UNCHANGED <<results, part, staged, run, alone>>

\* mv renames the copy to the folder, or puts it inside when there is one.
Move(a) ==
    /\ pc[a] = "move"
    /\ staged' = staged \ {a}
    /\ IF dir = "absent"
       THEN dir' = "complete" /\ UNCHANGED nested
       ELSE nested' = nested \cup {a} /\ UNCHANGED dir
    /\ Go(a, "drop")
    /\ UNCHANGED <<results, part, run, alone>>

MoveFails(a) == pc[a] = "move" /\ Refuse(a) /\ UNCHANGED <<results, run>>

Drop(a) ==
    /\ pc[a] = "drop"
    /\ part' = [part EXCEPT ![a] = "none"]
    /\ Close(a, "lock")
    /\ UNCHANGED <<results, staged, dir, nested, run, alone>>

-----------------------------------------------------------------------------
(* The setup script                                                         *)

Lock(a) ==
    /\ pc[a] = "lock"
    /\ IF HasFlock THEN lock = None /\ lock' = a ELSE UNCHANGED lock
    /\ Go(a, "folder")
    /\ UNCHANGED <<results, files, tokenFile, pidFile, log, server, token, alone>>

\* 30 seconds are over.
LockFails(a) ==
    /\ pc[a] = "lock" /\ HasFlock /\ lock # None
    /\ Close(a, "failed")
    /\ UNCHANGED <<results, files, run, alone>>

\* The trap of the script: however it ends, the lock is free.
Unlock(a) == lock' = IF lock = a THEN None ELSE lock

Fail(a) ==
    /\ Unlock(a)
    /\ Close(a, "failed")
    /\ UNCHANGED <<results, tokenFile, pidFile, log, server, token>>

\* The script runs on few platforms, and may not be allowed to make the folder.
MakeFolderFails(a) == pc[a] = "folder" /\ Fail(a) /\ UNCHANGED <<files, alone>>

MakeFolder(a) ==
    /\ pc[a] = "folder"
    /\ dir' = IF dir = "absent" THEN "empty" ELSE dir
    /\ alone' = (alone /\ dir # "absent")
    /\ Go(a, "script")
    /\ UNCHANGED <<results, part, staged, nested, run>>

LookForScript(a) ==
    /\ pc[a] = "script"
    /\ Go(a, IF HasScript THEN "find" ELSE "download")
    /\ UNCHANGED <<results, files, run, alone>>

\* Into the folder itself.  Nothing arrives in a folder that was removed.
Download(a) ==
    /\ pc[a] = "download" /\ dir # "absent"
    /\ dir' = "torn" /\ alone' = FALSE
    /\ Go(a, "extract")
    /\ UNCHANGED <<results, part, staged, nested, run>>

DownloadFails(a) ==
    /\ pc[a] = "download"
    /\ Fail(a)
    /\ UNCHANGED <<files, alone>>

Extract(a) ==
    /\ pc[a] = "extract" /\ dir # "absent"
    /\ dir' = "complete"
    /\ Go(a, "find")
    /\ UNCHANGED <<results, part, staged, nested, run, alone>>

\* What was extracted stays, unless it lacks the script of the server.
ExtractFails(a) ==
    /\ pc[a] = "extract"
    /\ dir' \in {dir} \cup IF dir = "absent" THEN {} ELSE {"empty"}
    /\ nested' \in IF dir' = "empty" THEN {{}} ELSE {nested}
    /\ Fail(a)
    /\ UNCHANGED <<part, staged, alone>>

FoundListening == \E s \in Attempt : server[s] = "listening" /\ pidFile \in {None, s}

\* By the process of the pid file, or by any when there is none.
Found == \E s \in Attempt : Running(s) /\ pidFile \in {None, s}

Find(a) ==
    /\ pc[a] = "find"
    /\ Go(a, IF Found THEN "token" ELSE "reset")
    /\ UNCHANGED <<results, files, run, alone>>

\* A new log and a new token.
Reset(a) ==
    /\ pc[a] = "reset"
    /\ log' = [by |-> None, listens |-> FALSE]
    /\ tokenFile' = a
    /\ Go(a, "launch")
    /\ UNCHANGED <<results, files, lock, pidFile, server, token, alone>>

Launch(a) ==
    /\ pc[a] = "launch"
    /\ server' = [server EXCEPT ![a] = "booting"]
    /\ log' = [by |-> a, listens |-> FALSE]
    /\ Go(a, "note")
    /\ UNCHANGED <<results, files, lock, tokenFile, pidFile, token, alone>>

NotePid(a) ==
    /\ pc[a] = "note"
    /\ pidFile' = a
    /\ Go(a, "token")
    /\ UNCHANGED <<results, files, lock, tokenFile, log, server, token, alone>>

KeepToken(a) ==
    /\ pc[a] = "token" /\ tokenFile # None
    /\ got' = [got EXCEPT ![a] = a]
    /\ Go(a, "poll")
    /\ UNCHANGED <<lost, port, files, run, alone>>

ReadToken(a) ==
    /\ pc[a] = "token" /\ tokenFile # None
    /\ got' = [got EXCEPT ![a] = tokenFile]
    /\ Go(a, "poll")
    /\ UNCHANGED <<lost, port, files, run, alone>>

\* The log file says where the server listens.
Poll(a) ==
    /\ pc[a] = "poll" /\ log.listens
    /\ port' = [port EXCEPT ![a] = log.by]
    /\ Unlock(a)
    /\ Close(a, "ok")
    /\ UNCHANGED <<lost, got, files, tokenFile, pidFile, log, server, token, alone>>

WaitOn(a) ==
    /\ pc[a] = "token" /\ tokenFile = None
    /\ Fail(a)
    /\ UNCHANGED <<files, alone>>

\* There is no token, no log, or no such line in it after 35 looks.
GiveUp(a) ==
    /\ \/ pc[a] = "token" /\ tokenFile = None
       \/ pc[a] = "poll" /\ ~log.listens
    /\ Fail(a)
    /\ UNCHANGED <<files, alone>>

-----------------------------------------------------------------------------
(* The server, and the connection                                           *)

\* It reads its token once, and says in its log that it listens.
Boot(s) ==
    /\ server[s] = "booting" /\ HasScript /\ tokenFile # None
    /\ server' = [server EXCEPT ![s] = "listening"]
    /\ token' = [token EXCEPT ![s] = tokenFile]
    /\ log' = IF log.by = s THEN [log EXCEPT !.listens = TRUE] ELSE log
    /\ UNCHANGED <<pc, results, files, lock, tokenFile, pidFile, alone>>

\* It shuts itself down when nobody uses it, or cannot start.
Exit(s) ==
    /\ Running(s)
    /\ server' = [server EXCEPT ![s] = "gone"]
    /\ UNCHANGED <<pc, results, files, lock, tokenFile, pidFile, log, token, alone>>

\* A broken connection ends an upload, and leaves half of it.  A script goes on.
Lose(a) ==
    /\ pc[a] \notin Ended \cup {"idle"} /\ a \notin lost
    /\ Cardinality(lost) < MaxLost
    /\ lost' = lost \cup {a}
    /\ IF pc[a] = "put"
       THEN Go(a, "gone") /\ part' = [part EXCEPT ![a] = "damaged"]
       ELSE UNCHANGED <<pc, part>>
    /\ UNCHANGED <<got, port, staged, dir, nested, run, alone>>

\* The next line a script prints to nobody may end it.
Cut(a) ==
    /\ a \in lost /\ pc[a] \in {"check", "lock", "find", "token"}
    /\ Go(a, "gone")
    /\ Unlock(a)
    /\ UNCHANGED <<results, files, tokenFile, pidFile, log, server, token, alone>>

-----------------------------------------------------------------------------

Install(a) ==
    \/ Put(a) \/ PutFails(a) \/ Check(a) \/ Unpack(a) \/ UnpackFails(a) \/ Test(a)
    \/ Remove(a) \/ Removed(a) \/ Move(a) \/ MoveFails(a) \/ Drop(a)

Setup(a) ==
    \/ Lock(a) \/ LockFails(a) \/ MakeFolder(a) \/ MakeFolderFails(a) \/ LookForScript(a)
    \/ Download(a) \/ DownloadFails(a) \/ Extract(a) \/ ExtractFails(a)
    \/ Find(a) \/ Reset(a) \/ Launch(a) \/ NotePid(a) \/ ReadToken(a) \/ Poll(a) \/ GiveUp(a)

ServerNext ==
    \E a \in Attempt :
        ProbeHost(a) \/ Install(a) \/ Setup(a) \/ Boot(a) \/ Exit(a) \/ Lose(a) \/ Cut(a)

ServerSpec == ServerInit /\ [][ServerNext]_serverVars

\* Every wait of an attempt has an end of its own: the transfer, the lock (30 s),
\* the downloads (their own timeouts) and the looks at the log (35).
FairServerSpec == ServerSpec /\ \A a \in Attempt : WF_serverVars(Install(a)) /\ WF_serverVars(Setup(a))

-----------------------------------------------------------------------------
(* Properties                                                               *)

ServerTypeOK ==
    /\ pc \in [Attempt -> Stage] /\ lost \subseteq Attempt
    /\ got \in [Attempt -> Attempt \cup {None}]
    /\ port \in [Attempt -> Attempt \cup {None}]
    /\ part \in [Attempt -> {"none", "whole", "damaged"}]
    /\ staged \subseteq Attempt
    /\ dir \in {"absent", "empty", "torn", "complete"} /\ nested \subseteq Attempt
    /\ lock \in Attempt \cup {None}
    /\ tokenFile \in Attempt \cup {None} /\ pidFile \in Attempt \cup {None}
    /\ log \in [by : Attempt \cup {None}, listens : BOOLEAN]
    /\ server \in [Attempt -> {"none", "booting", "listening", "gone"}]
    /\ token \in [Attempt -> Attempt \cup {None}]
    /\ alone \in BOOLEAN

\* One server of a commit runs at a time: whoever comes finds the one of the others,
\* also when it still starts or when the attempt that started it gave up
\* (server-setup.sh:48-75, 233-258).
OneServer ==
    HasFlock => \A s, t \in Attempt : Running(s) /\ Running(t) => s = t

\* An attempt that succeeded was told the token of the very server it is sent to, though
\* it reads the one from a file and the other from a log that others write
\* (server-setup.sh:241-285).
TokenFits ==
    HasFlock => \A a \in Attempt : pc[a] = "ok" => port[a] # None /\ token[port[a]] = got[a]

\* A token is not replaced while a server that was given it runs: the windows that
\* are connected with it can connect again (server-setup.sh:241-252).
TokenIsKept ==
    [][HasFlock /\ (\E s \in Attempt : Running(s)) => tokenFile' = tokenFile]_serverVars

\* An attempt that ended in front of its user left neither its upload nor its
\* unpacked copy next to the folder, whatever failed (serverUpload.ts:106-113,
\* serverTarball.ts:321-326, 336, 341).
NothingIsLeft ==
    \A a \in Attempt \ lost :
        pc[a] \in Ended \cup Locked \cup {"lock"} => part[a] = "none" /\ a \notin staged

\* As long as scripts have filled the folder one after the other it is complete or
\* absent, nothing of it is ever removed, and every attempt with a build that has it
\* installed, or found it there, finds it whole (serverTarball.ts:297-301, 404-406).
WholeWhileAlone ==
    alone =>
        /\ nested = {}
        /\ dir \in {"absent", "complete"}
        /\ \A a \in Uploads : pc[a] \in Locked \cup {"drop", "lock", "ok"} => dir = "complete"

\* A window is not left waiting: its attempt succeeds, fails or loses its connection,
\* also when others hold the lock (server-setup.sh:54-74, 268-285).
EveryAttemptEnds ==
    \A a \in Attempt : pc[a] # "idle" ~> pc[a] \in Ended

\* What the comment of the unpack script promises of any number of windows: whatever
\* happens, the unpacked copy does not stay behind (serverTarball.ts:298-300).
NoCopyStaysBehind ==
    \A a \in Attempt : pc[a] \in Ended => a \notin staged \cup nested

=============================================================================
