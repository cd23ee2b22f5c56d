---------------------------- MODULE CertWatcher ----------------------------
(***************************************************************************)
(* The certificate watcher of pkg/certwatcher/certwatcher.go.              *)
(*                                                                         *)
(* Two goroutines call ReadCertificate: the ticker loop of Start ("poll")  *)
(* and the file-event loop Watch ("watch").  A read is four steps: the     *)
(* certificate file, the key file, the update of the cache under the write *)
(* lock, and the start of a goroutine that calls the callback.  Nothing    *)
(* keeps two reads, or the rotation of the files, apart.                   *)
(*                                                                         *)
(* A file's content is the version of the key pair it belongs to.  The     *)
(* files, fsnotify and the process that rotates the files are external:    *)
(* versions are rolled out in order, one file at a time, in place or by    *)
(* removing or renaming the old file, which ends fsnotify's watch of it.   *)
(***************************************************************************)
EXTENDS Integers

CONSTANT MaxVersion   \* bound: number of rotations

ASSUME CertConstants == MaxVersion \in Nat

Files == {"cert", "key"}
Readers == {"poll", "watch"}
Versions == 0..MaxVersion

\* No file, and the nil currentCert.
Missing == -1

Ops == {"Write", "Remove", "Rename"}

VARIABLES
  disk,       \* per file: its content
  target,     \* the version being rolled out
  watched,    \* files fsnotify watches
  events,     \* file events not yet handled
  closed,     \* the watcher is closed
  ctxDone,    \* the context of Start is done
  start,      \* none, New, created, error, adding, polling, failed, stopped
  toAdd,      \* Start: files whose watch is still to be added
  pc,         \* per reader: off, idle, reading, cert, parsed, updated
  block,      \* per reader: the certificate it has read
  current,    \* currentCert and cachedKeyPEMBlock
  callback,   \* a callback is registered
  calls,      \* per version: goroutines that are to call the callback with it
  heard,      \* history: what the callback was called with
  seen        \* history, per reader: current when its read began

fs == <<disk, target, watched, events>>
life == <<closed, ctxDone, start, toAdd>>
notice == <<callback, calls, heard>>
cwvars == <<fs, life, pc, block, current, notice, seen>>

CertInit ==
  /\ disk \in {[f \in Files |-> 0], [f \in Files |-> Missing]}
  /\ target = 0
  /\ watched = {}
  /\ events = {}
  /\ closed = FALSE
  /\ ctxDone = FALSE
  /\ start = "none"
  /\ toAdd = {}
  /\ pc = [r \in Readers |-> "off"]
  /\ block = [r \in Readers |-> Missing]
  /\ current = Missing
  /\ callback = FALSE
  /\ calls = [v \in Versions |-> 0]
  /\ heard = {}
  /\ seen = [r \in Readers |-> Missing]

-----------------------------------------------------------------------------
(* The files                                                               *)

Rotate ==
  /\ \A f \in Files : disk[f] = target
  /\ target < MaxVersion
  /\ target' = target + 1
  /\ UNCHANGED <<disk, watched, events, life, pc, block, current, notice, seen>>

\* A file is written in place, removed, or renamed; in the latter two cases the
\* new file may be there at once.
Change(f) ==
  /\ disk[f] # target
  /\ \E content \in {target, Missing}, op \in Ops :
       /\ op = "Write" => content = target
       /\ disk[f] = Missing => op = "Write"
       /\ disk' = [disk EXCEPT ![f] = content]
       /\ events' = IF f \in watched THEN events \cup {<<f, op>>} ELSE events
       /\ watched' = IF op = "Write" THEN watched ELSE watched \ {f}
  /\ UNCHANGED <<target, life, pc, block, current, notice, seen>>

-----------------------------------------------------------------------------
(* ReadCertificate                                                         *)

\* A reader goes on to label; those that return from ReadCertificate go idle.
Goto(r, label) == pc' = [pc EXCEPT ![r] = label]

Begin(r) ==
  /\ Goto(r, "reading")
  /\ seen' = [seen EXCEPT ![r] = current]

\* Mutant: a reader that has read the files once does not read them again.
ReadCertFileOnce(r) ==
  /\ pc[r] = "reading"
  /\ block' = [block EXCEPT ![r] = IF @ = Missing THEN disk["cert"] ELSE @]
  /\ Goto(r, IF block[r] # Missing THEN "parsed"
             ELSE IF disk["cert"] = Missing THEN "idle" ELSE "cert")
  /\ UNCHANGED <<fs, life, current, notice, seen>>

ReadCertFile(r) ==
  /\ pc[r] = "reading"
  /\ block' = [block EXCEPT ![r] = disk["cert"]]
  /\ Goto(r, IF disk["cert"] = Missing THEN "idle" ELSE "cert")
  /\ UNCHANGED <<fs, life, current, notice, seen>>

\* X509KeyPair refuses a key that is missing or of another version.
ReadKeyFile(r) ==
  /\ pc[r] = "cert"
  /\ Goto(r, IF disk["key"] = block[r] THEN "parsed" ELSE "idle")
  /\ UNCHANGED <<fs, life, block, current, notice, seen>>

updateCachedCertificate(r) ==
  /\ pc[r] = "parsed"
  /\ current' = block[r]
  /\ Goto(r, IF current = block[r] THEN "idle" ELSE "updated")
  /\ UNCHANGED <<fs, life, block, notice, seen>>

\* Mutant: the callback is only told of the first certificate.
NotifyFirst(r) ==
  /\ pc[r] = "updated"
  /\ calls' = IF callback /\ seen[r] = Missing
              THEN [calls EXCEPT ![block[r]] = @ + 1] ELSE calls
  /\ Goto(r, "idle")
  /\ UNCHANGED <<fs, life, block, current, callback, heard, seen>>

Notify(r) ==
  /\ pc[r] = "updated"
  /\ calls' = IF callback THEN [calls EXCEPT ![block[r]] = @ + 1] ELSE calls
  /\ Goto(r, "idle")
  /\ UNCHANGED <<fs, life, block, current, callback, heard, seen>>

ReadCertificate(r) ==
  \/ ReadCertFile(r)
  \/ ReadKeyFile(r)
  \/ updateCachedCertificate(r)
  \/ Notify(r)

\* The goroutine of one update calls the callback that is registered by then.
Callback(v) ==
  /\ calls[v] > 0
  /\ calls' = [calls EXCEPT ![v] = @ - 1]
  /\ heard' = heard \cup {v}
  /\ UNCHANGED <<fs, life, pc, block, current, callback, seen>>

Created == start \notin {"none", "New", "error"}

\* The new callback is called with the current certificate, under the lock.
RegisterCallback ==
  /\ Created
  /\ callback' = TRUE
  /\ heard' = IF current = Missing THEN {} ELSE {current}
  /\ UNCHANGED <<fs, life, pc, block, current, calls, seen>>

-----------------------------------------------------------------------------
(* New, Start and Watch                                                    *)

\* New reads the files once, in the goroutine that will poll them.
New ==
  /\ start = "none"
  /\ start' = "New"
  /\ Begin("poll")
  /\ UNCHANGED <<fs, closed, ctxDone, toAdd, block, current, notice>>

\* Mutant: a failed read does not fail the constructor.
NewReturnAnyway ==
  /\ start = "New"
  /\ pc["poll"] = "idle"
  /\ \E err \in BOOLEAN : start' = IF err THEN "error" ELSE "created"
  /\ UNCHANGED <<fs, closed, ctxDone, toAdd, pc, block, current, notice, seen>>

\* The read or fsnotify.NewWatcher may fail.
NewReturn ==
  /\ start = "New"
  /\ pc["poll"] = "idle"
  /\ \E err \in BOOLEAN :
       start' = IF err \/ current = Missing THEN "error" ELSE "created"
  /\ UNCHANGED <<fs, closed, ctxDone, toAdd, pc, block, current, notice, seen>>

Start ==
  /\ start = "created"
  /\ start' = "adding"
  /\ toAdd' = Files
  /\ UNCHANGED <<fs, closed, ctxDone, pc, block, current, notice, seen>>

\* watcher.Add is retried every second until every file was added once.
AddWatch(f) ==
  /\ start = "adding"
  /\ f \in toAdd
  /\ disk[f] # Missing
  /\ watched' = watched \cup {f}
  /\ toAdd' = toAdd \ {f}
  /\ UNCHANGED <<disk, target, events, closed, ctxDone, start, pc, block, current, notice, seen>>

\* After ten seconds, or when the context is done, Start returns an error.
AddTimeout ==
  /\ start = "adding"
  /\ toAdd # {}
  /\ start' = "failed"
  /\ UNCHANGED <<fs, closed, ctxDone, toAdd, pc, block, current, notice, seen>>

GoWatch ==
  /\ start = "adding"
  /\ toAdd = {}
  /\ start' = "polling"
  /\ Goto("watch", "idle")
  /\ UNCHANGED <<fs, closed, ctxDone, toAdd, block, current, notice, seen>>

\* Mutant: the ticker loop only waits for its context.
PollNever == FALSE /\ UNCHANGED cwvars

\* The ticker fires.
Poll ==
  /\ start = "polling"
  /\ pc["poll"] = "idle"
  /\ Begin("poll")
  /\ UNCHANGED <<fs, life, block, current, notice>>

\* ctx.Done: the loop closes the watcher and returns.
Stop ==
  /\ start = "polling"
  /\ pc["poll"] = "idle"
  /\ ctxDone
  /\ start' = "stopped"
  /\ closed' = TRUE
  /\ UNCHANGED <<fs, ctxDone, toAdd, pc, block, current, notice, seen>>

\* Watch and handleEvent.  A rename is not among the events that are handled;
\* after a removal the watch is added again if the file is back.
HandleEvent ==
  /\ pc["watch"] = "idle"
  /\ ~closed
  /\ \E e \in events :
       /\ events' = events \ {e}
       /\ watched' = IF e[2] = "Remove" /\ disk[e[1]] # Missing
                     THEN watched \cup {e[1]} ELSE watched
       /\ IF e[2] = "Rename" THEN UNCHANGED <<pc, seen>> ELSE Begin("watch")
  /\ UNCHANGED <<disk, target, life, block, current, notice>>

WatchExit ==
  /\ pc["watch"] = "idle"
  /\ closed
  /\ Goto("watch", "off")
  /\ UNCHANGED <<fs, life, block, current, notice, seen>>

Cancel ==
  /\ ~ctxDone
  /\ ctxDone' = TRUE
  /\ UNCHANGED <<fs, closed, start, toAdd, pc, block, current, notice, seen>>

\* The goroutine that constructed the watcher, then runs Start.
Starting == NewReturn \/ Start \/ (\E f \in Files : AddWatch(f)) \/ AddTimeout \/ GoWatch

\* What the goroutines of the watcher do on their own.
Watching ==
  \/ \E r \in Readers : ReadCertificate(r)
  \/ \E v \in Versions : Callback(v)
  \/ NewReturn
  \/ \E f \in Files : AddWatch(f)
  \/ AddTimeout
  \/ GoWatch
  \/ Poll
  \/ Stop
  \/ HandleEvent
  \/ WatchExit

\* What its surroundings do: the files change, and the context ends.
Surroundings ==
  \/ Rotate
  \/ \E f \in Files : Change(f)
  \/ Cancel

\* What its owner calls.
Owner == New \/ Start \/ RegisterCallback

CertNext == Watching \/ Surroundings \/ Owner

CertSpec == CertInit /\ [][CertNext]_cwvars

\* Goroutines that can run do run, and the ticker keeps ticking.  The loop of
\* Start reads again before it looks at its context only when a tick is due, so it
\* meets a context that is done sooner or later.
CertFairness ==
  /\ \A r \in Readers : WF_cwvars(ReadCertificate(r))
  /\ \A v \in Versions : WF_cwvars(Callback(v))
  /\ WF_cwvars(Starting)
  /\ WF_cwvars(Poll)
  /\ SF_cwvars(Stop)
  /\ WF_cwvars(HandleEvent)
  /\ WF_cwvars(WatchExit)

-----------------------------------------------------------------------------
(* Properties                                                              *)

\* The type of every variable.
CertTypeOK ==
  /\ disk \in [Files -> Versions \cup {Missing}]
  /\ target \in Versions
  /\ watched \subseteq Files
  /\ events \subseteq Files \X Ops
  /\ {closed, ctxDone, callback} \subseteq BOOLEAN
  /\ start \in {"none", "New", "created", "error", "adding", "polling", "failed", "stopped"}
  /\ toAdd \subseteq Files
  /\ pc \in [Readers -> {"off", "idle", "reading", "cert", "parsed", "updated"}]
  /\ block \in [Readers -> Versions \cup {Missing}]
  /\ current \in Versions \cup {Missing}
  /\ calls \in [Versions -> Nat]
  /\ heard \subseteq Versions
  /\ seen \in [Readers -> Versions \cup {Missing}]

\* A registered callback has been called with the current certificate, or the
\* call is under way: registration and update may meet in any order.
CallbackKnows ==
  callback /\ current # Missing =>
    \/ current \in heard
    \/ calls[current] > 0
    \/ \E r \in Readers : pc[r] = "updated" /\ block[r] = current

\* The cache goes back to an older certificate only when two reads overlapped:
\* the one that stores it began before the newer certificate was stored.
GoesBackInRaceOnly ==
  [][\A r \in Readers :
       updateCachedCertificate(r) /\ current' < current => seen[r] # current]_cwvars

\* While the watcher runs, it ends up with the files' certificate once they have
\* settled, whatever events were lost or ignored and whichever read came last.
Refreshes ==
  (<>[](start = "polling" /\ ~ctxDone /\ \A f \in Files : disk[f] = target))
    => <>[](current = target)

\* A certificate handed to the cache is the newest one that was ever there.  It
\* does not hold: see GoesBackInRaceOnly.
NeverGoesBack == [][current' >= current]_cwvars

=============================================================================
