----------------------------- MODULE HotReload -----------------------------
(***************************************************************************)
(* config/watcher.go: FileWatcher and DirWatcher reload chain definitions  *)
(* when their files change.                                                *)
(*                                                                         *)
(* A reload is two steps, Load (read the file) and Apply (build the chain  *)
(* and hand it to OnLoad), and holds no lock over them.  The FileWatcher   *)
(* debounces with a timer whose function runs on a goroutine of its own;   *)
(* the DirWatcher sleeps and reloads on the goroutine of its loop.         *)
(*                                                                         *)
(* The contents of a file are a version number; the later write has the    *)
(* higher one.  Time is left out: an armed timer may fire at any moment.   *)
(* The debounce windows, the logging and the files that isConfigFile       *)
(* rejects have no part in the model.  fsnotify is external.               *)
(***************************************************************************)
EXTENDS Integers, Sequences

CONSTANTS Files,       \* the configuration files of the directory
          TheFile,     \* the one the FileWatcher is made for
          TempFiles,   \* those with the name of a temporary file (".x.yaml")
          Missing,     \* no such file, or no chain loaded from it
          MaxVersion,  \* bounds the writes
          Unreadable,  \* versions that Load rejects
          Refused,     \* versions that Parse or OnLoad rejects
          Reloaders,   \* goroutines of fired timers; bounds how many run at once
          QueueCap     \* the length of the event queue of the kernel

ASSUME ReloadAssumption ==
  /\ TheFile \in Files /\ TempFiles \subseteq Files
  /\ MaxVersion \in Nat /\ QueueCap \in Nat
  /\ Missing \notin 0 .. MaxVersion
  /\ Unreadable \subseteq 1 .. MaxVersion /\ Refused \subseteq 1 .. MaxVersion
  /\ "main" \notin Reloaders

Workers == {"main"} \cup Reloaders     \* main: Start, then the loop
Versions == 0 .. MaxVersion
Ops == {"write", "create", "remove", "rename"}

VARIABLES
  watcher,    \* "file" or "dir": which watcher this is
  disk,       \* disk[f]: the contents of f
  written,    \* the last version written
  watched,    \* the files whose changes fsnotify reports
  queue,      \* events reported and not received yet
  phase,      \* "new", "starting", "running", "ended"
  todo,       \* the files Start has not loaded yet
  timer,      \* the debounce timer is armed
  job,        \* job[w]: the reload that worker w is at
  once,       \* stopOnce is used up
  closed,     \* stopCh and the fsnotify watcher are closed
  cancelled,  \* ctx is done
  loaded,     \* loaded[f]: the version OnLoad took last
  newest,     \* history: the highest version that OnLoad took
  missed,     \* history: files whose last change was not reported
  early       \* history: Stop was called before Start

diskVars == <<disk, written>>
stopVars == <<once, closed, cancelled, early>>
vars == <<watcher, disk, written, watched, queue, phase, todo, timer, job, once, closed,
          cancelled, loaded, newest, missed, early>>

Resting == [at |-> "idle", file |-> TheFile, cfg |-> 0]
Jobs == [at : {"idle", "load", "apply"}, file : Files, cfg : Versions]

Scope == IF watcher = "file" THEN {TheFile} ELSE Files

Init ==
  /\ watcher \in {"file", "dir"}
  /\ disk = [f \in Files |-> 0] /\ written = 0
  /\ watched = {} /\ queue = << >>
  /\ phase = "new" /\ todo = {} /\ timer = FALSE
  /\ job = [w \in Workers |-> Resting]
  /\ once = FALSE /\ closed = FALSE /\ cancelled = FALSE
  /\ loaded = [f \in Files |-> Missing]
  /\ newest = [f \in Files |-> Missing]
  /\ missed = {} /\ early = FALSE

-----------------------------------------------------------------------------
(* The files and fsnotify (external).  A change after the loop has ended goes    *)
(* unseen and is left out: this and MaxVersion are the bounds on the writers.   *)

Shows(f) == f \notin TempFiles /\ f \in watched /\ Len(queue) < QueueCap

Report(f, op) ==
  queue' = IF f \in watched /\ Len(queue) < QueueCap
           THEN Append(queue, [file |-> f, op |-> op]) ELSE queue

\* The file is written in place, or anew where there is none.
Write(f) ==
  /\ written < MaxVersion /\ phase # "ended"
  /\ written' = written + 1
  /\ disk' = [disk EXCEPT ![f] = written + 1]
  /\ Report(f, IF disk[f] = Missing THEN "create" ELSE "write")
  /\ missed' = IF phase = "new" \/ Shows(f) THEN missed \ {f} ELSE missed \cup {f}
  /\ UNCHANGED <<watcher, watched, phase, todo, timer, job, loaded, newest, stopVars>>

\* Another file is renamed to f, as editors save: a directory reports a new
\* file, the watch of a single file stays with the old one and ends with it.
Replace(f) ==
  /\ written < MaxVersion /\ disk[f] # Missing /\ phase # "ended"
  /\ written' = written + 1
  /\ disk' = [disk EXCEPT ![f] = written + 1]
  /\ Report(f, IF watcher = "file" THEN "remove" ELSE "create")
  /\ watched' = IF watcher = "file" THEN watched \ {f} ELSE watched
  /\ missed' = IF phase = "new" \/ (watcher = "dir" /\ Shows(f))
               THEN missed \ {f} ELSE missed \cup {f}
  /\ UNCHANGED <<watcher, phase, todo, timer, job, loaded, newest, stopVars>>

Delete(f, op) ==
  /\ disk[f] # Missing /\ phase # "ended"
  /\ disk' = [disk EXCEPT ![f] = Missing]
  /\ Report(f, op)
  /\ watched' = IF watcher = "file" THEN watched \ {f} ELSE watched
  /\ UNCHANGED <<watcher, written, phase, todo, timer, job, loaded, newest, missed, stopVars>>

-----------------------------------------------------------------------------
(* Start and Stop. *)

\* The watch is set first.  Where fsnotify cannot watch the path, Start returns
\* an error and nothing changes; nor does it when the watcher was started before.
Start ==
  /\ phase = "new"
  /\ watcher = "file" => disk[TheFile] # Missing
  /\ phase' = "starting"
  /\ watched' = Scope
  /\ todo' = {f \in Scope : disk[f] # Missing}
  /\ UNCHANGED <<watcher, diskVars, queue, timer, job, loaded, newest, missed, stopVars>>

\* The first load: the file, or what ReadDir listed.
LoadExisting(f) ==
  /\ phase = "starting" /\ f \in todo /\ job["main"].at = "idle"
  /\ job' = [job EXCEPT !["main"] = [Resting EXCEPT !.at = "load", !.file = f]]
  /\ todo' = todo \ {f}
  /\ UNCHANGED <<watcher, diskVars, watched, queue, phase, timer, loaded, newest, missed, stopVars>>

Run ==
  /\ phase = "starting" /\ todo = {} /\ job["main"].at = "idle"
  /\ phase' = "running"
  /\ UNCHANGED <<watcher, diskVars, watched, queue, todo, timer, job, loaded, newest, missed, stopVars>>

\* Only the first call does anything, and before Start there is nothing to close.
Stop ==
  /\ ~once
  /\ once' = TRUE
  /\ closed' = (phase # "new")
  /\ watched' = IF phase # "new" THEN {} ELSE watched
  /\ early' = (phase = "new")
  /\ UNCHANGED <<watcher, diskVars, queue, phase, todo, timer, job, cancelled, loaded, newest, missed>>

Cancel ==
  /\ ~cancelled
  /\ cancelled' = TRUE
  /\ UNCHANGED <<watcher, diskVars, watched, queue, phase, todo, timer, job, once, closed,
                 loaded, newest, missed, early>>

-----------------------------------------------------------------------------
(* The loop and the reloads. *)

\* Mutation: new files and renamed ones are not looked at.
OnlyWrites(e) == e.op = "write" /\ e.file \notin TempFiles

shouldHandle(e) == e.op \in {"write", "create", "rename"} /\ e.file \notin TempFiles

\* Mutation: the timer that is replaced is stopped after the new one was made,
\* through the variable that holds the new one.
ReceiveStopping ==
  /\ phase = "running" /\ job["main"].at = "idle" /\ queue # << >>
  /\ queue' = Tail(queue)
  /\ LET e == Head(queue) IN
     /\ timer' = IF watcher = "file" /\ shouldHandle(e) THEN ~timer ELSE timer
     /\ job' = IF watcher = "dir" /\ shouldHandle(e)
               THEN [job EXCEPT !["main"] = [Resting EXCEPT !.at = "load", !.file = e.file]]
               ELSE job
  /\ UNCHANGED <<watcher, diskVars, watched, phase, todo, loaded, newest, missed, stopVars>>

\* A FileWatcher arms its timer anew; a DirWatcher sleeps and reloads, and looks
\* at no channel until that is done.  The select may prefer an event to a stop.
Receive ==
  /\ phase = "running" /\ job["main"].at = "idle" /\ queue # << >>
  /\ queue' = Tail(queue)
  /\ LET e == Head(queue) IN
     /\ timer' = (timer \/ (watcher = "file" /\ shouldHandle(e)))
     /\ job' = IF watcher = "dir" /\ shouldHandle(e)
               THEN [job EXCEPT !["main"] = [Resting EXCEPT !.at = "load", !.file = e.file]]
               ELSE job
  /\ UNCHANGED <<watcher, diskVars, watched, phase, todo, loaded, newest, missed, stopVars>>

\* The timer fires: a reload on a goroutine of its own.
Fire(w) ==
  /\ timer /\ job[w].at = "idle"
  /\ timer' = FALSE
  /\ job' = [job EXCEPT ![w] = [Resting EXCEPT !.at = "load"]]
  /\ UNCHANGED <<watcher, diskVars, watched, queue, phase, todo, loaded, newest, missed, stopVars>>

\* Load: an error is logged and the reload is over.
Load(w) ==
  LET f == job[w].file IN
  /\ job[w].at = "load"
  /\ job' = IF disk[f] = Missing \/ disk[f] \in Unreadable
            THEN [job EXCEPT ![w] = Resting]
            ELSE [job EXCEPT ![w].at = "apply", ![w].cfg = disk[f]]
  /\ UNCHANGED <<watcher, diskVars, watched, queue, phase, todo, timer, loaded, newest, missed, stopVars>>

Newer(v, than) == IF than = Missing THEN v ELSE IF v > than THEN v ELSE than

\* Apply: a chain that Parse or OnLoad rejects leaves the old one in place.
Apply(w) ==
  LET f == job[w].file
      v == job[w].cfg IN
  /\ job[w].at = "apply"
  /\ job' = [job EXCEPT ![w] = Resting]
  /\ loaded' = IF v \in Refused THEN loaded ELSE [loaded EXCEPT ![f] = v]
  /\ newest' = IF v \in Refused THEN newest ELSE [newest EXCEPT ![f] = Newer(v, @)]
  /\ UNCHANGED <<watcher, diskVars, watched, queue, phase, todo, timer, missed, stopVars>>

\* Mutation: the timer is left armed.
LoopEndsArmed ==
  /\ phase = "running" /\ job["main"].at = "idle"
  /\ closed \/ cancelled
  /\ phase' = "ended"
  /\ UNCHANGED <<watcher, diskVars, watched, queue, todo, timer, job, loaded, newest, missed, stopVars>>

\* Mutation: the loop does not look at stopCh.
LoopEndsByContext ==
  /\ phase = "running" /\ job["main"].at = "idle"
  /\ cancelled
  /\ phase' = "ended"
  /\ timer' = FALSE
  /\ UNCHANGED <<watcher, diskVars, watched, queue, todo, job, loaded, newest, missed, stopVars>>

LoopEnds ==
  /\ phase = "running" /\ job["main"].at = "idle"
  /\ closed \/ cancelled
  /\ phase' = "ended"
  /\ timer' = FALSE
  /\ UNCHANGED <<watcher, diskVars, watched, queue, todo, job, loaded, newest, missed, stopVars>>

-----------------------------------------------------------------------------
ReloadStep(w) == Load(w) \/ Apply(w)

Next ==
  \/ \E f \in Scope : Write(f) \/ Replace(f) \/ \E op \in {"remove", "rename"} : Delete(f, op)
  \/ Start \/ Run \/ Stop \/ Cancel \/ Receive \/ LoopEnds
  \/ \E f \in Files : LoadExisting(f)
  \/ \E w \in Reloaders : Fire(w)
  \/ \E w \in Workers : ReloadStep(w)

Spec == Init /\ [][Next]_vars

\* Goroutines that can run do run; nobody has to write, start or stop.
Fairness ==
  /\ WF_vars(Run) /\ WF_vars(Receive) /\ WF_vars(LoopEnds)
  /\ WF_vars(\E f \in Files : LoadExisting(f))
  /\ WF_vars(\E w \in Reloaders : Fire(w))
  /\ \A w \in Workers : WF_vars(ReloadStep(w))

FairSpec == Spec /\ Fairness

-----------------------------------------------------------------------------
(* Properties. *)

TypeOK ==
  /\ watcher \in {"file", "dir"}
  /\ disk \in [Files -> Versions \cup {Missing}] /\ written \in Versions
  /\ watched \subseteq Files
  /\ queue \in Seq([file : Files, op : Ops])
  /\ phase \in {"new", "starting", "running", "ended"}
  /\ todo \subseteq Files
  /\ timer \in BOOLEAN /\ once \in BOOLEAN /\ closed \in BOOLEAN
  /\ cancelled \in BOOLEAN /\ early \in BOOLEAN
  /\ job \in [Workers -> Jobs]
  /\ loaded \in [Files -> Versions \cup {Missing}]
  /\ newest \in [Files -> Versions \cup {Missing}]
  /\ missed \subseteq Files

Readable(f) == disk[f] \in Versions \ (Unreadable \cup Refused)

Quiet == /\ phase = "running" /\ queue = << >> /\ ~timer
         /\ \A w \in Workers : job[w].at = "idle"

\* When a watcher has nothing left to do, each file whose last change was reported
\* to it and can be loaded has been loaded, also if it changed while Start was
\* loading or while a reload was under way.  Only a FileWatcher may have put an
\* older version in its place since: two of its reloads overlapped, and the one
\* that had read first applied last (run, reload, bootstrap, loadOne).
StaleNeedsOvertaking ==
  Quiet => \A f \in Scope \ missed : Readable(f) =>
             /\ newest[f] = disk[f]
             /\ loaded[f] # disk[f] => watcher = "file" /\ loaded[f] < newest[f]

\* What the watcher keeps has its types, and tells of the files what is true of them.
ReloadsExact == TypeOK /\ StaleNeedsOvertaking

\* Once the loop has ended no reload begins: those that go on were begun before
\* (the timer is stopped on every way out of run).
NothingBeginsAfterEnd ==
  [][phase = "ended" => \A w \in Workers : job[w].at = "idle" => job'[w].at = "idle"]_vars

\* A change that is reported and can be loaded is loaded in the end, unless the
\* watcher ends, or the file changes again.
ChangesArrive ==
  \A f \in Files : \A v \in Versions \ (Unreadable \cup Refused) :
    (f \in Scope \ missed /\ disk[f] = v /\ phase \in {"starting", "running"})
      ~> (newest[f] = v \/ disk[f] # v \/ f \in missed \/ closed \/ cancelled)

\* Stop ends the loop of a watcher that was started, unless Stop had been called
\* before Start: that call used up stopOnce, and none after it closes stopCh.
StopEndsTheLoop == (once /\ ~early) ~> (phase = "ended")

=============================================================================
