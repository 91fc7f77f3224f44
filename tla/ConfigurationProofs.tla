------------------------ MODULE ConfigurationProofs -------------------------
(***************************************************************************)
(* Theorems about how the engine is configured: when files are loaded      *)
(* (HotReload), what becomes of one that is (ChainDefinition), and which   *)
(* mode its debug manager is in and what that lets through (DebugCapture). *)
(* The three share no state, so each theorem is one of the specification   *)
(* of one of them.                                                         *)
(***************************************************************************)
EXTENDS HotReload, ChainDefinition, DebugCapture, FiniteSetTheorems, WellFoundedInduction,
        TLAPS

-----------------------------------------------------------------------------
(***************************************************************************)
(* Hot reload, for any files, versions, queue length and number of         *)
(* overlapping reloads: when a watcher has nothing left to do, what was    *)
(* reported to it and can be loaded was loaded; and no reload begins once  *)
(* its loop has ended.                                                     *)
(*                                                                         *)
(* The invariant says where a change is that has not been loaded yet       *)
(* (Pending): among the files Start still has to load, in the queue, in    *)
(* the timer, or in a reload that has read it or will.  Ordered and        *)
(* Overtaken keep track of which version is newer than which.              *)
(***************************************************************************)

Ordered ==
  /\ \A f \in Files : disk[f] # Missing => disk[f] <= written
  /\ \A f \in Files : newest[f] # Missing =>
       newest[f] <= written /\ (disk[f] # Missing => newest[f] <= disk[f])
  /\ \A w \in Workers : job[w].at = "apply" =>
       /\ job[w].cfg <= written
       /\ disk[job[w].file] # Missing => job[w].cfg <= disk[job[w].file]

Reported(f) == \E i \in 1 .. Len(queue) : queue[i].file = f /\ shouldHandle(queue[i])

AtWork(f) == \E w \in Workers :
  job[w].file = f /\ (job[w].at = "load" \/ (job[w].at = "apply" /\ job[w].cfg = disk[f]))

InFlight(f) == f \in todo \/ Reported(f) \/ (watcher = "file" /\ timer) \/ AtWork(f)

Pending ==
  phase \in {"starting", "running"} =>
    \A f \in Scope \ missed : Readable(f) => newest[f] = disk[f] \/ InFlight(f)

Overtaken ==
  /\ \A f \in Files : loaded[f] = Missing <=> newest[f] = Missing
  /\ \A f \in Files : newest[f] # Missing => loaded[f] <= newest[f]
  /\ watcher = "dir" =>
       /\ ~timer
       /\ \A w \in Reloaders : job[w].at = "idle"
       /\ \A f \in Files : loaded[f] = newest[f]
       /\ job["main"].at = "apply" /\ newest[job["main"].file] # Missing =>
            newest[job["main"].file] <= job["main"].cfg

Phases ==
  /\ phase \in {"new", "running", "ended"} => todo = {}
  /\ phase = "ended" => ~timer

Inv == TypeOK /\ Ordered /\ Pending /\ Overtaken /\ Phases

-----------------------------------------------------------------------------
LEMMA RestingIsJob == Resting \in Jobs
  BY ReloadAssumption DEF Resting, Jobs, Versions

LEMMA ScopeIsFiles == Scope \subseteq Files
  BY ReloadAssumption DEF Scope

LEMMA InitInv == Init => Inv
<1> SUFFICES ASSUME Init PROVE Inv
  OBVIOUS
<1> USE ReloadAssumption DEF Init
<1>1. TypeOK
  <2>1. queue \in Seq([file : Files, op : Ops])
    OBVIOUS
  <2>2. job \in [Workers -> Jobs]
    BY RestingIsJob
  <2>3. /\ disk \in [Files -> Versions \cup {Missing}] /\ written \in Versions
        /\ loaded \in [Files -> Versions \cup {Missing}]
        /\ newest \in [Files -> Versions \cup {Missing}]
    BY DEF Versions
  <2>4. /\ timer \in BOOLEAN /\ once \in BOOLEAN /\ closed \in BOOLEAN
        /\ cancelled \in BOOLEAN /\ early \in BOOLEAN
    OBVIOUS
  <2>5. /\ watcher \in {"file", "dir"} /\ phase \in {"new", "starting", "running", "ended"}
        /\ watched \subseteq Files /\ todo \subseteq Files /\ missed \subseteq Files
    OBVIOUS
  <2>6. QED
    BY <2>1, <2>2, <2>3, <2>4, <2>5 DEF TypeOK
<1>2. Ordered
  BY DEF Ordered, Resting
<1>3. Pending
  BY DEF Pending
<1>4. Overtaken
  <2>1. \A w \in Workers : job[w].at = "idle"
    BY DEF Resting
  <2>2. "main" \in Workers /\ \A w \in Reloaders : w \in Workers
    BY DEF Workers
  <2>3. ~timer
    BY Zenon
  <2>4. QED
    BY <2>1, <2>2, <2>3 DEF Overtaken
<1>5. Phases
  BY Zenon DEF Phases
<1>6. QED
  BY <1>1, <1>2, <1>3, <1>4, <1>5 DEF Inv

\* An event at the end of the queue.
LEMMA Appended ==
  ASSUME NEW q \in Seq([file : Files, op : Ops]), NEW e \in [file : Files, op : Ops]
  PROVE  /\ Append(q, e) \in Seq([file : Files, op : Ops])
         /\ \A i \in 1 .. Len(q) : i \in 1 .. Len(Append(q, e)) /\ Append(q, e)[i] = q[i]
         /\ Len(q) + 1 \in 1 .. Len(Append(q, e)) /\ Append(q, e)[Len(q) + 1] = e
  OBVIOUS

\* Report adds an event or nothing.
LEMMA ReportAdds ==
  ASSUME TypeOK, NEW f \in Files, NEW op \in Ops, Report(f, op)
  PROVE  /\ queue' \in Seq([file : Files, op : Ops])
         /\ \A g \in Files : Reported(g) => Reported(g)'
         /\ Shows(f) /\ op \in {"write", "create"} => Reported(f)'
<1> DEFINE e == [file |-> f, op |-> op]
<1>1. queue \in Seq([file : Files, op : Ops]) /\ e \in [file : Files, op : Ops]
  BY DEF TypeOK
<1>2. CASE f \in watched /\ Len(queue) < QueueCap
  <2>1. queue' = Append(queue, e)
    BY <1>2 DEF Report
  <2>2. queue' \in Seq([file : Files, op : Ops])
    BY <2>1, <1>1, Appended
  <2>3. /\ \A i \in 1 .. Len(queue) : i \in 1 .. Len(queue') /\ queue'[i] = queue[i]
        /\ Len(queue) + 1 \in 1 .. Len(queue') /\ queue'[Len(queue) + 1] = e
    BY <2>1, <1>1, Appended
  <2>4. \A g \in Files : Reported(g) => Reported(g)'
    BY <2>3 DEF Reported, shouldHandle
  <2>5. Shows(f) /\ op \in {"write", "create"} => Reported(f)'
    BY <2>3 DEF Reported, shouldHandle, Shows
  <2>6. QED
    BY <2>2, <2>4, <2>5
<1>3. CASE ~(f \in watched /\ Len(queue) < QueueCap)
  <2>1. queue' = queue
    BY <1>3 DEF Report
  <2>2. QED
    BY <2>1, <1>1, <1>3 DEF Reported, Shows
<1>4. QED
  BY <1>2, <1>3

-----------------------------------------------------------------------------
(* The files. *)

\* A new version of f is there, and f is missed unless it was reported.
LEMMA ChangeInv ==
  ASSUME Inv, NEW f \in Scope, NEW op \in Ops,
         written < MaxVersion, phase # "ended",
         written' = written + 1,
         disk' = [disk EXCEPT ![f] = written + 1],
         Report(f, op),
         watched' \subseteq Files,
         \/ phase = "new" /\ missed' = missed \ {f}
         \/ Shows(f) /\ op \in {"write", "create"} /\ missed' = missed \ {f}
         \/ missed' = missed \cup {f},
         UNCHANGED <<watcher, phase, todo, timer, job, loaded, newest, stopVars>>
  PROVE  Inv'
<1> USE ReloadAssumption DEF Inv
<1>1. f \in Files
  BY ScopeIsFiles
<1>2. /\ queue' \in Seq([file : Files, op : Ops])
      /\ \A g \in Files : Reported(g) => Reported(g)'
      /\ Shows(f) /\ op \in {"write", "create"} => Reported(f)'
  BY <1>1, ReportAdds
<1>3. /\ written \in Nat /\ MaxVersion \in Nat /\ written + 1 \in Versions
      /\ written + 1 # Missing
  BY DEF TypeOK, Versions
<1>4. /\ disk'[f] = written + 1
      /\ \A g \in Files \ {f} : disk'[g] = disk[g]
  BY <1>1 DEF TypeOK
<1>5. TypeOK'
  BY <1>1, <1>2, <1>3 DEF TypeOK, stopVars
<1>6. Ordered'
  <2>1. \A g \in Files : disk'[g] # Missing => disk'[g] <= written'
    BY <1>3, <1>4 DEF Ordered, TypeOK, Versions
  <2>2. \A g \in Files : newest'[g] # Missing =>
          newest'[g] <= written' /\ (disk'[g] # Missing => newest'[g] <= disk'[g])
    BY <1>3, <1>4 DEF Ordered, TypeOK, Versions
  <2>3. \A w \in Workers : job'[w].at = "apply" =>
          /\ job'[w].cfg <= written'
          /\ disk'[job'[w].file] # Missing => job'[w].cfg <= disk'[job'[w].file]
    BY <1>3, <1>4 DEF Ordered, TypeOK, Versions, Jobs
  <2>4. QED
    BY <2>1, <2>2, <2>3 DEF Ordered
<1>7. Pending'
  <2>1. SUFFICES ASSUME phase \in {"starting", "running"}, NEW g \in Scope \ missed', Readable(g)'
                 PROVE  newest'[g] = disk'[g] \/ InFlight(g)'
    BY DEF Pending, Scope
  <2>2. CASE g = f
    BY <2>1, <2>2, <1>2 DEF InFlight
  <2>3. CASE g # f
    <3>1. g \in Files /\ g \in Scope \ missed
      BY <2>1, <2>3, ScopeIsFiles
    <3>2. disk'[g] = disk[g] /\ Readable(g)
      BY <3>1, <2>1, <2>3, <1>4 DEF Readable
    <3>3. newest[g] = disk[g] \/ InFlight(g)
      BY <2>1, <3>1, <3>2 DEF Pending
    <3>4. AtWork(g) => AtWork(g)'
      BY <3>2 DEF AtWork
    <3>5. QED
      BY <3>1, <3>2, <3>3, <3>4, <1>2 DEF InFlight
  <2>4. QED
    BY <2>2, <2>3
<1>8. Overtaken' /\ Phases'
  BY DEF Overtaken, Phases
<1>9. QED
  BY <1>5, <1>6, <1>7, <1>8

LEMMA DeleteInv ==
  ASSUME Inv, NEW f \in Scope, NEW op \in {"remove", "rename"}, Delete(f, op)
  PROVE  Inv'
<1> USE ReloadAssumption DEF Inv
<1>1. f \in Files /\ op \in Ops
  BY ScopeIsFiles DEF Ops
<1>2. /\ queue' \in Seq([file : Files, op : Ops])
      /\ \A g \in Files : Reported(g) => Reported(g)'
  BY <1>1, ReportAdds DEF Delete
<1>3. /\ disk' = [disk EXCEPT ![f] = Missing]
      /\ watched' \subseteq Files
      /\ UNCHANGED <<watcher, written, phase, todo, timer, job, loaded, newest, missed, stopVars>>
  BY DEF Delete, TypeOK
<1>4. disk'[f] = Missing /\ \A g \in Files \ {f} : disk'[g] = disk[g]
  BY <1>1, <1>3 DEF TypeOK
<1>5. TypeOK'
  BY <1>1, <1>2, <1>3 DEF TypeOK, stopVars
<1>6. Ordered'
  BY <1>3, <1>4 DEF Ordered, TypeOK, Jobs
<1>7. Pending'
  <2>1. SUFFICES ASSUME phase \in {"starting", "running"}, NEW g \in Scope \ missed, Readable(g)'
                 PROVE  newest'[g] = disk'[g] \/ InFlight(g)'
    BY <1>3 DEF Pending, Scope
  <2>2. g \in Files /\ g # f
    BY <2>1, <1>4, ScopeIsFiles DEF Readable, Versions
  <2>3. disk'[g] = disk[g] /\ Readable(g)
    BY <2>1, <2>2, <1>4 DEF Readable
  <2>4. newest[g] = disk[g] \/ InFlight(g)
    BY <2>1, <2>3 DEF Pending
  <2>5. AtWork(g) => AtWork(g)'
    BY <2>3, <1>3 DEF AtWork
  <2>6. QED
    BY <2>2, <2>3, <2>4, <2>5, <1>2, <1>3 DEF InFlight
<1>8. Overtaken' /\ Phases'
  BY <1>3 DEF Overtaken, Phases
<1>9. QED
  BY <1>5, <1>6, <1>7, <1>8

-----------------------------------------------------------------------------
(* Start, Stop and the loop. *)

LEMMA StartInv ==
  ASSUME Inv, Start
  PROVE  Inv'
<1> USE ReloadAssumption DEF Inv
<1>1. /\ phase = "new" /\ phase' = "starting"
      /\ watched' = Scope /\ todo' = {f \in Scope : disk[f] # Missing}
      /\ UNCHANGED <<watcher, disk, written, queue, timer, job, loaded, newest, missed, stopVars>>
  BY DEF Start, diskVars
<1>2. TypeOK'
  BY <1>1, ScopeIsFiles DEF TypeOK, stopVars
<1>3. Ordered' /\ Overtaken'
  BY <1>1 DEF Ordered, Overtaken
<1>4. Pending'
  <2>1. \A f \in Scope : Readable(f)' => f \in todo'
    BY <1>1 DEF Readable, Versions
  <2>2. QED
    BY <2>1, <1>1 DEF Pending, InFlight, Scope
<1>5. Phases'
  BY <1>1 DEF Phases
<1>6. QED
  BY <1>2, <1>3, <1>4, <1>5

LEMMA LoadExistingInv ==
  ASSUME Inv, NEW f \in Files, LoadExisting(f)
  PROVE  Inv'
<1> USE ReloadAssumption DEF Inv
<1> DEFINE new == [Resting EXCEPT !.at = "load", !.file = f]
<1>1. /\ phase = "starting" /\ f \in todo /\ job["main"].at = "idle"
      /\ job' = [job EXCEPT !["main"] = new]
      /\ todo' = todo \ {f}
      /\ UNCHANGED <<watcher, disk, written, watched, queue, phase, timer, loaded, newest, missed,
                     stopVars>>
  BY DEF LoadExisting, diskVars
<1>2. /\ "main" \in Workers /\ new \in Jobs /\ new.at = "load" /\ new.file = f
  BY RestingIsJob DEF Workers, Jobs, Resting, Versions
<1> HIDE DEF new
<1>3. job'["main"] = new /\ \A w \in Workers \ {"main"} : job'[w] = job[w]
  BY <1>1, <1>2 DEF TypeOK
<1>4. TypeOK'
  BY <1>1, <1>2 DEF TypeOK, stopVars
<1>5. Ordered' /\ Overtaken' /\ Phases'
  BY <1>1, <1>2, <1>3 DEF Ordered, Overtaken, Phases, Workers
<1>6. Pending'
  <2>1. \A g \in Files : AtWork(g) => AtWork(g)'
    BY <1>1, <1>2, <1>3 DEF AtWork
  <2>2. AtWork(f)'
    BY <1>2, <1>3 DEF AtWork
  <2>3. \A g \in Files : InFlight(g) => InFlight(g)'
    BY <1>1, <2>1, <2>2 DEF InFlight, Reported
  <2>4. QED
    BY <1>1, <2>3, ScopeIsFiles DEF Pending, Scope, Readable
<1>7. QED
  BY <1>4, <1>5, <1>6

LEMMA RunInv ==
  ASSUME Inv, Run
  PROVE  Inv'
<1> USE DEF Inv
<1>1. /\ phase = "starting" /\ todo = {} /\ phase' = "running"
      /\ UNCHANGED <<watcher, disk, written, watched, queue, todo, timer, job, loaded, newest, missed,
                     stopVars>>
  BY DEF Run, diskVars
<1>2. TypeOK'
  BY <1>1 DEF TypeOK, stopVars
<1>3. Ordered' /\ Overtaken' /\ Phases'
  BY <1>1 DEF Ordered, Overtaken, Phases
<1>4. Pending'
  BY <1>1 DEF Pending, InFlight, Reported, AtWork, Readable, Scope
<1>5. QED
  BY <1>2, <1>3, <1>4

\* Stop and Cancel change what only Start and the loop look at.
LEMMA StopInv ==
  ASSUME Inv, Stop \/ Cancel
  PROVE  Inv'
<1> USE DEF Inv
<1>1. /\ watched' \subseteq Files
      /\ once' \in BOOLEAN /\ closed' \in BOOLEAN /\ cancelled' \in BOOLEAN /\ early' \in BOOLEAN
      /\ UNCHANGED <<watcher, disk, written, queue, phase, todo, timer, job, loaded, newest, missed>>
  BY DEF Stop, Cancel, diskVars, TypeOK
<1>2. TypeOK'
  BY <1>1 DEF TypeOK
<1>3. Ordered' /\ Overtaken' /\ Phases'
  BY <1>1 DEF Ordered, Overtaken, Phases
<1>4. Pending'
  BY <1>1 DEF Pending, InFlight, Reported, AtWork, Readable, Scope
<1>5. QED
  BY <1>2, <1>3, <1>4

LEMMA LoopEndsInv ==
  ASSUME Inv, LoopEnds
  PROVE  Inv'
<1> USE DEF Inv
<1>1. /\ phase = "running" /\ phase' = "ended" /\ timer' = FALSE
      /\ UNCHANGED <<watcher, disk, written, watched, queue, todo, job, loaded, newest, missed, stopVars>>
  BY DEF LoopEnds, diskVars
<1>2. TypeOK'
  BY <1>1 DEF TypeOK, stopVars
<1>3. Ordered' /\ Overtaken' /\ Phases' /\ Pending'
  BY <1>1 DEF Ordered, Overtaken, Phases, Pending
<1>4. QED
  BY <1>2, <1>3

\* What is left of the queue when its first event is taken.
LEMMA Taken ==
  ASSUME NEW S, NEW q \in Seq(S), q # << >>
  PROVE  /\ Head(q) \in S /\ Tail(q) \in Seq(S) /\ q[1] = Head(q)
         /\ \A i \in 1 .. Len(q) : i = 1 \/ (i - 1 \in 1 .. Len(Tail(q)) /\ Tail(q)[i - 1] = q[i])
<1>1. Len(q) \in Nat /\ Len(q) # 0
  OBVIOUS
<1>2. Head(q) \in S /\ q[1] = Head(q)
  BY <1>1
<1>3. Tail(q) \in Seq(S) /\ Len(Tail(q)) = Len(q) - 1
  BY <1>1
<1>4. \A i \in 1 .. Len(q) : i = 1 \/ i - 1 \in 1 .. Len(Tail(q))
  BY <1>1, <1>3
<1>5. \A j \in 1 .. Len(Tail(q)) : Tail(q)[j] = q[j + 1]
  BY <1>1, <1>3
<1>6. QED
  BY <1>1, <1>2, <1>4, <1>5

LEMMA ReceiveInv ==
  ASSUME Inv, Receive
  PROVE  Inv'
<1> USE ReloadAssumption DEF Inv
<1> DEFINE e == Head(queue)
           new == [Resting EXCEPT !.at = "load", !.file = e.file]
<1>1. /\ phase = "running" /\ job["main"].at = "idle" /\ queue # << >>
      /\ queue' = Tail(queue)
      /\ timer' = (timer \/ (watcher = "file" /\ shouldHandle(e)))
      /\ job' = IF watcher = "dir" /\ shouldHandle(e) THEN [job EXCEPT !["main"] = new] ELSE job
      /\ UNCHANGED <<watcher, disk, written, watched, phase, todo, loaded, newest, missed, stopVars>>
  BY DEF Receive, diskVars
<1>2. /\ e \in [file : Files, op : Ops]
      /\ queue' \in Seq([file : Files, op : Ops])
      /\ \A i \in 1 .. Len(queue) : i = 1 \/ (i - 1 \in 1 .. Len(queue') /\ queue'[i - 1] = queue[i])
      /\ queue[1] = e
  <2>1. queue \in Seq([file : Files, op : Ops]) /\ queue # << >>
    BY <1>1 DEF TypeOK
  <2>2. QED
    BY <1>1, <2>1, Taken
<1>3. /\ "main" \in Workers /\ new \in Jobs /\ new.at = "load" /\ new.file = e.file
  BY <1>2, RestingIsJob DEF Workers, Jobs, Resting, Versions
<1> HIDE DEF e, new
<1>4. /\ watcher = "dir" /\ shouldHandle(e) => job'["main"] = new
      /\ ~(watcher = "dir" /\ shouldHandle(e)) => job' = job
      /\ \A w \in Workers \ {"main"} : job'[w] = job[w]
  BY <1>1, <1>3 DEF TypeOK
<1>5. TypeOK'
  <2>1. job' \in [Workers -> Jobs]
    BY <1>1, <1>3 DEF TypeOK
  <2>2. timer' \in BOOLEAN
    BY <1>1
  <2>3. QED
    BY <1>1, <1>2, <2>1, <2>2 DEF TypeOK, stopVars
<1>6. Ordered'
  BY <1>1, <1>3, <1>4 DEF Ordered
<1>7. Overtaken' /\ Phases'
  BY <1>1, <1>3, <1>4 DEF Overtaken, Phases, Workers
<1>8. Pending'
  <2>1. \A g \in Files : AtWork(g) => AtWork(g)'
    BY <1>1, <1>3, <1>4 DEF AtWork
  <2>2. \A g \in Files : Reported(g) => Reported(g)' \/ (g = e.file /\ shouldHandle(e))
    BY <1>2 DEF Reported, shouldHandle
  <2>3. (timer => timer') /\ (watcher = "file" /\ shouldHandle(e) => timer')
    BY <1>1, Zenon
  <2>4. \A g \in Files : g = e.file /\ shouldHandle(e) /\ watcher = "dir" => AtWork(g)'
    BY <1>3, <1>4 DEF AtWork
  <2>5. watcher = "file" \/ watcher = "dir"
    BY DEF TypeOK
  <2>6. watcher' = watcher /\ todo' = todo
    BY <1>1
  <2>7. \A g \in Files : InFlight(g) => InFlight(g)'
    BY <2>1, <2>2, <2>3, <2>4, <2>5, <2>6, Zenon DEF InFlight
  <2>8. QED
    BY <1>1, <2>7, ScopeIsFiles DEF Pending, Scope, Readable
<1>9. QED
  BY <1>5, <1>6, <1>7, <1>8

-----------------------------------------------------------------------------
(* The reloads. *)

LEMMA FireInv ==
  ASSUME Inv, NEW w \in Reloaders, Fire(w)
  PROVE  Inv'
<1> USE ReloadAssumption DEF Inv
<1> DEFINE new == [Resting EXCEPT !.at = "load"]
<1>1. /\ timer /\ job[w].at = "idle" /\ timer' = FALSE
      /\ job' = [job EXCEPT ![w] = new]
      /\ UNCHANGED <<watcher, disk, written, watched, queue, phase, todo, loaded, newest, missed, stopVars>>
  BY DEF Fire, diskVars
<1>2. /\ w \in Workers /\ new \in Jobs /\ new.at = "load" /\ new.file = TheFile
      /\ w # "main"
  BY RestingIsJob DEF Workers, Jobs, Resting, Versions
<1> HIDE DEF new
<1>3. job'[w] = new /\ \A v \in Workers \ {w} : job'[v] = job[v]
  BY <1>1, <1>2 DEF TypeOK
<1>4. watcher = "file"
  BY <1>1 DEF Overtaken, TypeOK
<1>5. TypeOK'
  BY <1>1, <1>2 DEF TypeOK, stopVars
<1>6. Ordered' /\ Overtaken' /\ Phases'
  BY <1>1, <1>2, <1>3, <1>4 DEF Ordered, Overtaken, Phases
<1>7. Pending'
  <2>1. AtWork(TheFile)'
    BY <1>2, <1>3 DEF AtWork
  <2>2. QED
    BY <1>1, <1>4, <2>1 DEF Pending, Scope, InFlight
<1>8. QED
  BY <1>5, <1>6, <1>7

LEMMA LoadInv ==
  ASSUME Inv, NEW w \in Workers, Load(w)
  PROVE  Inv'
<1> USE ReloadAssumption DEF Inv
<1> DEFINE f == job[w].file
           new == IF disk[f] = Missing \/ disk[f] \in Unreadable THEN Resting
                  ELSE [job[w] EXCEPT !.at = "apply", !.cfg = disk[f]]
<1>1. /\ job[w].at = "load" /\ job' = [job EXCEPT ![w] = new]
      /\ UNCHANGED <<watcher, disk, written, watched, queue, phase, todo, timer, loaded, newest, missed,
                     stopVars>>
  BY DEF Load, diskVars
<1>2. /\ f \in Files /\ job[w] \in Jobs /\ disk[f] \in Versions \cup {Missing}
  BY DEF TypeOK, Jobs
<1>3. /\ new \in Jobs
      /\ disk[f] = Missing \/ disk[f] \in Unreadable => new.at = "idle"
      /\ ~(disk[f] = Missing \/ disk[f] \in Unreadable) =>
           new.at = "apply" /\ new.file = f /\ new.cfg = disk[f]
  BY <1>2, RestingIsJob DEF Jobs, Resting
<1> HIDE DEF new
<1>4. job'[w] = new /\ \A v \in Workers \ {w} : job'[v] = job[v]
  BY <1>1 DEF TypeOK
<1>5. TypeOK'
  BY <1>1, <1>3 DEF TypeOK, stopVars
<1>6. Ordered'
  <2>1. \A v \in Workers : job'[v].at = "apply" =>
          /\ job'[v].cfg <= written
          /\ disk[job'[v].file] # Missing => job'[v].cfg <= disk[job'[v].file]
    BY <1>2, <1>3, <1>4 DEF Ordered, Versions
  <2>2. QED
    BY <1>1, <2>1 DEF Ordered
<1>7. Overtaken' /\ Phases'
  <2>1. watcher = "dir" => \A v \in Reloaders : job'[v].at = "idle"
    BY <1>1, <1>4 DEF Overtaken, Workers
  <2>2. watcher = "dir" /\ job'["main"].at = "apply" /\ newest[job'["main"].file] # Missing =>
          newest[job'["main"].file] <= job'["main"].cfg
    BY <1>1, <1>2, <1>3, <1>4 DEF Overtaken, Ordered, Workers
  <2>3. QED
    BY <1>1, <2>1, <2>2 DEF Overtaken, Phases
<1>8. Pending'
  <2>1. \A g \in Files : Readable(g) /\ AtWork(g) => AtWork(g)'
    <3>1. ASSUME NEW g \in Files, Readable(g), AtWork(g) PROVE AtWork(g)'
      <4>1. PICK v \in Workers :
              job[v].file = g /\ (job[v].at = "load" \/ (job[v].at = "apply" /\ job[v].cfg = disk[g]))
        BY <3>1 DEF AtWork
      <4>2. CASE v = w
        <5>1. g = f /\ disk[f] # Missing /\ disk[f] \notin Unreadable
          BY <3>1, <4>1, <4>2 DEF Readable, Versions
        <5>2. QED
          BY <5>1, <1>1, <1>3, <1>4 DEF AtWork
      <4>3. CASE v # w
        BY <4>1, <4>3, <1>1, <1>4 DEF AtWork
      <4>4. QED
        BY <4>2, <4>3
    <3>2. QED
      BY <3>1
  <2>2. \A g \in Files : Readable(g) /\ InFlight(g) => InFlight(g)'
    BY <1>1, <2>1 DEF InFlight, Reported
  <2>3. QED
    BY <1>1, <2>2, ScopeIsFiles DEF Pending, Scope, Readable
<1>9. QED
  BY <1>5, <1>6, <1>7, <1>8

LEMMA ApplyInv ==
  ASSUME Inv, NEW w \in Workers, Apply(w)
  PROVE  Inv'
<1> USE ReloadAssumption DEF Inv
<1> DEFINE f == job[w].file
           v == job[w].cfg
<1>1. /\ job[w].at = "apply" /\ job' = [job EXCEPT ![w] = Resting]
      /\ loaded' = IF v \in Refused THEN loaded ELSE [loaded EXCEPT ![f] = v]
      /\ newest' = IF v \in Refused THEN newest ELSE [newest EXCEPT ![f] = Newer(v, @)]
      /\ UNCHANGED <<watcher, disk, written, watched, queue, phase, todo, timer, missed, stopVars>>
  BY DEF Apply, diskVars
<1>2. /\ f \in Files /\ v \in Versions /\ v # Missing
      /\ newest[f] \in Versions \cup {Missing}
  BY DEF TypeOK, Jobs, Versions
<1>3. Resting \in Jobs /\ Resting.at = "idle"
  BY RestingIsJob DEF Resting
<1>4. /\ job'[w] = Resting /\ \A u \in Workers \ {w} : job'[u] = job[u]
  BY <1>1 DEF TypeOK
<1>5. /\ Newer(v, newest[f]) \in Versions /\ Newer(v, newest[f]) # Missing
      /\ v <= Newer(v, newest[f])
      /\ newest[f] # Missing => newest[f] <= Newer(v, newest[f])
      /\ Newer(v, newest[f]) \in {v, newest[f]}
  BY <1>2 DEF Newer, Versions
<1>6. /\ \A g \in Files \ {f} : loaded'[g] = loaded[g] /\ newest'[g] = newest[g]
      /\ v \notin Refused => loaded'[f] = v /\ newest'[f] = Newer(v, newest[f])
      /\ v \in Refused => loaded' = loaded /\ newest' = newest
  BY <1>1, <1>2 DEF TypeOK
<1> HIDE DEF f, v
<1>7. TypeOK'
  <2>1. loaded' \in [Files -> Versions \cup {Missing}]
    BY <1>1, <1>2 DEF TypeOK
  <2>2. newest' \in [Files -> Versions \cup {Missing}]
    BY <1>1, <1>2, <1>5 DEF TypeOK
  <2>3. job' \in [Workers -> Jobs]
    BY <1>1, <1>3 DEF TypeOK
  <2>4. QED
    BY <1>1, <2>1, <2>2, <2>3 DEF TypeOK, stopVars
<1>8. Ordered'
  <2>1. /\ v <= written /\ (disk[f] # Missing => v <= disk[f])
    BY <1>1 DEF Ordered, f, v
  <2>2. newest'[f] # Missing =>
          newest'[f] <= written /\ (disk[f] # Missing => newest'[f] <= disk[f])
    BY <1>2, <1>5, <1>6, <2>1 DEF Ordered
  <2>3. \A u \in Workers : job'[u].at = "apply" => job'[u] = job[u]
    BY <1>3, <1>4
  <2>4. QED
    BY <1>1, <1>2, <1>6, <2>2, <2>3 DEF Ordered
<1>9. Overtaken' /\ Phases'
  <2>1. \A g \in Files : loaded'[g] = Missing <=> newest'[g] = Missing
    BY <1>2, <1>5, <1>6 DEF Overtaken
  <2>2. \A g \in Files : newest'[g] # Missing => loaded'[g] <= newest'[g]
    BY <1>2, <1>5, <1>6 DEF Overtaken
  <2>3. ASSUME watcher = "dir"
        PROVE  /\ w = "main"
               /\ \A u \in Reloaders : job'[u].at = "idle"
               /\ job'["main"].at = "idle"
    BY <2>3, <1>1, <1>3, <1>4 DEF Overtaken, Workers
  <2>4. ASSUME watcher = "dir"
        PROVE  \A g \in Files : loaded'[g] = newest'[g]
    <3>1. newest[f] # Missing => newest[f] <= v
      BY <2>3, <2>4, <1>1 DEF Overtaken, f, v
    <3>2. Newer(v, newest[f]) = v
      BY <3>1, <1>2 DEF Newer, Versions
    <3>3. QED
      BY <3>2, <2>4, <1>6 DEF Overtaken
  <2>5. QED
    BY <1>1, <2>1, <2>2, <2>3, <2>4 DEF Overtaken, Phases
<1>10. Pending'
  <2>1. SUFFICES ASSUME phase \in {"starting", "running"}, NEW g \in Scope \ missed, Readable(g)
                 PROVE  newest'[g] = disk[g] \/ InFlight(g)'
    BY <1>1 DEF Pending, Scope, Readable
  <2>2. g \in Files
    BY ScopeIsFiles
  <2>3. newest[g] = disk[g] \/ InFlight(g)
    BY <2>1 DEF Pending
  <2>4. CASE newest[g] = disk[g]
    <3>1. CASE g = f /\ v \notin Refused
      <4>1. disk[f] # Missing /\ v <= disk[f] /\ newest[f] = disk[f]
        BY <3>1, <2>1, <2>4, <1>1 DEF Ordered, Readable, Versions, f, v
      <4>2. QED
        BY <3>1, <4>1, <1>2, <1>6 DEF Newer, Versions
    <3>2. CASE ~(g = f /\ v \notin Refused)
      BY <3>2, <2>2, <2>4, <1>6
    <3>3. QED
      BY <3>1, <3>2
  <2>5. CASE g \in todo \/ Reported(g) \/ (watcher = "file" /\ timer)
    BY <2>5, <1>1 DEF InFlight, Reported
  <2>6. CASE AtWork(g)
    <3>1. PICK u \in Workers :
            job[u].file = g /\ (job[u].at = "load" \/ (job[u].at = "apply" /\ job[u].cfg = disk[g]))
      BY <2>6 DEF AtWork
    <3>2. CASE u = w
      <4>1. g = f /\ v = disk[f] /\ v \notin Refused
        BY <3>1, <3>2, <2>1, <1>1 DEF f, v, Readable
      <4>2. newest[f] # Missing => newest[f] <= disk[f]
        BY <4>1, <1>2 DEF Ordered
      <4>3. Newer(v, newest[f]) = v
        BY <4>1, <4>2, <1>2 DEF Newer, Versions
      <4>4. QED
        BY <4>1, <4>3, <1>6
    <3>3. CASE u # w
      <4>1. AtWork(g)'
        BY <3>1, <3>3, <1>1, <1>4 DEF AtWork
      <4>2. QED
        BY <4>1 DEF InFlight
    <3>4. QED
      BY <3>2, <3>3
  <2>7. QED
    BY <2>3, <2>4, <2>5, <2>6 DEF InFlight
<1>11. QED
  BY <1>7, <1>8, <1>9, <1>10

-----------------------------------------------------------------------------
LEMMA NextInv == Inv /\ [Next]_vars => Inv'
<1> SUFFICES ASSUME Inv, [Next]_vars PROVE Inv'
  OBVIOUS
<1>1. ASSUME NEW f \in Scope, Write(f) PROVE Inv'
  <2> DEFINE op == IF disk[f] = Missing THEN "create" ELSE "write"
  <2>1. /\ op \in Ops /\ op \in {"write", "create"}
        /\ written < MaxVersion /\ phase # "ended" /\ written' = written + 1
        /\ disk' = [disk EXCEPT ![f] = written + 1] /\ Report(f, op)
        /\ missed' = IF phase = "new" \/ Shows(f) THEN missed \ {f} ELSE missed \cup {f}
        /\ UNCHANGED <<watcher, watched, phase, todo, timer, job, loaded, newest, stopVars>>
    BY <1>1 DEF Write, Ops
  <2>2. watched' \subseteq Files
    BY <2>1 DEF Inv, TypeOK
  <2> HIDE DEF op
  <2>3. QED
    BY <2>1, <2>2, ChangeInv
<1>2. ASSUME NEW f \in Scope, Replace(f) PROVE Inv'
  <2> DEFINE op == IF watcher = "file" THEN "remove" ELSE "create"
  <2>1. /\ op \in Ops /\ (watcher = "dir" => op = "create")
        /\ written < MaxVersion /\ phase # "ended" /\ written' = written + 1
        /\ disk' = [disk EXCEPT ![f] = written + 1] /\ Report(f, op)
        /\ watched' = IF watcher = "file" THEN watched \ {f} ELSE watched
        /\ missed' = IF phase = "new" \/ (watcher = "dir" /\ Shows(f))
                     THEN missed \ {f} ELSE missed \cup {f}
        /\ UNCHANGED <<watcher, phase, todo, timer, job, loaded, newest, stopVars>>
    BY <1>2 DEF Replace, Ops
  <2>2. watched' \subseteq Files
    BY <2>1 DEF Inv, TypeOK
  <2> HIDE DEF op
  <2>3. QED
    BY <2>1, <2>2, ChangeInv
<1>3. ASSUME NEW f \in Scope, NEW op \in {"remove", "rename"}, Delete(f, op) PROVE Inv'
  BY <1>3, DeleteInv
<1>4. CASE Start
  BY <1>4, StartInv
<1>5. CASE Run
  BY <1>5, RunInv
<1>6. CASE Stop \/ Cancel
  BY <1>6, StopInv
<1>7. CASE Receive
  BY <1>7, ReceiveInv
<1>8. CASE LoopEnds
  BY <1>8, LoopEndsInv
<1>9. ASSUME NEW f \in Files, LoadExisting(f) PROVE Inv'
  BY <1>9, LoadExistingInv
<1>10. ASSUME NEW w \in Reloaders, Fire(w) PROVE Inv'
  BY <1>10, FireInv
<1>11. ASSUME NEW w \in Workers, ReloadStep(w) PROVE Inv'
  BY <1>11, LoadInv, ApplyInv DEF ReloadStep
<1>12. CASE UNCHANGED vars
  <2>1. TypeOK'
    BY <1>12 DEF vars, Inv, TypeOK
  <2>2. Ordered' /\ Overtaken' /\ Phases'
    BY <1>12 DEF vars, Inv, Ordered, Overtaken, Phases
  <2>3. Pending'
    BY <1>12 DEF vars, Inv, Pending, InFlight, Reported, AtWork, Readable, Scope
  <2>4. QED
    BY <2>1, <2>2, <2>3 DEF Inv
<1>13. QED
  BY <1>1, <1>2, <1>3, <1>4, <1>5, <1>6, <1>7, <1>8, <1>9, <1>10, <1>11, <1>12 DEF Next

LEMMA Invariance == Spec => []Inv
  BY InitInv, NextInv, PTL DEF Spec

-----------------------------------------------------------------------------
\* A watcher with nothing left to do has loaded what was reported to it and can be
\* loaded; an older version is in its place only where one reload of a FileWatcher
\* overtook another.
THEOREM ReloadsCorrect == Spec => []ReloadsExact
<1>1. ASSUME Inv, Quiet, NEW f \in Scope \ missed, Readable(f)
      PROVE  newest[f] = disk[f] /\ (loaded[f] # disk[f] => watcher = "file" /\ loaded[f] < newest[f])
  <2>1. f \in Files /\ disk[f] \in Versions /\ disk[f] # Missing
    BY <1>1, ScopeIsFiles, ReloadAssumption DEF Readable, Versions
  <2>2. ~InFlight(f)
    BY <1>1 DEF Inv, Phases, Quiet, InFlight, Reported, AtWork
  <2>3. newest[f] = disk[f]
    BY <1>1, <2>2 DEF Inv, Pending, Quiet
  <2>4. loaded[f] \in Versions /\ loaded[f] <= newest[f] /\ (watcher = "dir" => loaded[f] = newest[f])
    BY <1>1, <2>1, <2>3 DEF Inv, TypeOK, Overtaken
  <2>5. QED
    BY <1>1, <2>1, <2>3, <2>4 DEF Inv, TypeOK, Versions
<1>2. Inv => ReloadsExact
  BY <1>1 DEF Inv, ReloadsExact, StaleNeedsOvertaking
<1>3. QED
  BY Invariance, <1>2, PTL

\* Once the loop has ended, no worker that is idle begins a reload.
THEOREM NothingBeginsLate == Spec => NothingBeginsAfterEnd
<1> DEFINE Stays == phase = "ended" => \A w \in Workers : job[w].at = "idle" => job'[w].at = "idle"
<1>1. ASSUME Inv, [Next]_vars PROVE Stays
  <2>1. SUFFICES ASSUME phase = "ended", NEW w \in Workers, job[w].at = "idle"
                 PROVE  job'[w].at = "idle"
    OBVIOUS
  <2>2. ASSUME NEW u \in Workers, ReloadStep(u) PROVE job'[w].at = "idle"
    <3>1. u # w /\ \E new : job' = [job EXCEPT ![u] = new]
      <4>1. CASE Load(u)
        BY <2>1, <4>1 DEF Load
      <4>2. CASE Apply(u)
        BY <2>1, <4>2 DEF Apply
      <4>3. QED
        BY <2>2, <4>1, <4>2 DEF ReloadStep
    <3>2. QED
      BY <2>1, <3>1 DEF Inv, TypeOK
  <2>3. ~timer
    BY <1>1, <2>1 DEF Inv, Phases
  <2>4. CASE ~(\E u \in Workers : ReloadStep(u))
    BY <1>1, <2>1, <2>3, <2>4
       DEF Next, vars, Write, Replace, Delete, Start, Run, Stop, Cancel, Receive, LoopEnds,
           LoadExisting, Fire
  <2>5. QED
    BY <2>2, <2>4
<1>2. Inv /\ [Next]_vars => [Stays]_vars
  BY <1>1
<1>3. QED
  BY Invariance, <1>2, PTL DEF Spec, NothingBeginsAfterEnd

-----------------------------------------------------------------------------
(***************************************************************************)
(* From a file to what is evaluated, for any configurations, ids and       *)
(* limits: what a valid configuration becomes.                             *)
(*                                                                         *)
(* Trees: a condition and what the compiler makes of it are defined by     *)
(* recursion over the same positions.  Both recursions are defined         *)
(* (WalkIsDefined), because the height of a position falls from a node to  *)
(* its children; they agree at a node if they agree at its children, so a  *)
(* least place where they differ can only be a negation of nothing.        *)
(*                                                                         *)
(* Order: with ids of their own, rules are strictly ordered, so the place  *)
(* of each is the number of those before it, which no listing changes.     *)
(***************************************************************************)

LEMMA Least ==
  ASSUME NEW T, T \subseteq Nat, T # {}
  PROVE  \E x \in T : \A y \in T : x <= y
<1> DEFINE R == OpToRel(<, Nat)
<1>1. IsWellFoundedOn(R, Nat)
  BY NatLessThanWellFounded
<1>2. \A x, y \in Nat : x < y => <<x, y>> \in R
  BY DEF OpToRel
<1> HIDE DEF R
<1>3. PICK x \in T : \A y \in T : ~ (<<y, x>> \in R)
  BY <1>1, WFMin
<1>4. ASSUME NEW y \in T PROVE x <= y
  <2>1. x \in Nat /\ y \in Nat
    OBVIOUS
  <2>2. ~ (y < x)
    BY <1>2, <1>3, <2>1
  <2> QED BY <2>1, <2>2
<1> QED BY <1>4

-----------------------------------------------------------------------------
(* Condition trees. *)

LEMMA NodeType ==
  ASSUME NEW tree, IsTree(tree), NEW p \in DOMAIN tree
  PROVE  tree[p].kids \in Nat /\ tree[p].leaf \in STRING
<1> DEFINE node == tree[p]
<1>1. node \in Nodes
  BY DEF IsTree
<1> HIDE DEF node
<1>2. node.kids \in Nat /\ node.leaf \in STRING
  BY <1>1 DEF Nodes
<1> QED BY <1>2 DEF node

LEMMA IndexType ==
  ASSUME NEW n \in Nat
  PROVE  \A i \in 1 .. n : i \in Nat
OBVIOUS

LEMMA PrefixOfChild ==
  ASSUME NEW p \in Seq(Nat), NEW q \in Seq(Nat), NEW i \in Nat, IsStrictPrefix(q, Append(p, i))
  PROVE  q = p \/ IsStrictPrefix(q, p)
<1> DEFINE c == Append(p, i)
<1>1. /\ Len(q) \in Nat /\ Len(p) \in Nat /\ Len(c) = Len(p) + 1
      /\ \A k \in 1 .. Len(p) : c[k] = p[k]
      /\ c \in Seq(Nat)
  OBVIOUS
<1>2. Len(q) <= Len(c) /\ SubSeq(q, 1, Len(q)) = SubSeq(c, 1, Len(q)) /\ q # c
  BY DEF IsStrictPrefix, IsPrefix
<1>3. \A k \in 1 .. Len(q) : q[k] = c[k]
  <2> SUFFICES ASSUME NEW k \in 1 .. Len(q) PROVE q[k] = c[k]
    OBVIOUS
  <2>1. SubSeq(q, 1, Len(q))[k] = q[k]
    BY <1>1
  <2>2. SubSeq(c, 1, Len(q))[k] = c[k]
    BY <1>1, <1>2
  <2> QED BY <1>2, <2>1, <2>2
<1>4. Len(q) # Len(c)
  <2> SUFFICES ASSUME Len(q) = Len(c) PROVE q = c
    BY <1>2
  <2> QED BY <1>1, <1>3
<1>5. Len(q) <= Len(p)
  BY <1>1, <1>2, <1>4
<1>6. \A k \in 1 .. Len(q) : q[k] = p[k]
  BY <1>1, <1>3, <1>5
<1>7. SubSeq(q, 1, Len(q)) = SubSeq(p, 1, Len(q))
  BY <1>1, <1>5, <1>6
<1> QED BY <1>5, <1>7 DEF IsStrictPrefix, IsPrefix

LEMMA RootHasNoPrefix ==
  ASSUME NEW q \in Seq(Nat)
  PROVE  ~IsStrictPrefix(q, << >>)
<1> SUFFICES ASSUME Len(q) <= 0 PROVE q = << >>
  BY DEF IsStrictPrefix, IsPrefix
<1> QED OBVIOUS

\* What the compiler gets: no node is too deep and every inner node has an operator.
Made(tree) ==
  /\ DOMAIN tree \subseteq Seq(Nat) /\ << >> \in DOMAIN tree
  /\ \A p \in DOMAIN tree :
       /\ Len(p) <= MaxConditionDepth
       /\ tree[p].kids \in Nat
       /\ tree[p].leaf = "" => tree[p].op \in {"and", "or", "not"}
       /\ \A i \in 1 .. tree[p].kids : Append(p, i) \in DOMAIN tree

LEMMA ChildIsReached ==
  ASSUME NEW tree, IsTree(tree), NEW p \in Reached(tree), tree[p].leaf = "",
         NEW i \in 1 .. tree[p].kids
  PROVE  Append(p, i) \in Reached(tree)
<1>1. p \in DOMAIN tree /\ DOMAIN tree \subseteq Seq(Nat) /\ Append(p, i) \in DOMAIN tree
  BY DEF IsTree, Reached
<1>2. i \in Nat
  <2>1. tree[p].kids \in Nat
    BY <1>1, NodeType
  <2> QED BY <2>1, IndexType, Zenon
<1>3. ASSUME NEW q \in DOMAIN tree, IsStrictPrefix(q, Append(p, i)) PROVE tree[q].leaf = ""
  <2>1. q = p \/ IsStrictPrefix(q, p)
    BY <1>1, <1>2, <1>3, PrefixOfChild
  <2> QED BY <2>1 DEF Reached
<1> QED BY <1>1, <1>3 DEF Reached

\* What passes the validator is never too deep for the compiler.
LEMMA MaterializedIsMade ==
  ASSUME NEW tree, IsTree(tree), validateConditionNode(tree)
  PROVE  /\ Made(materializeCondition(tree))
         /\ ~TooDeep(materializeCondition(tree))
<1> DEFINE made == materializeCondition(tree)
<1>1. /\ DOMAIN made = Reached(tree) /\ Reached(tree) \subseteq DOMAIN tree
      /\ DOMAIN tree \subseteq Seq(Nat)
  BY DEF materializeCondition, Reached, IsTree
<1>2. << >> \in DOMAIN made
  <2>1. << >> \in DOMAIN tree /\ \A q \in DOMAIN tree : ~IsStrictPrefix(q, << >>)
    BY <1>1, RootHasNoPrefix DEF IsTree
  <2> QED BY <1>1, <2>1 DEF Reached
<1> HIDE DEF made
<1>3. ASSUME NEW p \in DOMAIN made
      PROVE  /\ Len(p) \in Nat /\ Len(p) <= MaxConditionDepth
             /\ made[p].kids \in Nat
             /\ made[p].leaf = "" => made[p].op \in {"and", "or", "not"}
             /\ \A i \in 1 .. made[p].kids : Append(p, i) \in DOMAIN made
  <2>0. p \in Reached(tree) /\ p \in DOMAIN tree /\ p \in Seq(Nat)
    BY <1>1
  <2>a. Len(p) \in Nat
    BY <2>0
  <2>b. Len(p) <= MaxDepth
    BY <2>0, Zenon DEF validateConditionNode
  <2>1. Len(p) <= MaxDepth /\ Len(p) \in Nat
    BY <2>a, <2>b
  <2>2. Len(p) <= MaxConditionDepth
    BY <2>1, DefinitionAssumption
  <2>4. tree[p].kids \in Nat
    BY <2>0, NodeType
  <2> DEFINE node == made[p]
             leaf == tree[p].leaf
             op == Operator(tree[p].op)
             kids == tree[p].kids
  <2>5. node = IF leaf # "" THEN [op |-> "and", leaf |-> leaf, kids |-> 0]
               ELSE [op |-> op, leaf |-> "", kids |-> kids]
    BY <2>0 DEF materializeCondition, made
  <2>6. kids \in Nat /\ op \in {"and", "or", "not"}
    BY <2>4 DEF Operator
  <2>7. leaf = "" => \A i \in 1 .. kids : Append(p, i) \in DOMAIN made
    BY <1>1, <2>0, ChildIsReached
  <2> HIDE DEF node, leaf, op, kids
  <2>8. /\ node.kids \in Nat
        /\ node.leaf = "" => node.op \in {"and", "or", "not"} /\ node.kids = kids /\ leaf = ""
        /\ node.leaf # "" => node.kids = 0
    <3>1. CASE leaf # ""
      <4>1. node.kids = 0 /\ node.leaf = leaf
        BY <2>5, <3>1
      <4>2. 0 \in Nat
        OBVIOUS
      <4> QED BY <3>1, <4>1, <4>2, Zenon
    <3>2. CASE leaf = ""
      <4>1. node.kids = kids /\ node.leaf = "" /\ node.op = op
        BY <2>5, <3>2
      <4> QED BY <2>6, <3>2, <4>1
    <3> QED BY <3>1, <3>2
  <2>9. \A i \in 1 .. node.kids : Append(p, i) \in DOMAIN made
    <3>1. CASE node.leaf = ""
      BY <2>7, <2>8, <3>1, Zenon
    <3>2. CASE node.leaf # ""
      <4>1. 1 .. 0 = {}
        OBVIOUS
      <4> QED BY <2>8, <3>2, <4>1, Zenon
    <3> QED BY <3>1, <3>2
  <2> QED BY <2>1, <2>2, <2>8, <2>9 DEF node
<1>4. Made(made)
  BY <1>1, <1>2, <1>3 DEF Made
<1>5. ~TooDeep(made)
  <2> SUFFICES ASSUME NEW p \in DOMAIN made PROVE ~(Len(p) > MaxConditionDepth)
    BY DEF TooDeep
  <2>1. Len(p) \in Nat /\ Len(p) <= MaxConditionDepth
    BY <1>3
  <2> QED BY <2>1, DefinitionAssumption
<1> QED BY <1>4, <1>5 DEF made

-----------------------------------------------------------------------------

LEMMA KidsAgree ==
  ASSUME NEW f, NEW g, NEW p, NEW n, \A i \in 1 .. n : f[Append(p, i)] = g[Append(p, i)]
  PROVE  KidAnswers(f, p, n) = KidAnswers(g, p, n)
BY DEF KidAnswers

LEMMA LoopOverNothing ==
  ASSUME NEW f, NEW p
  PROVE  Loop(KidAnswers(f, p, 0), TRUE) = Answer(FALSE, << >>)
<1> DEFINE s == KidAnswers(f, p, 0)
<1>1. s = << >>
  BY DEF KidAnswers
<1>2. {i \in DOMAIN s : s[i].is = TRUE} = {} /\ Len(s) = 0
  BY <1>1
<1>3. [i \in 1 .. 0 |-> s[i].asked] = << >>
  OBVIOUS
<1>4. FlattenSeq(<< >>) = << >>
  BY DEF FlattenSeq
<1> QED BY <1>2, <1>3, <1>4 DEF Loop

EmptyNot(tree, p) == tree[p].leaf = "" /\ tree[p].op = "not" /\ tree[p].kids = 0

\* What the node at p answers, by its kind, when its children answer f and a negation
\* of nothing answers `nothing`.
NodeIs(tree, truth, f, p, is, nothing) ==
  LET leaf == tree[p].leaf
      op == tree[p].op
      kids == tree[p].kids IN
  /\ leaf # "" => is = Answer(truth[leaf], <<leaf>>)
  /\ leaf = "" /\ op = "and" => is = Loop(KidAnswers(f, p, kids), FALSE)
  /\ leaf = "" /\ op = "or" => is = Loop(KidAnswers(f, p, kids), TRUE)
  /\ leaf = "" /\ op = "not" /\ kids = 0 => is = nothing
  /\ leaf = "" /\ op = "not" /\ kids # 0 => is = Not(f[Append(p, 1)])

LEMMA EvaluateNodeIs ==
  ASSUME NEW tree, Made(tree), NEW truth, NEW f, NEW p \in DOMAIN tree
  PROVE  NodeIs(tree, truth, f, p, EvaluateNode(tree, truth, f, p), Answer(TRUE, << >>))
<1> DEFINE is == EvaluateNode(tree, truth, f, p)
           leaf == tree[p].leaf
           op == tree[p].op
           kids == tree[p].kids
           answers == KidAnswers(f, p, kids)
<1>1. is = IF leaf # "" THEN Answer(truth[leaf], <<leaf>>)
           ELSE CASE op = "and" -> Loop(answers, FALSE)
                  [] op = "or"  -> Loop(answers, TRUE)
                  [] op = "not" -> IF kids = 0 THEN Answer(TRUE, << >>) ELSE Not(answers[1])
  BY DEF EvaluateNode
<1>2. kids \in Nat
  BY DEF Made
<1>3. kids # 0 => answers[1] = f[Append(p, 1)]
  <2> SUFFICES ASSUME kids # 0 PROVE answers[1] = f[Append(p, 1)]
    OBVIOUS
  <2>1. 1 \in 1 .. kids
    BY <1>2
  <2> QED BY <2>1 DEF KidAnswers
<1> HIDE DEF is, leaf, op, kids, answers
<1>4. "and" # "or" /\ "and" # "not" /\ "or" # "not"
  OBVIOUS
<1>5. leaf # "" => is = Answer(truth[leaf], <<leaf>>)
  BY <1>1, Zenon
<1>6. leaf = "" /\ op = "and" => is = Loop(answers, FALSE)
  BY <1>1
<1>7. leaf = "" /\ op = "or" => is = Loop(answers, TRUE)
  BY <1>1
<1>8. leaf = "" /\ op = "not" => is = IF kids = 0 THEN Answer(TRUE, << >>) ELSE Not(answers[1])
  BY <1>1
<1>9. /\ leaf = "" /\ op = "not" /\ kids = 0 => is = Answer(TRUE, << >>)
      /\ leaf = "" /\ op = "not" /\ kids # 0 => is = Not(f[Append(p, 1)])
  BY <1>3, <1>8, Zenon
<1> QED BY <1>5, <1>6, <1>7, <1>9 DEF NodeIs, is, leaf, op, kids, answers

LEMMA CompiledNodeIs ==
  ASSUME NEW tree, Made(tree), NEW truth, NEW f, NEW p \in DOMAIN tree
  PROVE  NodeIs(tree, truth, f, p, RunNode(compileConditionTree(tree), truth, f, p),
                Answer(FALSE, << >>))
<1> DEFINE is == RunNode(compileConditionTree(tree), truth, f, p)
           closure == compileConditionTree(tree)[p]
           leaf == tree[p].leaf
           op == tree[p].op
           kids == tree[p].kids
           tl == truth[leaf]
<1>1. closure = CASE leaf # "" -> Ask(leaf)
                  [] leaf = "" /\ op = "and" -> Until(FALSE, kids)
                  [] leaf = "" /\ op = "or"  -> Until(TRUE, kids)
                  [] leaf = "" /\ op = "not" -> IF kids = 0 THEN Until(TRUE, 0) ELSE Negate(1)
  BY DEF compileConditionTree
<1>2. is = CASE closure.do = "ask" -> Answer(truth[closure.leaf], <<closure.leaf>>)
             [] closure.do = "until" -> Loop(KidAnswers(f, p, closure.kids), closure.until)
             [] closure.do = "negate" -> Not(f[Append(p, closure.kid)])
  BY DEF RunNode
<1> HIDE DEF is, closure, leaf, op, kids
<1>3. ASSUME closure = Ask(leaf) PROVE is = Answer(truth[leaf], <<leaf>>)
  <2>1. closure.do = "ask" /\ closure.leaf = leaf
    BY <1>3 DEF Ask
  <2> QED BY <1>2, <2>1
<1>4. ASSUME NEW b, NEW n, closure = Until(b, n) PROVE is = Loop(KidAnswers(f, p, n), b)
  <2>1. closure.do = "until" /\ closure.kids = n /\ closure.until = b
    BY <1>4 DEF Until
  <2> QED BY <1>2, <2>1
<1>5. ASSUME closure = Negate(1) PROVE is = Not(f[Append(p, 1)])
  <2>1. closure.do = "negate" /\ closure.kid = 1
    BY <1>5 DEF Negate
  <2> QED BY <1>2, <2>1
<1>6. leaf # "" => closure = Ask(leaf)
  BY <1>1
<1>7. leaf = "" /\ op = "and" => closure = Until(FALSE, kids)
  BY <1>1
<1>8. leaf = "" /\ op = "or" => closure = Until(TRUE, kids)
  BY <1>1
<1>9. leaf = "" /\ op = "not" => closure = IF kids = 0 THEN Until(TRUE, 0) ELSE Negate(1)
  BY <1>1
<1>10. /\ leaf = "" /\ op = "not" /\ kids = 0 => closure = Until(TRUE, 0)
       /\ leaf = "" /\ op = "not" /\ kids # 0 => closure = Negate(1)
  BY <1>9, Zenon
<1>11. /\ leaf # "" => is = Answer(truth[leaf], <<leaf>>)
       /\ leaf = "" /\ op = "and" => is = Loop(KidAnswers(f, p, kids), FALSE)
       /\ leaf = "" /\ op = "or" => is = Loop(KidAnswers(f, p, kids), TRUE)
  BY <1>3, <1>4, <1>6, <1>7, <1>8, Zenon
<1>12. /\ leaf = "" /\ op = "not" /\ kids = 0 => is = Answer(FALSE, << >>)
       /\ leaf = "" /\ op = "not" /\ kids # 0 => is = Not(f[Append(p, 1)])
  BY <1>4, <1>5, <1>10, LoopOverNothing, Zenon
<1> QED BY <1>11, <1>12 DEF NodeIs, is, leaf, op, kids

\* A node depends on no answers but its children's, and on `nothing` only if it is a
\* negation of nothing.
LEMMA NodesAgree ==
  ASSUME NEW tree, Made(tree), NEW truth, NEW f, NEW g, NEW p \in DOMAIN tree,
         NEW a, NEW x, NodeIs(tree, truth, f, p, a, x),
         NEW b, NEW y, NodeIs(tree, truth, g, p, b, y),
         \A i \in 1 .. tree[p].kids : f[Append(p, i)] = g[Append(p, i)],
         EmptyNot(tree, p) => x = y
  PROVE  a = b
<1> DEFINE leaf == tree[p].leaf
           op == tree[p].op
           kids == tree[p].kids
<1>1. leaf = "" => op = "and" \/ op = "or" \/ (op = "not" /\ kids = 0) \/ (op = "not" /\ kids # 0)
  BY DEF Made
<1>2. KidAnswers(f, p, kids) = KidAnswers(g, p, kids)
  BY KidsAgree
<1>3. kids # 0 => f[Append(p, 1)] = g[Append(p, 1)]
  <2> DEFINE n == kids
  <2>1. n \in Nat
    BY DEF Made
  <2> HIDE DEF n
  <2>2. n # 0 => 1 \in 1 .. n
    BY <2>1
  <2> QED BY <2>2, Zenon DEF n
<1>4. leaf = "" /\ op = "not" /\ kids = 0 => x = y
  BY Zenon DEF EmptyNot
<1> DEFINE allf == Loop(KidAnswers(f, p, kids), FALSE)
           allg == Loop(KidAnswers(g, p, kids), FALSE)
           somef == Loop(KidAnswers(f, p, kids), TRUE)
           someg == Loop(KidAnswers(g, p, kids), TRUE)
           ask == Answer(truth[leaf], <<leaf>>)
<1>5. allf = allg /\ somef = someg
  BY <1>2
<1>6. /\ leaf # "" => a = ask
      /\ leaf = "" /\ op = "and" => a = allf
      /\ leaf = "" /\ op = "or" => a = somef
      /\ leaf = "" /\ op = "not" /\ kids = 0 => a = x
      /\ leaf = "" /\ op = "not" /\ kids # 0 => a = Not(f[Append(p, 1)])
  BY DEF NodeIs
<1>7. /\ leaf # "" => b = ask
      /\ leaf = "" /\ op = "and" => b = allg
      /\ leaf = "" /\ op = "or" => b = someg
      /\ leaf = "" /\ op = "not" /\ kids = 0 => b = y
      /\ leaf = "" /\ op = "not" /\ kids # 0 => b = Not(g[Append(p, 1)])
  BY DEF NodeIs
<1> HIDE DEF leaf, op, kids, allf, allg, somef, someg, ask
<1> QED BY <1>1, <1>3, <1>4, <1>5, <1>6, <1>7, Zenon

\* The tree itself, or what the compiler made of it.
Walk(itself, tree, truth, f, p) ==
  IF itself THEN EvaluateNode(tree, truth, f, p)
  ELSE RunNode(compileConditionTree(tree), truth, f, p)

LEMMA NodesAreLocal ==
  ASSUME NEW tree, Made(tree), NEW truth, NEW f, NEW g, NEW p \in DOMAIN tree,
         NEW itself \in BOOLEAN,
         \A i \in 1 .. tree[p].kids : f[Append(p, i)] = g[Append(p, i)]
  PROVE  Walk(itself, tree, truth, f, p) = Walk(itself, tree, truth, g, p)
<1> DEFINE nothing == IF itself THEN Answer(TRUE, << >>) ELSE Answer(FALSE, << >>)
           a == Walk(itself, tree, truth, f, p)
           b == Walk(itself, tree, truth, g, p)
<1>1. NodeIs(tree, truth, f, p, a, nothing)
  BY EvaluateNodeIs, CompiledNodeIs DEF Walk
<1>2. NodeIs(tree, truth, g, p, b, nothing)
  BY EvaluateNodeIs, CompiledNodeIs DEF Walk
<1> HIDE DEF a, b, nothing
<1>3. \A i \in 1 .. tree[p].kids : f[Append(p, i)] = g[Append(p, i)]
  OBVIOUS
<1>4. EmptyNot(tree, p) => nothing = nothing
  OBVIOUS
<1>5. a = b
  BY <1>1, <1>2, <1>3, <1>4, NodesAgree
<1> QED BY <1>5 DEF a, b

Height(p) == MaxConditionDepth - Len(p)

LEMMA HeightFalls ==
  ASSUME NEW tree, Made(tree), NEW p \in DOMAIN tree
  PROVE  /\ Height(p) \in Nat
         /\ \A i \in 1 .. tree[p].kids : Height(Append(p, i)) \in Nat /\ Height(Append(p, i)) < Height(p)
<1>1. \A q \in DOMAIN tree : Height(q) \in Nat /\ Height(q) = MaxConditionDepth - Len(q)
  <2> SUFFICES ASSUME NEW q \in DOMAIN tree PROVE Height(q) \in Nat
    BY DEF Height
  <2>1. q \in Seq(Nat) /\ Len(q) <= MaxConditionDepth
    BY DEF Made
  <2> QED BY <2>1, DefinitionAssumption DEF Height
<1>2. ASSUME NEW i \in 1 .. tree[p].kids
      PROVE  Append(p, i) \in DOMAIN tree /\ Len(Append(p, i)) = Len(p) + 1
  <2>1. p \in Seq(Nat) /\ Append(p, i) \in DOMAIN tree /\ tree[p].kids \in Nat
    BY DEF Made
  <2>2. i \in Nat
    BY <2>1, IndexType, Zenon
  <2>3. Len(Append(p, i)) = Len(p) + 1
    BY <2>1, <2>2
  <2> QED BY <2>1, <2>3
<1>3. Len(p) \in Nat
  <2>1. p \in Seq(Nat)
    BY DEF Made
  <2> QED BY <2>1
<1>4. ASSUME NEW i \in 1 .. tree[p].kids
      PROVE  Height(Append(p, i)) \in Nat /\ Height(Append(p, i)) < Height(p)
  <2>1. /\ Height(Append(p, i)) \in Nat /\ Height(Append(p, i)) = MaxConditionDepth - Len(Append(p, i))
        /\ Height(p) = MaxConditionDepth - Len(p)
    BY <1>1, <1>2
  <2>2. Len(Append(p, i)) = Len(p) + 1
    BY <1>2
  <2> QED BY <1>3, <2>1, <2>2, DefinitionAssumption
<1> QED BY <1>1, <1>4

\* Both evaluations are defined: there are answers that fit together.
LEMMA WalkIsDefined ==
  ASSUME NEW tree, Made(tree), NEW truth, NEW itself \in BOOLEAN
  PROVE  \E f : f = [p \in DOMAIN tree |-> Walk(itself, tree, truth, f, p)]
<1> DEFINE Once(f) == [p \in DOMAIN tree |-> Walk(itself, tree, truth, f, p)]
           Upto(f, n) == \A p \in DOMAIN tree : Height(p) < n => f[p] = Walk(itself, tree, truth, f, p)
           T == {n \in Nat : ~ \E f : DOMAIN f = DOMAIN tree /\ f = [p \in DOMAIN tree |-> f[p]] /\ Upto(f, n)}
<1>1. ASSUME NEW f, NEW n \in Nat, Upto(f, n)
      PROVE  Upto(Once(f), n + 1)
  <2> SUFFICES ASSUME NEW p \in DOMAIN tree, Height(p) < n + 1
               PROVE  Once(f)[p] = Walk(itself, tree, truth, Once(f), p)
    OBVIOUS
  <2>1. ASSUME NEW i \in 1 .. tree[p].kids PROVE f[Append(p, i)] = Once(f)[Append(p, i)]
    <3>1. Append(p, i) \in DOMAIN tree
      BY DEF Made
    <3>2. Height(Append(p, i)) < n
      <4>1. Height(p) \in Nat /\ Height(Append(p, i)) \in Nat /\ Height(Append(p, i)) < Height(p)
        BY HeightFalls
      <4> QED BY <4>1
    <3> QED BY <1>1, <3>1, <3>2
  <2> DEFINE g == Once(f)
  <2>2. g[p] = Walk(itself, tree, truth, f, p)
    OBVIOUS
  <2> HIDE DEF g
  <2>3. Walk(itself, tree, truth, f, p) = Walk(itself, tree, truth, g, p)
    <3>1. \A i \in 1 .. tree[p].kids : f[Append(p, i)] = g[Append(p, i)]
      BY <2>1 DEF g
    <3> QED BY <3>1, NodesAreLocal
  <2> QED BY <2>2, <2>3 DEF g
<1>2. T = {}
  <2> SUFFICES ASSUME T # {} PROVE FALSE
    OBVIOUS
  <2>1. PICK n \in T : \A m \in T : n <= m
    BY Least
  <2>2. n # 0
    <3> DEFINE f == [p \in DOMAIN tree |-> 0]
    <3>1. \A p \in DOMAIN tree : ~(Height(p) < 0)
      BY HeightFalls
    <3>2. DOMAIN f = DOMAIN tree /\ f = [p \in DOMAIN tree |-> f[p]] /\ Upto(f, 0)
      BY <3>1
    <3> QED BY <3>2
  <2>3. n - 1 \in Nat /\ n - 1 \notin T /\ (n - 1) + 1 = n
    BY <2>1, <2>2
  <2>4. PICK f : DOMAIN f = DOMAIN tree /\ Upto(f, n - 1)
    BY <2>3
  <2>5. Upto(Once(f), n)
    <3>1. Upto(Once(f), (n - 1) + 1)
      BY <1>1, <2>3, <2>4
    <3> QED BY <2>3, <3>1
  <2>6. DOMAIN Once(f) = DOMAIN tree /\ Once(f) = [p \in DOMAIN tree |-> Once(f)[p]]
    OBVIOUS
  <2> QED BY <2>1, <2>5, <2>6
<1>3. PICK f : f = [p \in DOMAIN tree |-> f[p]] /\ Upto(f, MaxConditionDepth + 1)
  <2>1. MaxConditionDepth + 1 \in Nat
    BY DefinitionAssumption
  <2> QED BY <1>2, <2>1
<1>4. \A p \in DOMAIN tree : f[p] = Walk(itself, tree, truth, f, p)
  <2> SUFFICES ASSUME NEW p \in DOMAIN tree PROVE Height(p) < MaxConditionDepth + 1
    BY <1>3
  <2>1. p \in Seq(Nat)
    BY DEF Made
  <2> QED BY <2>1, DefinitionAssumption DEF Height
<1> QED BY <1>3, <1>4

LEMMA EvaluateUnfolds ==
  ASSUME NEW tree, Made(tree), NEW truth
  PROVE  \E f : /\ f = [p \in DOMAIN tree |-> EvaluateNode(tree, truth, f, p)]
                /\ Evaluate(tree, truth) = f[<< >>]
<1>1. \E f : f = [p \in DOMAIN tree |-> EvaluateNode(tree, truth, f, p)]
  <2>1. \E f : f = [p \in DOMAIN tree |-> Walk(TRUE, tree, truth, f, p)]
    <3>1. TRUE \in BOOLEAN
      OBVIOUS
    <3> QED BY <3>1, WalkIsDefined, Zenon
  <2>2. \A f, p : Walk(TRUE, tree, truth, f, p) = EvaluateNode(tree, truth, f, p)
    BY Zenon DEF Walk
  <2>3. PICK f : f = [p \in DOMAIN tree |-> Walk(TRUE, tree, truth, f, p)]
    BY <2>1
  <2>4. f = [p \in DOMAIN tree |-> EvaluateNode(tree, truth, f, p)]
    BY <2>2, <2>3
  <2> QED BY <2>4
<1> DEFINE a == CHOOSE f : f = [p \in DOMAIN tree |-> EvaluateNode(tree, truth, f, p)]
<1>2. a = [p \in DOMAIN tree |-> EvaluateNode(tree, truth, a, p)]
  BY <1>1, Zenon
<1>3. Evaluate(tree, truth) = a[<< >>]
  BY Zenon DEF Evaluate
<1> QED BY <1>2, <1>3

LEMMA RunUnfolds ==
  ASSUME NEW tree, Made(tree), NEW truth
  PROVE  \E f : /\ f = [p \in DOMAIN tree |-> RunNode(compileConditionTree(tree), truth, f, p)]
                /\ RunClosures(compileConditionTree(tree), truth) = f[<< >>]
<1> DEFINE closures == compileConditionTree(tree)
<1>1. DOMAIN closures = DOMAIN tree
  BY DEF compileConditionTree
<1>2. \E f : f = [p \in DOMAIN tree |-> RunNode(closures, truth, f, p)]
  <2>1. \E f : f = [p \in DOMAIN tree |-> Walk(FALSE, tree, truth, f, p)]
    <3>1. FALSE \in BOOLEAN
      OBVIOUS
    <3> QED BY <3>1, WalkIsDefined, Zenon
  <2>2. \A f, p : Walk(FALSE, tree, truth, f, p) = RunNode(closures, truth, f, p)
    BY Zenon DEF Walk
  <2>3. PICK f : f = [p \in DOMAIN tree |-> Walk(FALSE, tree, truth, f, p)]
    BY <2>1
  <2>4. f = [p \in DOMAIN tree |-> RunNode(closures, truth, f, p)]
    BY <2>2, <2>3
  <2> QED BY <2>4
<1> HIDE DEF closures
<1> DEFINE a == CHOOSE f : f = [p \in DOMAIN closures |-> RunNode(closures, truth, f, p)]
<1>3. a = [p \in DOMAIN closures |-> RunNode(closures, truth, a, p)]
  BY <1>1, <1>2, Zenon
<1>4. RunClosures(closures, truth) = a[<< >>]
  BY Zenon DEF RunClosures
<1> QED BY <1>1, <1>3, <1>4 DEF closures

\* What the compiler makes of a tree without a negation of nothing answers as the tree
\* does, and asks the same leaves in the same order; a negation of nothing at the root
\* holds in the tree and does not when compiled.
THEOREM CompilingKeepsTheMeaning ==
  ASSUME NEW tree, Made(tree), NEW truth
  PROVE  /\ ~HasEmptyNot(tree) => RunClosures(compileConditionTree(tree), truth) = Evaluate(tree, truth)
         /\ EmptyNot(tree, << >>) =>
              ~RunClosures(compileConditionTree(tree), truth).is /\ Evaluate(tree, truth).is
<1>1. PICK f : /\ f = [p \in DOMAIN tree |-> EvaluateNode(tree, truth, f, p)]
               /\ Evaluate(tree, truth) = f[<< >>]
  BY EvaluateUnfolds
<1>2. PICK g : /\ g = [p \in DOMAIN tree |-> RunNode(compileConditionTree(tree), truth, g, p)]
               /\ RunClosures(compileConditionTree(tree), truth) = g[<< >>]
  BY RunUnfolds
<1>3. ASSUME NEW p \in DOMAIN tree
      PROVE  /\ NodeIs(tree, truth, f, p, f[p], Answer(TRUE, << >>))
             /\ NodeIs(tree, truth, g, p, g[p], Answer(FALSE, << >>))
  <2>1. NodeIs(tree, truth, f, p, EvaluateNode(tree, truth, f, p), Answer(TRUE, << >>))
    BY EvaluateNodeIs
  <2>2. NodeIs(tree, truth, g, p, RunNode(compileConditionTree(tree), truth, g, p), Answer(FALSE, << >>))
    BY CompiledNodeIs
  <2>3. f[p] = EvaluateNode(tree, truth, f, p)
    BY <1>1, Zenon
  <2>4. g[p] = RunNode(compileConditionTree(tree), truth, g, p)
    BY <1>2, Zenon
  <2> QED BY <2>1, <2>2, <2>3, <2>4, Zenon
<1>4. << >> \in DOMAIN tree
  BY DEF Made
<1>5. ASSUME ~HasEmptyNot(tree)
      PROVE  f[<< >>] = g[<< >>]
  <2> DEFINE T == {Height(p) : p \in {q \in DOMAIN tree : f[q] # g[q]}}
  <2> SUFFICES ASSUME T # {} PROVE FALSE
    BY <1>4
  <2>1. T \subseteq Nat
    BY HeightFalls
  <2>2. PICK n \in T : \A m \in T : n <= m
    BY <2>1, Least
  <2>3. PICK p \in DOMAIN tree : f[p] # g[p] /\ n = Height(p)
    OBVIOUS
  <2>4. ASSUME NEW i \in 1 .. tree[p].kids PROVE f[Append(p, i)] = g[Append(p, i)]
    <3>1. Append(p, i) \in DOMAIN tree
      BY DEF Made
    <3>2. /\ Height(p) \in Nat /\ Height(Append(p, i)) \in Nat
          /\ Height(Append(p, i)) < Height(p)
      BY HeightFalls
    <3>3. ~(Height(p) <= Height(Append(p, i)))
      BY <3>2
    <3> QED BY <2>2, <2>3, <3>1, <3>3
  <2>5. ~EmptyNot(tree, p)
    BY <1>5, Zenon DEF HasEmptyNot, EmptyNot
  <2>6. /\ NodeIs(tree, truth, f, p, f[p], Answer(TRUE, << >>))
        /\ NodeIs(tree, truth, g, p, g[p], Answer(FALSE, << >>))
    BY <1>3
  <2>7. f[p] = g[p]
    BY <2>4, <2>5, <2>6, NodesAgree, Zenon
  <2> QED BY <2>3, <2>7
<1>6. ASSUME EmptyNot(tree, << >>)
      PROVE  f[<< >>] = Answer(TRUE, << >>) /\ g[<< >>] = Answer(FALSE, << >>)
  BY <1>3, <1>4, <1>6, Zenon DEF NodeIs, EmptyNot
<1>7. Answer(TRUE, << >>).is /\ ~Answer(FALSE, << >>).is
  BY DEF Answer
<1> QED BY <1>1, <1>2, <1>5, <1>6, <1>7, Zenon

-----------------------------------------------------------------------------

\* What the order of rules looks at.
Keyed(rule) == rule.id \in Range(Ids) /\ rule.priority \in Int /\ rule.weight \in Int

LEMMA RankOf ==
  ASSUME NEW id \in Range(Ids)
  PROVE  Rank(id) \in Int /\ Ids[Rank(id)] = id
<1>1. \E i \in DOMAIN Ids : Ids[i] = id
  BY DEF Range
<1>2. Rank(id) \in DOMAIN Ids /\ Ids[Rank(id)] = id
  BY <1>1 DEF Rank
<1>3. DOMAIN Ids \subseteq Int
  BY ConfigAssumption
<1> QED BY <1>2, <1>3

LEMMA BeforeIsOrder ==
  ASSUME NEW a, Keyed(a), NEW b, Keyed(b)
  PROVE  /\ Before(a, b) => ~Before(b, a)
         /\ a.id # b.id => Before(a, b) \/ Before(b, a)
         /\ \A c : Keyed(c) /\ Before(a, b) /\ Before(b, c) => Before(a, c)
<1> DEFINE ia == a.id  pa == a.priority  wa == a.weight  ra == Rank(ia)
           ib == b.id  pb == b.priority  wb == b.weight  rb == Rank(ib)
<1>1. pa \in Int /\ wa \in Int /\ pb \in Int /\ wb \in Int
  BY DEF Keyed
<1>2. ra \in Int /\ rb \in Int /\ (ia # ib => ra # rb)
  BY RankOf DEF Keyed
<1>3. /\ Before(a, b) <=> pa < pb \/ (pa = pb /\ wa < wb) \/ (pa = pb /\ wa = wb /\ ra < rb)
      /\ Before(b, a) <=> pb < pa \/ (pb = pa /\ wb < wa) \/ (pb = pa /\ wb = wa /\ rb < ra)
  BY DEF Before
<1>4. ASSUME NEW c, Keyed(c), Before(a, b), Before(b, c) PROVE Before(a, c)
  <2> DEFINE ic == c.id  pc == c.priority  wc == c.weight  rc == Rank(ic)
  <2>1. pc \in Int /\ wc \in Int /\ rc \in Int
    BY <1>4, RankOf DEF Keyed
  <2>2. /\ Before(a, c) <=> pa < pc \/ (pa = pc /\ wa < wc) \/ (pa = pc /\ wa = wc /\ ra < rc)
        /\ Before(b, c) <=> pb < pc \/ (pb = pc /\ wb < wc) \/ (pb = pc /\ wb = wc /\ rb < rc)
    BY DEF Before
  <2> HIDE DEF ra, rb, ia, ib, pa, pb, wa, wb, pc, wc, rc, ic
  <2> QED BY <1>1, <1>2, <1>3, <1>4, <2>1, <2>2
<1> HIDE DEF ra, rb, ia, ib, pa, pb, wa, wb
<1>5. Before(a, b) => ~Before(b, a)
  BY <1>1, <1>2, <1>3
<1>6. ia # ib => Before(a, b) \/ Before(b, a)
  BY <1>1, <1>2, <1>3
<1> QED BY <1>4, <1>5, <1>6 DEF ia, ib

\* Rules with ids of their own.
Distinct(rules) ==
  /\ IsFiniteSet(DOMAIN rules) /\ DOMAIN rules \subseteq Int
  /\ \A i \in DOMAIN rules : Keyed(rules[i])
  /\ \A i, j \in DOMAIN rules : rules[i].id = rules[j].id => i = j

Below(rules, i) == {j \in DOMAIN rules : Before(rules[j], rules[i])}

LEMMA PlaceIs ==
  ASSUME NEW rules, Distinct(rules), NEW i \in DOMAIN rules
  PROVE  /\ Place(rules, i) = 1 + Cardinality(Below(rules, i))
         /\ IsFiniteSet(Below(rules, i)) /\ i \notin Below(rules, i)
<1>1. ASSUME NEW j \in DOMAIN rules
      PROVE  (Before(rules[j], rules[i]) \/ (j < i /\ ~Before(rules[i], rules[j])))
               <=> Before(rules[j], rules[i])
  <2> SUFFICES ASSUME j < i, ~Before(rules[i], rules[j]) PROVE Before(rules[j], rules[i])
    OBVIOUS
  <2>1. j # i
    BY DEF Distinct
  <2>2. rules[i].id # rules[j].id
    BY <2>1 DEF Distinct
  <2>3. Keyed(rules[i]) /\ Keyed(rules[j])
    BY DEF Distinct
  <2> QED BY <2>2, <2>3, BeforeIsOrder
<1>2. {j \in DOMAIN rules : Before(rules[j], rules[i]) \/ (j < i /\ ~Before(rules[i], rules[j]))}
        = Below(rules, i)
  BY <1>1 DEF Below
<1>3. Place(rules, i) = 1 + Cardinality(Below(rules, i))
  BY <1>2 DEF Place
<1>4. IsFiniteSet(Below(rules, i))
  BY FS_Subset DEF Below, Distinct
<1>5. i \notin Below(rules, i)
  <2>1. Keyed(rules[i])
    BY DEF Distinct
  <2>2. ~Before(rules[i], rules[i])
    BY <2>1, BeforeIsOrder
  <2> QED BY <2>2 DEF Below
<1> QED BY <1>3, <1>4, <1>5

\* The places of the rules are 1 to their number, in the order of the rules.
LEMMA PlacesOfRules ==
  ASSUME NEW rules, Distinct(rules)
  PROVE  LET N == Cardinality(DOMAIN rules) IN
         /\ N \in Nat
         /\ \A i \in DOMAIN rules : Place(rules, i) \in 1 .. N
         /\ \A i, j \in DOMAIN rules : Before(rules[i], rules[j]) => Place(rules, i) < Place(rules, j)
         /\ \A i, j \in DOMAIN rules : Place(rules, i) = Place(rules, j) => i = j
         /\ \A n \in 1 .. N : \E i \in DOMAIN rules : Place(rules, i) = n
<1> DEFINE D == DOMAIN rules
           N == Cardinality(D)
           f == [i \in D |-> Place(rules, i)]
<1>1. /\ N \in Nat /\ IsFiniteSet(D)
      /\ IsFiniteSet(1 .. N) /\ Cardinality(1 .. N) = N
  <2>1. N \in Nat /\ IsFiniteSet(D)
    BY FS_CardinalityType DEF Distinct
  <2> QED BY <2>1, FS_Interval
<1>2. ASSUME NEW i \in D PROVE Place(rules, i) \in 1 .. N
  <2> DEFINE B == Below(rules, i)
  <2>1. /\ Place(rules, i) = 1 + Cardinality(B) /\ IsFiniteSet(B) /\ i \notin B
    BY PlaceIs
  <2>2. B \in SUBSET D
    BY DEF Below
  <2> HIDE DEF B
  <2>3. Cardinality(B) <= N /\ (Cardinality(D) = Cardinality(B) => D = B) /\ Cardinality(B) \in Nat
    BY <1>1, <2>1, <2>2, FS_Subset, FS_CardinalityType
  <2>4. Cardinality(B) # N
    BY <2>1, <2>3
  <2> QED BY <1>1, <2>1, <2>3, <2>4
<1>3. ASSUME NEW i \in D, NEW j \in D, Before(rules[i], rules[j])
      PROVE  Place(rules, i) < Place(rules, j)
  <2> DEFINE B == Below(rules, i)
             C == Below(rules, j)
  <2>1. /\ Place(rules, i) = 1 + Cardinality(B) /\ IsFiniteSet(B) /\ i \notin B
        /\ Place(rules, j) = 1 + Cardinality(C) /\ IsFiniteSet(C)
    BY PlaceIs
  <2>2. B \subseteq C
    <3> SUFFICES ASSUME NEW k \in D, Before(rules[k], rules[i]) PROVE Before(rules[k], rules[j])
      BY DEF Below
    <3>1. Keyed(rules[i]) /\ Keyed(rules[j]) /\ Keyed(rules[k])
      BY DEF Distinct
    <3> QED BY <1>3, <3>1, BeforeIsOrder
  <2>3. i \in C
    BY <1>3 DEF Below
  <2> HIDE DEF B, C
  <2>4. B \in SUBSET C /\ C # B
    BY <2>1, <2>2, <2>3
  <2>5. /\ Cardinality(B) <= Cardinality(C) /\ Cardinality(C) # Cardinality(B)
        /\ Cardinality(B) \in Nat /\ Cardinality(C) \in Nat
    BY <2>1, <2>4, FS_Subset, FS_CardinalityType
  <2> QED BY <2>1, <2>5
<1>4. ASSUME NEW i \in D, NEW j \in D, Place(rules, i) = Place(rules, j) PROVE i = j
  <2>1. Place(rules, i) \in Int /\ Place(rules, j) \in Int
    <3>1. Place(rules, i) \in 1 .. N /\ Place(rules, j) \in 1 .. N
      BY <1>2, Zenon
    <3> QED BY <1>1, <3>1
  <2>2. ~Before(rules[i], rules[j]) /\ ~Before(rules[j], rules[i])
    BY <1>3, <1>4, <2>1
  <2>3. Keyed(rules[i]) /\ Keyed(rules[j])
    BY DEF Distinct
  <2>4. rules[i].id = rules[j].id
    BY <2>2, <2>3, BeforeIsOrder
  <2> QED BY <2>4 DEF Distinct
<1>5. f \in Injection(D, 1 .. N)
  <2>1. f \in [D -> 1 .. N]
    BY <1>2
  <2>2. \A i, j \in D : f[i] = f[j] => i = j
    BY <1>4
  <2> HIDE DEF f
  <2>3. IsInjective(f)
    BY <2>1, <2>2 DEF IsInjective
  <2> QED BY <2>1, <2>3 DEF Injection
<1>6. f \in Surjection(D, 1 .. N)
  BY <1>1, <1>5, FS_Injection
<1>7. ASSUME NEW n \in 1 .. N PROVE \E i \in D : Place(rules, i) = n
  <2>1. PICK i \in D : f[i] = n
    BY <1>6 DEF Surjection
  <2> QED BY <2>1
<1> QED BY <1>1, <1>2, <1>3, <1>4, <1>7

\* The sorted list: each rule stands at its place, and the places are ordered.
LEMMA SortedIs ==
  ASSUME NEW rules, Distinct(rules)
  PROVE  /\ DOMAIN StableSort(rules) = 1 .. Cardinality(DOMAIN rules)
         /\ \A i \in DOMAIN rules : /\ Place(rules, i) \in DOMAIN StableSort(rules)
                                    /\ StableSort(rules)[Place(rules, i)] = rules[i]
         /\ \A k \in DOMAIN StableSort(rules) :
              \E i \in DOMAIN rules : Place(rules, i) = k /\ StableSort(rules)[k] = rules[i]
         /\ \A k, n \in DOMAIN StableSort(rules) :
              k < n => Before(StableSort(rules)[k], StableSort(rules)[n])
<1> DEFINE D == DOMAIN rules
           N == Cardinality(D)
           s == StableSort(rules)
           Ith(k) == CHOOSE i \in D : Place(rules, i) = k
<1>1. /\ N \in Nat
      /\ \A i \in D : Place(rules, i) \in 1 .. N
      /\ \A i, j \in D : Before(rules[i], rules[j]) => Place(rules, i) < Place(rules, j)
      /\ \A i, j \in D : Place(rules, i) = Place(rules, j) => i = j
      /\ \A n \in 1 .. N : \E i \in D : Place(rules, i) = n
  BY PlacesOfRules
<1>2. DOMAIN s = 1 .. N /\ \A k \in 1 .. N : s[k] = rules[Ith(k)]
  BY DEF StableSort
<1>3. \A k \in 1 .. N : Ith(k) \in D /\ Place(rules, Ith(k)) = k
  BY <1>1
<1> HIDE DEF s, Ith, N
<1>4. ASSUME NEW i \in D PROVE s[Place(rules, i)] = rules[i]
  <2>1. Place(rules, i) \in 1 .. N
    BY <1>1
  <2>2. Ith(Place(rules, i)) = i
    BY <1>1, <1>3, <2>1
  <2> QED BY <1>2, <2>1, <2>2
<1>5. ASSUME NEW k \in DOMAIN s PROVE \E i \in D : Place(rules, i) = k /\ s[k] = rules[i]
  BY <1>2, <1>3
<1>6. ASSUME NEW k \in DOMAIN s, NEW n \in DOMAIN s, k < n PROVE Before(s[k], s[n])
  <2>1. PICK i \in D : Place(rules, i) = k /\ s[k] = rules[i]
    BY <1>5
  <2>2. PICK j \in D : Place(rules, j) = n /\ s[n] = rules[j]
    BY <1>5
  <2>3. k \in Int /\ n \in Int
    BY <1>1, <1>2
  <2>4. ~Before(rules[j], rules[i]) /\ i # j
    BY <1>1, <1>6, <2>1, <2>2, <2>3
  <2>5. Keyed(rules[i]) /\ Keyed(rules[j]) /\ rules[i].id # rules[j].id
    BY <2>4 DEF Distinct
  <2> QED BY <2>1, <2>2, <2>4, <2>5, BeforeIsOrder
<1> QED BY <1>1, <1>2, <1>4, <1>5, <1>6 DEF s, N

\* Sorting does not depend on how the rules were listed.
LEMMA SortForgets ==
  ASSUME NEW rules, Distinct(rules), NEW listed, NEW p \in Bijection(DOMAIN listed, DOMAIN rules),
         \A i \in DOMAIN listed : listed[i] = rules[p[i]],
         DOMAIN listed \subseteq Int
  PROVE  Distinct(listed) /\ StableSort(listed) = StableSort(rules)
<1> DEFINE D == DOMAIN rules
           E == DOMAIN listed
           N == Cardinality(D)
<1>1. /\ p \in [E -> D] /\ \A i, j \in E : p[i] = p[j] => i = j
      /\ \A d \in D : \E e \in E : p[e] = d
  BY DEF Bijection, Injection, IsInjective, Surjection
<1>2. IsFiniteSet(E) /\ Cardinality(E) = N
  <2>1. IsFiniteSet(D) /\ p \in Injection(E, D) /\ p \in Surjection(E, D)
    BY DEF Distinct, Bijection
  <2> QED BY <2>1, FS_Injection
<1>3. Distinct(listed)
  BY <1>1, <1>2 DEF Distinct
<1>4. ASSUME NEW e \in E PROVE Place(listed, e) = Place(rules, p[e])
  <2> DEFINE B == Below(listed, e)
             C == Below(rules, p[e])
             q == [i \in B |-> p[i]]
  <2>1. /\ Place(listed, e) = 1 + Cardinality(B) /\ IsFiniteSet(B)
        /\ Place(rules, p[e]) = 1 + Cardinality(C)
    BY <1>1, <1>3, PlaceIs
  <2>2. B \subseteq E /\ C \subseteq D
    BY DEF Below
  <2>3. \A i \in E : i \in B <=> p[i] \in C
    BY <1>1 DEF Below
  <2> HIDE DEF B, C
  <2>4. q \in [B -> C]
    BY <2>2, <2>3
  <2>5. \A i, j \in B : q[i] = q[j] => i = j
    BY <1>1, <2>2
  <2>6. \A c \in C : \E i \in B : q[i] = c
    BY <1>1, <2>2, <2>3
  <2> HIDE DEF q
  <2>7. q \in Bijection(B, C)
    BY <2>4, <2>5, <2>6 DEF Bijection, Injection, IsInjective, Surjection
  <2>8. Cardinality(C) = Cardinality(B)
    BY <2>1, <2>7, FS_Bijection DEF ExistsBijection
  <2> QED BY <2>1, <2>8
<1> DEFINE s == StableSort(rules)
           t == StableSort(listed)
<1>5. DOMAIN s = 1 .. N /\ DOMAIN t = 1 .. N
  BY <1>2, <1>3, SortedIs
<1>6. ASSUME NEW k \in 1 .. N PROVE t[k] = s[k]
  <2>1. PICK d \in D : Place(rules, d) = k /\ s[k] = rules[d]
    BY <1>5, SortedIs
  <2>2. PICK e \in E : p[e] = d
    BY <1>1
  <2>3. t[Place(listed, e)] = listed[e]
    BY <1>3, SortedIs
  <2> QED BY <1>4, <2>1, <2>2, <2>3
<1>7. s = [k \in 1 .. N |-> s[k]] /\ t = [k \in 1 .. N |-> t[k]]
  BY <1>5 DEF StableSort
<1> HIDE DEF s, t
<1>8. s = t
  BY <1>6, <1>7
<1> QED BY <1>3, <1>8 DEF s, t

-----------------------------------------------------------------------------

\* The rules as the registry made them.
MadeRules(c) == [i \in DOMAIN c.rules |-> materializeRule(c.rules[i])]

IsParsed ==
  /\ chain = MadeRules(config)
  /\ \A i \in DOMAIN config.rules : RuleMaterializes(config.rules[i])

DefinitionInv ==
  /\ IsConfig(config)
  /\ stage \in {"valid", "parsed", "compiled"} => Validate(config)
  /\ stage \in {"parsed", "compiled"} => IsParsed
  /\ stage = "compiled" => compiled = compileChain(chain)
  /\ stage = "refused" =>
       \/ ~Validate(config)
       \/ \E i \in DOMAIN config.rules :
            \/ ~RuleMaterializes(config.rules[i])
            \/ Len(config.rules[i].actions) > MaxActionChainLength

LEMMA RuleFields ==
  ASSUME NEW rule
  PROVE  LET made == materializeRule(rule) IN
         /\ made.id = rule.id /\ made.priority = rule.priority /\ made.weight = 0
         /\ made.condition = materializeCondition(rule.condition) /\ made.actions = rule.actions
         /\ made.enabled = (rule.enabled \/ (rule.priority = 0 /\ rule.id = ""))
BY DEF materializeRule

LEMMA CompiledFields ==
  ASSUME NEW rule
  PROVE  LET made == compileRule(rule) IN
         /\ made.id = rule.id /\ made.priority = rule.priority /\ made.weight = rule.weight
         /\ made.evaluate = compileConditionTree(rule.condition)
BY DEF compileRule

\* The rules of a chain: what they are sorted by, and that their conditions are made.
Chained(rules) ==
  /\ IsFiniteSet(DOMAIN rules) /\ DOMAIN rules \subseteq Int
  /\ \A i \in DOMAIN rules : /\ Keyed(rules[i]) /\ Made(rules[i].condition)
                             /\ ~TooDeep(rules[i].condition)
  /\ \A i, j \in DOMAIN rules : rules[i].id = rules[j].id => i = j

LEMMA RulesAreFinite ==
  ASSUME NEW c, IsConfig(c)
  PROVE  IsFiniteSet(DOMAIN c.rules) /\ DOMAIN c.rules \subseteq Int
<1> DEFINE n == Len(c.rules)
           D == DOMAIN c.rules
<1>1. n \in Nat /\ D = 1 .. n
  BY DEF IsConfig, IsList
<1> HIDE DEF n, D
<1>2. IsFiniteSet(1 .. n) /\ 1 .. n \subseteq Int
  BY <1>1, FS_Interval
<1> QED BY <1>1, <1>2 DEF D

LEMMA MadeRulesAreChained ==
  ASSUME NEW c, IsConfig(c), Validate(c)
  PROVE  Chained(MadeRules(c)) /\ DOMAIN MadeRules(c) = DOMAIN c.rules
<1> DEFINE D == DOMAIN c.rules
           rules == MadeRules(c)
<1>1. IsFiniteSet(D) /\ D \subseteq Int
  BY RulesAreFinite
<1>2. DOMAIN rules = D
  BY DEF MadeRules
<1>3. ASSUME NEW i \in D
      PROVE  /\ Keyed(rules[i]) /\ Made(rules[i].condition) /\ ~TooDeep(rules[i].condition)
             /\ rules[i].id = c.rules[i].id
  <2> DEFINE rule == c.rules[i]
             id == rule.id
             tree == rule.condition
             made == materializeRule(rule)
  <2>1. rules[i] = made
    BY DEF MadeRules
  <2>2. IsRule(rule)
    BY DEF IsConfig
  <2>3. id # "" /\ validateRuleConfig(rule, InputNames(c))
    BY DEF Validate
  <2>4. id \in Range(Ids) \cup {""} /\ rule.priority \in Int /\ IsTree(tree)
    BY <2>2, Zenon DEF IsRule
  <2>5. validateConditionNode(tree)
    BY <2>3, Zenon DEF validateRuleConfig
  <2>6. /\ made.id = id /\ made.priority = rule.priority /\ made.weight = 0
        /\ made.condition = materializeCondition(tree)
    BY RuleFields
  <2>7. Made(materializeCondition(tree)) /\ ~TooDeep(materializeCondition(tree))
    BY <2>4, <2>5, MaterializedIsMade
  <2>8. id \in Range(Ids)
    BY <2>3, <2>4, Zenon
  <2> HIDE DEF rule, made, id, tree
  <2>9. Keyed(made)
    <3>1. rule.priority \in Int
      BY <2>4, Zenon
    <3>2. 0 \in Int
      OBVIOUS
    <3> QED BY <2>6, <2>8, <3>1, <3>2, Zenon DEF Keyed
  <2>10. Made(made.condition) /\ ~TooDeep(made.condition) /\ made.id = c.rules[i].id
    BY <2>6, <2>7 DEF rule, id
  <2> QED BY <2>1, <2>9, <2>10
<1>4. \A i, j \in D : c.rules[i].id = c.rules[j].id => i = j
  BY DEF Validate, NoRepeats, RuleID
<1>5. \A i, j \in D : rules[i].id = rules[j].id => i = j
  BY <1>3, <1>4
<1> HIDE DEF rules, D
<1>6. Chained(rules)
  BY <1>1, <1>2, <1>3, <1>5 DEF Chained
<1> QED BY <1>2, <1>6 DEF rules, D

-----------------------------------------------------------------------------

Enabled(rules) == {i \in DOMAIN rules : rules[i].enabled}
CompiledRules(rules) == [i \in Enabled(rules) |-> compileRule(rules[i])]

LEMMA CompiledAreDistinct ==
  ASSUME NEW rules, Chained(rules)
  PROVE  Distinct(CompiledRules(rules)) /\ DOMAIN CompiledRules(rules) = Enabled(rules)
<1> DEFINE made == CompiledRules(rules)
<1>1. /\ DOMAIN made = Enabled(rules) /\ Enabled(rules) \subseteq DOMAIN rules
      /\ \A i \in Enabled(rules) : made[i] = compileRule(rules[i])
  BY DEF CompiledRules, Enabled
<1>2. IsFiniteSet(Enabled(rules)) /\ Enabled(rules) \subseteq Int
  BY <1>1, FS_Subset DEF Chained
<1>3. ASSUME NEW i \in Enabled(rules) PROVE Keyed(made[i]) /\ made[i].id = rules[i].id
  <2>1. Keyed(rules[i])
    BY <1>1 DEF Chained
  <2>2. /\ made[i].id = rules[i].id /\ made[i].priority = rules[i].priority
        /\ made[i].weight = rules[i].weight
    BY <1>1, CompiledFields
  <2> QED BY <2>1, <2>2 DEF Keyed
<1> HIDE DEF made
<1>4. \A i, j \in DOMAIN made : made[i].id = made[j].id => i = j
  BY <1>1, <1>3 DEF Chained
<1>5. Distinct(made)
  BY <1>1, <1>2, <1>3, <1>4 DEF Distinct
<1> QED BY <1>1, <1>5 DEF made

LEMMA SortedOfChain ==
  ASSUME NEW rules
  PROVE  compileChain(rules).sorted = StableSort(CompiledRules(rules))
BY DEF compileChain, CompiledRules, Enabled

\* The compiled rules: each is one of the enabled, and each of those stands once.
LEMMA CompiledChainIs ==
  ASSUME NEW rules, Chained(rules)
  PROVE  LET sorted == compileChain(rules).sorted IN
         /\ \A k \in DOMAIN sorted : \E i \in Enabled(rules) :
              sorted[k] = compileRule(rules[i]) /\ sorted[k].id = rules[i].id
         /\ \A i \in Enabled(rules) : \E k \in DOMAIN sorted : sorted[k].id = rules[i].id
         /\ \A k, n \in DOMAIN sorted : k < n => Before(sorted[k], sorted[n])
         /\ \A k, n \in DOMAIN sorted : sorted[k].id = sorted[n].id => k = n
<1> DEFINE made == CompiledRules(rules)
           sorted == StableSort(made)
<1>1. Distinct(made) /\ DOMAIN made = Enabled(rules)
  BY CompiledAreDistinct
<1>2. compileChain(rules).sorted = sorted
  BY SortedOfChain
<1>3. \A i \in Enabled(rules) : made[i] = compileRule(rules[i]) /\ made[i].id = rules[i].id
  BY CompiledFields DEF CompiledRules
<1> HIDE DEF made
<1>4. /\ \A i \in DOMAIN made : Place(made, i) \in DOMAIN sorted /\ sorted[Place(made, i)] = made[i]
      /\ \A k \in DOMAIN sorted :
           \E i \in DOMAIN made : Place(made, i) = k /\ sorted[k] = made[i]
      /\ \A k, n \in DOMAIN sorted : k < n => Before(sorted[k], sorted[n])
  BY <1>1, SortedIs
<1> HIDE DEF sorted
<1>5. \A k \in DOMAIN sorted : \E i \in Enabled(rules) :
        sorted[k] = compileRule(rules[i]) /\ sorted[k].id = rules[i].id
  BY <1>1, <1>3, <1>4
<1>6. \A i \in Enabled(rules) : \E k \in DOMAIN sorted : sorted[k].id = rules[i].id
  BY <1>1, <1>3, <1>4
<1>7. ASSUME NEW k \in DOMAIN sorted, NEW n \in DOMAIN sorted, sorted[k].id = sorted[n].id PROVE k = n
  <2>1. PICK i \in DOMAIN made : Place(made, i) = k /\ sorted[k] = made[i]
    BY <1>4
  <2>2. PICK j \in DOMAIN made : Place(made, j) = n /\ sorted[n] = made[j]
    BY <1>4
  <2>3. i = j
    BY <1>1, <1>7, <2>1, <2>2 DEF Distinct
  <2> QED BY <2>1, <2>2, <2>3
<1> QED BY <1>2, <1>4, <1>5, <1>6, <1>7

LEMMA CompileForgets ==
  ASSUME NEW rules, Chained(rules), NEW listed \in Reorderings(rules)
  PROVE  compileChain(listed) = compileChain(rules)
<1>1. PICK p \in Bijection(DOMAIN rules, DOMAIN rules) : listed = [i \in DOMAIN rules |-> rules[p[i]]]
  BY DEF Reorderings
<1> DEFINE D == Enabled(rules)
           E == Enabled(listed)
           made == CompiledRules(rules)
           other == CompiledRules(listed)
           q == [i \in E |-> p[i]]
<1>2. /\ p \in [DOMAIN rules -> DOMAIN rules]
      /\ \A i, j \in DOMAIN rules : p[i] = p[j] => i = j
      /\ \A d \in DOMAIN rules : \E i \in DOMAIN rules : p[i] = d
  BY DEF Bijection, Injection, IsInjective, Surjection
<1>3. DOMAIN listed = DOMAIN rules /\ \A i \in DOMAIN rules : listed[i] = rules[p[i]]
  BY <1>1
<1>4. E \subseteq DOMAIN rules /\ \A i \in DOMAIN rules : i \in E <=> p[i] \in D
  BY <1>2, <1>3 DEF Enabled
<1>5. q \in Bijection(E, D)
  <2>1. D \subseteq DOMAIN rules
    BY DEF Enabled
  <2> HIDE DEF D, E
  <2>2. q \in [E -> D]
    BY <1>2, <1>4
  <2>3. \A i, j \in E : q[i] = q[j] => i = j
    BY <1>2, <1>4
  <2>4. \A d \in D : \E i \in E : q[i] = d
    BY <1>2, <1>4, <2>1
  <2> HIDE DEF q
  <2> QED BY <2>2, <2>3, <2>4 DEF Bijection, Injection, IsInjective, Surjection
<1>6. DOMAIN other = E /\ \A i \in E : other[i] = made[q[i]]
  <2>1. \A i \in E : q[i] = p[i] /\ p[i] \in D /\ listed[i] = rules[p[i]]
    BY <1>3, <1>4
  <2> QED BY <2>1 DEF CompiledRules
<1>7. Distinct(made) /\ DOMAIN made = D
  BY CompiledAreDistinct
<1>8. DOMAIN other \subseteq Int
  BY <1>4, <1>6 DEF Chained
<1> HIDE DEF made, other, q, D, E
<1>9. StableSort(other) = StableSort(made)
  BY <1>5, <1>6, <1>7, <1>8, SortForgets
<1> QED BY <1>9 DEF compileChain, made, other, CompiledRules, Enabled

-----------------------------------------------------------------------------

LEMMA ActionsClash ==
  ASSUME NEW a, NEW b
  PROVE  hasActionConflict(a, b) <=> hasActionConflict(b, a)
BY Zenon DEF hasActionConflict

LEMMA OverlapBothWays ==
  ASSUME NEW a, NEW b
  PROVE  hasConditionOverlap(a, b) <=> hasConditionOverlap(b, a)
<1>1. ASSUME NEW type, NEW x, NEW y
      PROVE  configOverlaps(type, x, y) <=> configOverlaps(type, y, x)
  <2> DEFINE Number(z) == IF z.read = Absent THEN "0" ELSE z.read
  <2>1. Named(type) => (configOverlaps(type, x, y) <=> x.read # Absent /\ x.read = y.read)
    BY Zenon DEF configOverlaps
  <2>2. Named(type) => (configOverlaps(type, y, x) <=> y.read # Absent /\ y.read = x.read)
    BY Zenon DEF configOverlaps
  <2>3. ~Named(type) /\ type \in {"value_range", "quality"} =>
          /\ configOverlaps(type, x, y) <=> Number(x) = Number(y)
          /\ configOverlaps(type, y, x) <=> Number(y) = Number(x)
    BY Zenon DEF configOverlaps
  <2>4. ~Named(type) /\ type \notin {"value_range", "quality"} =>
          configOverlaps(type, x, y) /\ configOverlaps(type, y, x)
    BY Zenon DEF configOverlaps
  <2> HIDE DEF Number
  <2> QED BY <2>1, <2>2, <2>3, <2>4, Zenon
<1> DEFINE ta == a.condition[<< >>].leaf
           tb == b.condition[<< >>].leaf
<1>2. hasConditionOverlap(a, b) <=> ta # "" /\ ta = tb /\ configOverlaps(ta, a.parameters, b.parameters)
  BY Zenon DEF hasConditionOverlap
<1>3. hasConditionOverlap(b, a) <=> tb # "" /\ tb = ta /\ configOverlaps(tb, b.parameters, a.parameters)
  BY Zenon DEF hasConditionOverlap
<1> HIDE DEF ta, tb
<1> QED BY <1>1, <1>2, <1>3, Zenon

Clash(about, a, b) ==
  IF about = "actions" THEN hasActionConflict(a, b) ELSE hasConditionOverlap(a, b)

Clashing(about, rules) ==
  UNION {{{rules[i].id, rules[j].id} : j \in {j \in DOMAIN rules :
                                              i < j /\ Clash(about, rules[i], rules[j])}} :
           i \in DOMAIN rules}

LEMMA ClashingIs ==
  ASSUME NEW rules, DOMAIN rules \subseteq Int, NEW about, NEW pair
  PROVE  pair \in Clashing(about, rules) <=>
           \E i, j \in DOMAIN rules : /\ i # j /\ Clash(about, rules[i], rules[j])
                                      /\ pair = {rules[i].id, rules[j].id}
<1>1. pair \in Clashing(about, rules) <=>
        \E i, j \in DOMAIN rules : /\ i < j /\ Clash(about, rules[i], rules[j])
                                   /\ pair = {rules[i].id, rules[j].id}
  BY DEF Clashing
<1>2. \A a, b : Clash(about, a, b) <=> Clash(about, b, a)
  BY ActionsClash, OverlapBothWays DEF Clash
<1>3. \A i, j \in DOMAIN rules : i # j <=> (i < j \/ j < i)
  OBVIOUS
<1>4. \A x, y : {x, y} = {y, x}
  OBVIOUS
<1> QED BY <1>1, <1>2, <1>3, <1>4

LEMMA ConflictsForget ==
  ASSUME NEW rules, DOMAIN rules \subseteq Int, NEW listed \in Reorderings(rules)
  PROVE  DetectConflicts(listed) = DetectConflicts(rules)
<1>1. PICK p \in Bijection(DOMAIN rules, DOMAIN rules) : listed = [i \in DOMAIN rules |-> rules[p[i]]]
  BY DEF Reorderings
<1>2. /\ p \in [DOMAIN rules -> DOMAIN rules]
      /\ \A i, j \in DOMAIN rules : p[i] = p[j] => i = j
      /\ \A d \in DOMAIN rules : \E i \in DOMAIN rules : p[i] = d
  BY DEF Bijection, Injection, IsInjective, Surjection
<1>3. DOMAIN listed = DOMAIN rules /\ \A i \in DOMAIN rules : listed[i] = rules[p[i]]
  BY <1>1
<1>4. ASSUME NEW about PROVE Clashing(about, listed) = Clashing(about, rules)
  <2> SUFFICES ASSUME NEW pair
               PROVE  pair \in Clashing(about, listed) <=> pair \in Clashing(about, rules)
    OBVIOUS
  <2> DEFINE D == DOMAIN rules
  <2>1. pair \in Clashing(about, listed) <=>
          \E i, j \in D : /\ i # j /\ Clash(about, listed[i], listed[j])
                          /\ pair = {listed[i].id, listed[j].id}
    BY <1>3, ClashingIs
  <2>2. pair \in Clashing(about, rules) <=>
          \E i, j \in D : /\ i # j /\ Clash(about, rules[i], rules[j])
                          /\ pair = {rules[i].id, rules[j].id}
    BY ClashingIs
  <2> HIDE DEF D
  <2>3. ASSUME pair \in Clashing(about, listed) PROVE pair \in Clashing(about, rules)
    <3>1. PICK i \in D, j \in D : /\ i # j /\ Clash(about, listed[i], listed[j])
                                  /\ pair = {listed[i].id, listed[j].id}
      BY <2>1, <2>3
    <3>2. p[i] \in D /\ p[j] \in D /\ p[i] # p[j] /\ listed[i] = rules[p[i]] /\ listed[j] = rules[p[j]]
      BY <1>2, <1>3, <3>1 DEF D
    <3> QED BY <2>2, <3>1, <3>2
  <2>4. ASSUME pair \in Clashing(about, rules) PROVE pair \in Clashing(about, listed)
    <3>1. PICK d \in D, e \in D : /\ d # e /\ Clash(about, rules[d], rules[e])
                                  /\ pair = {rules[d].id, rules[e].id}
      BY <2>2, <2>4
    <3>2. PICK i \in D : p[i] = d
      BY <1>2 DEF D
    <3>3. PICK j \in D : p[j] = e
      BY <1>2 DEF D
    <3>4. i # j /\ listed[i] = rules[d] /\ listed[j] = rules[e]
      BY <1>3, <3>1, <3>2, <3>3 DEF D
    <3> QED BY <2>1, <3>1, <3>4
  <2> QED BY <2>3, <2>4
<1>5. "actions" # "conditions"
  OBVIOUS
<1>6. \A a, b : /\ Clash("actions", a, b) <=> hasActionConflict(a, b)
                /\ Clash("conditions", a, b) <=> hasConditionOverlap(a, b)
  BY <1>5, Zenon DEF Clash
<1>7. ASSUME NEW r
      PROVE  DetectConflicts(r) = [action |-> Clashing("actions", r), condition |-> Clashing("conditions", r)]
  <2> DEFINE Acting(i) == {j \in DOMAIN r : i < j /\ hasActionConflict(r[i], r[j])}
             Overlapping(i) == {j \in DOMAIN r : i < j /\ hasConditionOverlap(r[i], r[j])}
  <2>1. \A i : /\ {j \in DOMAIN r : i < j /\ Clash("actions", r[i], r[j])} = Acting(i)
               /\ {j \in DOMAIN r : i < j /\ Clash("conditions", r[i], r[j])} = Overlapping(i)
    BY <1>6
  <2> HIDE DEF Acting, Overlapping
  <2>2. Clashing("actions", r) = UNION {{{r[i].id, r[j].id} : j \in Acting(i)} : i \in DOMAIN r}
    BY <2>1 DEF Clashing
  <2>3. Clashing("conditions", r) = UNION {{{r[i].id, r[j].id} : j \in Overlapping(i)} : i \in DOMAIN r}
    BY <2>1 DEF Clashing
  <2> QED BY <2>2, <2>3, Zenon DEF DetectConflicts, Acting, Overlapping
<1> QED BY <1>4, <1>7

-----------------------------------------------------------------------------

LEMMA LeafIsMade ==
  ASSUME NEW tree, IsTree(tree), Materializes(tree)
  PROVE  LeavesOf(tree) \cap PointConditions = {}
<1> SUFFICES ASSUME NEW p \in Reached(tree), tree[p].leaf \in PointConditions PROVE FALSE
  BY DEF LeavesOf
<1>1. tree[p].leaf # ""
  BY DEF PointConditions
<1>2. CreateCondition(tree[p].leaf)
  BY <1>1 DEF Materializes
<1> QED BY <1>2 DEF CreateCondition, Conditions, PointConditions

LEMMA ActionIsMade ==
  ASSUME NEW rule, RuleMaterializes(rule)
  PROVE  Range(rule.actions) \cap PointActions \subseteq {"transform"}
<1> SUFFICES ASSUME NEW i \in DOMAIN rule.actions, rule.actions[i] \in PointActions
             PROVE  rule.actions[i] = "transform"
  BY DEF Range
<1>1. CreateAction(rule.actions[i])
  BY DEF RuleMaterializes
<1> QED BY <1>1 DEF CreateAction, Actions, PointActions

LEMMA ParsedNamesPoints ==
  ASSUME NEW c, IsConfig(c), \A i \in DOMAIN c.rules : RuleMaterializes(c.rules[i]),
         NEW i \in DOMAIN c.rules
  PROVE  ValidateRule(c.rules[i], InputNames(c)) <=>
           ("transform" \in Range(c.rules[i].actions) => PointsDeclared(c.rules[i], InputNames(c)))
<1>1. IsTree(c.rules[i].condition)
  BY DEF IsConfig, IsRule
<1>2. Materializes(c.rules[i].condition)
  BY DEF RuleMaterializes
<1>3. LeavesOf(c.rules[i].condition) \cap PointConditions = {}
  BY <1>1, <1>2, LeafIsMade
<1>4. Range(c.rules[i].actions) \cap PointActions \subseteq {"transform"}
  BY ActionIsMade
<1>5. "transform" \in PointActions
  BY DEF PointActions
<1>6. "transform" \in Range(c.rules[i].actions) <=> Range(c.rules[i].actions) \cap PointActions # {}
  BY <1>4, <1>5
<1> QED BY <1>3, <1>6 DEF ValidateRule

LEMMA DefinitionInvInit == DefinitionInit => DefinitionInv
<1> SUFFICES ASSUME DefinitionInit PROVE DefinitionInv
  OBVIOUS
<1>1. config \in ChainConfigs /\ stage = "read"
  BY DEF DefinitionInit
<1>2. IsConfig(config)
  BY <1>1, ConfigAssumption
<1> QED BY <1>1, <1>2 DEF DefinitionInv

LEMMA RefusedByCompiler ==
  ASSUME IsConfig(config), Validate(config), IsParsed,
         NEW i \in DOMAIN chain, ~Compiles(chain[i])
  PROVE  i \in DOMAIN config.rules /\ Len(config.rules[i].actions) > MaxActionChainLength
<1>1. Chained(chain) /\ DOMAIN chain = DOMAIN config.rules
  BY MadeRulesAreChained DEF IsParsed
<1> DEFINE rule == config.rules[i]
<1>2. chain[i] = materializeRule(rule)
  BY <1>1 DEF IsParsed, MadeRules
<1>3. chain[i].actions = rule.actions
  BY <1>2, RuleFields
<1>4. ~TooDeep(chain[i].condition)
  BY <1>1 DEF Chained
<1>5. ~(Len(rule.actions) <= MaxActionChainLength)
  BY <1>3, <1>4, Zenon DEF Compiles
<1>6. Len(rule.actions) \in Nat
  <2>1. IsRule(rule)
    BY <1>1 DEF IsConfig
  <2> QED BY <2>1, Zenon DEF IsRule, IsList
<1>7. Len(rule.actions) > MaxActionChainLength
  <2> DEFINE n == Len(rule.actions)
  <2> HIDE DEF n
  <2>1. n > MaxActionChainLength
    BY <1>5, <1>6, DefinitionAssumption DEF n
  <2> QED BY <2>1 DEF n
<1> QED BY <1>1, <1>7

LEMMA DefinitionInvStep == DefinitionInv /\ [DefinitionNext]_definitionVars => DefinitionInv'
<1> SUFFICES ASSUME DefinitionInv, [DefinitionNext]_definitionVars PROVE DefinitionInv'
  OBVIOUS
<1>1. CASE Check
  <2>1. stage' = "valid" \/ stage' = "refused"
    BY <1>1 DEF Check
  <2>2. config' = config /\ chain' = chain /\ compiled' = compiled
    BY <1>1 DEF Check
  <2>3. stage' = "valid" => Validate(config)
    BY <1>1 DEF Check
  <2>4. stage' = "refused" => ~Validate(config)
    BY <1>1 DEF Check
  <2>5. Validate(config)' <=> Validate(config)
    BY <2>2 DEF Validate, InputNames
  <2> HIDE <1>1
  <2> QED BY <2>1, <2>2, <2>3, <2>4, <2>5 DEF DefinitionInv
<1>2. CASE Parse
  <2>1. Validate(config) /\ IsConfig(config)
    BY <1>2 DEF DefinitionInv, Parse
  <2>2. config' = config
    BY <1>2 DEF Parse
  <2>3. CASE \A i \in DOMAIN config.rules : RuleMaterializes(config.rules[i])
    <3>1. stage' = "parsed" /\ chain' = MadeRules(config)
      BY <1>2, <2>3 DEF Parse, MadeRules
    <3>2. IsParsed'
      BY <2>2, <2>3, <3>1 DEF IsParsed
    <3> QED BY <2>1, <2>2, <3>1, <3>2 DEF DefinitionInv
  <2>4. CASE ~ \A i \in DOMAIN config.rules : RuleMaterializes(config.rules[i])
    <3>1. stage' = "refused"
      BY <1>2, <2>4 DEF Parse
    <3> QED BY <2>1, <2>2, <2>4, <3>1 DEF DefinitionInv
  <2> QED BY <2>3, <2>4
<1>3. CASE Compile
  <2>1. Validate(config) /\ IsConfig(config) /\ IsParsed
    BY <1>3 DEF DefinitionInv, Compile
  <2>2. config' = config /\ chain' = chain
    BY <1>3 DEF Compile
  <2>3. CASE \A i \in DOMAIN chain : chain[i].enabled => Compiles(chain[i])
    <3>1. stage' = "compiled" /\ compiled' = compileChain(chain)
      BY <1>3, <2>3 DEF Compile
    <3>2. IsParsed' /\ compileChain(chain)' = compileChain(chain)
      BY <2>1, <2>2 DEF IsParsed
    <3> QED BY <2>1, <2>2, <3>1, <3>2 DEF DefinitionInv
  <2>4. CASE ~ \A i \in DOMAIN chain : chain[i].enabled => Compiles(chain[i])
    <3>1. stage' = "refused"
      BY <1>3, <2>4 DEF Compile
    <3>2. PICK i \in DOMAIN chain : ~Compiles(chain[i])
      BY <2>4
    <3>3. i \in DOMAIN config.rules /\ Len(config.rules[i].actions) > MaxActionChainLength
      BY <2>1, <3>2, RefusedByCompiler
    <3> QED BY <2>1, <2>2, <3>1, <3>3 DEF DefinitionInv
  <2> QED BY <2>3, <2>4
<1>4. CASE UNCHANGED definitionVars
  <2>1. config' = config /\ stage' = stage /\ chain' = chain /\ compiled' = compiled
    BY <1>4 DEF definitionVars
  <2> QED BY <2>1 DEF DefinitionInv, IsParsed
<1> QED BY <1>1, <1>2, <1>3, <1>4 DEF DefinitionNext

-----------------------------------------------------------------------------

LEMMA ToValidLoads ==
  ASSUME DefinitionInv
  PROVE  ValidLoads
<1>1. stage = "refused" /\ Validate(config) =>
        \E i \in DOMAIN config.rules : \/ ~RuleMaterializes(config.rules[i])
                                       \/ Len(config.rules[i].actions) > MaxActionChainLength
  BY DEF DefinitionInv
<1>2. stage = "compiled" =>
        \A i \in DOMAIN config.rules :
          ValidateRule(config.rules[i], InputNames(config)) <=>
            ("transform" \in Range(config.rules[i].actions)
             => PointsDeclared(config.rules[i], InputNames(config)))
  BY ParsedNamesPoints DEF DefinitionInv, IsParsed
<1> QED BY <1>1, <1>2 DEF ValidLoads

LEMMA CompiledFacts ==
  ASSUME DefinitionInv, stage = "compiled"
  PROVE  /\ Chained(chain) /\ DOMAIN chain = DOMAIN config.rules
         /\ compiled = compileChain(chain)
<1>1. IsConfig(config) /\ Validate(config) /\ IsParsed /\ compiled = compileChain(chain)
  BY DEF DefinitionInv
<1> QED BY <1>1, MadeRulesAreChained DEF IsParsed

LEMMA ToCompiledAgrees ==
  ASSUME DefinitionInv
  PROVE  CompiledAgrees
<1> SUFFICES ASSUME stage = "compiled",
                    NEW i \in DOMAIN chain, NEW k \in DOMAIN compiled.sorted,
                    NEW truth, compiled.sorted[k].id = chain[i].id
             PROVE  LET tree == chain[i].condition
                        run == RunClosures(compiled.sorted[k].evaluate, truth) IN
                    /\ ~HasEmptyNot(tree) => run = Evaluate(tree, truth)
                    /\ EmptyNot(tree, << >>) => ~run.is /\ Evaluate(tree, truth).is
  BY Zenon DEF CompiledAgrees, EmptyNot
<1>1. Chained(chain) /\ compiled = compileChain(chain)
  BY CompiledFacts
<1>2. PICK j \in Enabled(chain) :
        compiled.sorted[k] = compileRule(chain[j]) /\ compiled.sorted[k].id = chain[j].id
  BY <1>1, CompiledChainIs
<1>3. j = i
  BY <1>1, <1>2 DEF Chained, Enabled
<1>4. compiled.sorted[k].evaluate = compileConditionTree(chain[i].condition)
  BY <1>2, <1>3, CompiledFields
<1>5. Made(chain[i].condition)
  BY <1>1 DEF Chained
<1> QED BY <1>4, <1>5, CompilingKeepsTheMeaning

LEMMA ToOrderIsFixed ==
  ASSUME DefinitionInv
  PROVE  OrderIsFixed
<1> SUFFICES ASSUME stage = "compiled" PROVE OrderIsFixed
  BY DEF OrderIsFixed
<1> DEFINE sorted == compiled.sorted
           For(x) == {k \in DOMAIN sorted : sorted[k].id = x}
<1>1. Chained(chain) /\ compiled = compileChain(chain)
  BY CompiledFacts
<1>2. /\ \A k \in DOMAIN sorted : \E i \in Enabled(chain) : sorted[k].id = chain[i].id
      /\ \A i \in Enabled(chain) : \E k \in DOMAIN sorted : sorted[k].id = chain[i].id
      /\ \A i, j \in DOMAIN sorted : i < j => Before(sorted[i], sorted[j])
      /\ \A k, n \in DOMAIN sorted : sorted[k].id = sorted[n].id => k = n
  BY <1>1, CompiledChainIs
<1> HIDE DEF sorted
<1>3. ASSUME NEW i \in DOMAIN chain
      PROVE  Cardinality(For(chain[i].id)) = IF chain[i].enabled THEN 1 ELSE 0
  <2>1. CASE chain[i].enabled
    <3>1. PICK k \in DOMAIN sorted : sorted[k].id = chain[i].id
      BY <1>2, <2>1 DEF Enabled
    <3>2. For(chain[i].id) = {k}
      BY <1>2, <3>1
    <3>3. Cardinality({k}) = 1
      BY FS_Singleton
    <3> QED BY <2>1, <3>2, <3>3
  <2>2. CASE ~chain[i].enabled
    <3>1. ASSUME NEW k \in DOMAIN sorted, sorted[k].id = chain[i].id PROVE FALSE
      <4>1. PICK j \in Enabled(chain) : sorted[k].id = chain[j].id
        BY <1>2
      <4>2. j = i
        BY <1>1, <3>1, <4>1 DEF Chained, Enabled
      <4> QED BY <2>2, <4>1, <4>2 DEF Enabled
    <3>2. For(chain[i].id) = {}
      BY <3>1
    <3>3. Cardinality({}) = 0
      BY FS_EmptySet
    <3> QED BY <2>2, <3>2, <3>3
  <2> QED BY <2>1, <2>2
<1>4. \A s \in Reorderings(chain) : compileChain(s) = compiled
  BY <1>1, CompileForgets
<1>5. \A s \in Reorderings(config.rules) : DetectConflicts(s) = DetectConflicts(config.rules)
  <2>1. DOMAIN config.rules \subseteq Int
    BY RulesAreFinite DEF DefinitionInv
  <2> QED BY <2>1, ConflictsForget
<1> QED BY <1>2, <1>3, <1>4, <1>5 DEF OrderIsFixed, sorted

LEMMA IndexIs ==
  ASSUME NEW c, IsConfig(c), Validate(c)
  PROVE  /\ RegisterChain(c).pipelineType = c.pipelineType
         /\ DOMAIN RegisterChain(c).index = InputNames(c)
         /\ \A i \in DOMAIN c.inputs : /\ c.inputs[i].name \in InputNames(c)
                                       /\ RegisterChain(c).index[c.inputs[i].name] = i
         /\ \A name \in InputNames(c) : LET i == RegisterChain(c).index[name] IN
              i \in DOMAIN c.inputs /\ c.inputs[i].name = name
<1> DEFINE LastOf(name) == CHOOSE i \in DOMAIN c.inputs :
                           /\ c.inputs[i].name = name
                           /\ \A j \in DOMAIN c.inputs : c.inputs[j].name = name => j <= i
           index == RegisterChain(c).index
<1>1. /\ RegisterChain(c).pipelineType = c.pipelineType
      /\ DOMAIN index = InputNames(c) /\ \A name \in InputNames(c) : index[name] = LastOf(name)
  BY DEF RegisterChain
<1>2. \A i, j \in DOMAIN c.inputs : c.inputs[i].name = c.inputs[j].name => i = j
  BY DEF Validate, validateInputs, NoRepeats, InputName
<1>3. DOMAIN c.inputs \subseteq Int
  <2> DEFINE n == Len(c.inputs)
             D == DOMAIN c.inputs
  <2>1. n \in Nat /\ D = 1 .. n
    BY DEF IsConfig, IsList
  <2> HIDE DEF n, D
  <2>2. D \subseteq Int
    BY <2>1
  <2> QED BY <2>2 DEF D
<1>4. ASSUME NEW i \in DOMAIN c.inputs PROVE LastOf(c.inputs[i].name) = i /\ c.inputs[i].name \in InputNames(c)
  <2>1. \A j \in DOMAIN c.inputs : c.inputs[j].name = c.inputs[i].name => j <= i
    BY <1>2, <1>3
  <2>2. \E j \in DOMAIN c.inputs :
          /\ c.inputs[j].name = c.inputs[i].name
          /\ \A k \in DOMAIN c.inputs : c.inputs[k].name = c.inputs[i].name => k <= j
    BY <2>1
  <2>3. LastOf(c.inputs[i].name) \in DOMAIN c.inputs
        /\ c.inputs[LastOf(c.inputs[i].name)].name = c.inputs[i].name
    BY <2>2
  <2> QED BY <1>2, <2>3 DEF InputNames
<1> HIDE DEF LastOf, index
<1>5. \A i \in DOMAIN c.inputs : c.inputs[i].name \in InputNames(c) /\ index[c.inputs[i].name] = i
  BY <1>1, <1>4
<1>6. \A name \in InputNames(c) : index[name] \in DOMAIN c.inputs /\ c.inputs[index[name]].name = name
  BY <1>5 DEF InputNames
<1> QED BY <1>1, <1>5, <1>6 DEF index

LEMMA ToInputsAreRouted ==
  ASSUME DefinitionInv
  PROVE  InputsAreRouted
<1> SUFFICES ASSUME IsConfig(config), Validate(config) PROVE InputsAreRouted
  BY DEF InputsAreRouted, DefinitionInv
<1> DEFINE entry == RegisterChain(config)
           type == config.pipelineType
           inputs == config.inputs
           Point(n, t) == [name |-> n, type |-> t]
<1>1. /\ entry.pipelineType = type /\ DOMAIN entry.index = InputNames(config)
      /\ \A i \in DOMAIN inputs : inputs[i].name \in InputNames(config) /\ entry.index[inputs[i].name] = i
      /\ \A name \in InputNames(config) :
           entry.index[name] \in DOMAIN inputs /\ inputs[entry.index[name]].name = name
  BY IndexIs
<1>2. \A i \in DOMAIN inputs : type # "" => inputs[i].type = type
  BY DEF Validate, validateInputs
<1>3. \A n, t : /\ Routed(entry, Point(n, t)) <=> (type = "" \/ type = t) /\ n \in InputNames(config)
                /\ ValidateRoute(entry, Point(n, t)) = "ok" =>
                     (type = "" \/ type = t) /\ n \in InputNames(config)
  <2> SUFFICES ASSUME NEW n, NEW t
               PROVE  /\ Routed(entry, Point(n, t)) <=> (type = "" \/ type = t) /\ n \in InputNames(config)
                      /\ ValidateRoute(entry, Point(n, t)) = "ok" => Routed(entry, Point(n, t))
    OBVIOUS
  <2>1. Point(n, t).name = n /\ Point(n, t).type = t
    OBVIOUS
  <2> HIDE DEF Point, entry, type
  <2>2. Routed(entry, Point(n, t)) <=> (type = "" \/ type = t) /\ n \in InputNames(config)
    BY <1>1, <2>1, Zenon DEF Routed, TypeMatched, Declared
  <2>3. "ok" # "mismatch" /\ "ok" # "undeclared"
    OBVIOUS
  <2>4. ValidateRoute(entry, Point(n, t)) = "ok" => Routed(entry, Point(n, t))
    BY <2>3, Zenon DEF ValidateRoute, Routed
  <2> QED BY <2>2, <2>4
<1> HIDE DEF entry, type, inputs, Point
<1>4. ASSUME NEW i \in DOMAIN inputs
      PROVE  Routed(entry, Point(inputs[i].name, inputs[i].type)) /\ entry.index[inputs[i].name] = i
  BY <1>1, <1>2, <1>3, <1>4, Zenon
<1>5. ASSUME NEW i \in DOMAIN config.rules, NEW b \in Range(config.rules[i].bindings)
      PROVE  \E k \in DOMAIN inputs : inputs[k].name = b /\ Routed(entry, Point(b, inputs[k].type))
  <2>1. b \in InputNames(config)
    BY DEF Validate, validateRuleConfig
  <2>2. entry.index[b] \in DOMAIN inputs /\ inputs[entry.index[b]].name = b
    BY <1>1, <2>1
  <2> QED BY <1>4, <2>2
<1>6. ASSUME NEW n \in InputNames(config), NEW t, ValidateRoute(entry, Point(n, t)) = "ok"
      PROVE  inputs[entry.index[n]].name = n /\ (type # "" => inputs[entry.index[n]].type = t)
  <2>1. type = "" \/ type = t
    BY <1>3, <1>6, Zenon
  <2> QED BY <1>1, <1>2, <2>1, Zenon
<1> QED BY <1>4, <1>5, <1>6, Zenon DEF InputsAreRouted, entry, type, inputs, Point

THEOREM LoadedCorrect == DefinitionSpec => []LoadedAsConfigured
<1>1. DefinitionInv => LoadedAsConfigured
  BY ToValidLoads, ToCompiledAgrees, ToOrderIsFixed, ToInputsAreRouted DEF LoadedAsConfigured
<1> QED BY <1>1, DefinitionInvInit, DefinitionInvStep, PTL DEF DefinitionSpec

-----------------------------------------------------------------------------
(***************************************************************************)
(* The debug manager, for any evaluations, seconds and limits: the mode is *)
(* what was asked for, the limiter lets the first events of a second       *)
(* through, and no event is lost or sent twice.                            *)
(*                                                                         *)
(* Mode: as long as nothing crossed, an event that is about to look at the *)
(* deadline read the mode that SetMode set last, and looks at the deadline *)
(* that belongs to it (Uncrossed).                                         *)
(*                                                                         *)
(* Limiter: an event of a second in which no two met is alone in the       *)
(* limiter, so what the fields say is what the events before it left       *)
(* (AloneInLimiter, Between, FindsCount).                                  *)
(***************************************************************************)

Places == {"done", "mode", "check", "disable", "clock", "compare", "store", "reset",
           "count", "send", "sent"}
Deadlines == Seconds \cup {NoDeadline}

Setters == [at : {"done", "deadline"}, mode : Modes, until : Deadlines, n : Nat]
Events == [at : Places, now : Seconds]
Tallies == [n : Nat, crossed : BOOLEAN, offered : [Seconds -> Nat], passed : [Seconds -> Nat],
            met : [Seconds -> BOOLEAN], through : Nat, taken : Nat]

DebugType ==
  /\ second \in Seconds /\ mode \in Modes /\ deadline \in Deadlines
  /\ curSec \in Deadlines /\ curCnt \in Nat
  /\ buffered \in Nat /\ sent \in Nat /\ dropped \in Nat
  /\ setter \in Setters
  /\ event \in [Evaluations -> Events]
  /\ tally \in Tallies

\* An event that is about to look at the deadline of an uncrossed mode.
Uncrossed ==
  \A e \in At({"check", "disable"}) :
    ~tally.crossed =>
      /\ setter.at = "done" /\ setter.mode = "all"
      /\ event[e].at = "disable" => setter.until # NoDeadline /\ second > setter.until

ModeInv ==
  /\ setter.mode # "all" => setter.until = NoDeadline
  /\ setter.at = "done" => deadline = setter.until
  /\ mode \in {setter.mode, "off"}
  /\ Uncrossed
  /\ ModeIsAsked

LEMMA DebugTypeInit == DebugInit => DebugType
<1> SUFFICES ASSUME DebugInit PROVE DebugType
  OBVIOUS
<1> USE DebugAssumption DEF DebugInit, DebugInitIn
<1>1. 0 \in Seconds /\ mode \in Modes /\ deadline \in Deadlines
  BY DEF Seconds, Deadlines
<1>2. setter \in Setters
  BY <1>1 DEF Setters
<1>3. event \in [Evaluations -> Events]
  BY <1>1 DEF Events, Places
<1>4. [s \in Seconds |-> FALSE] \in [Seconds -> BOOLEAN]
  BY Zenon
<1>5. tally \in Tallies
  BY <1>4 DEF Tallies
<1>6. QED
  BY <1>1, <1>2, <1>3, <1>5 DEF DebugType, Deadlines, NoDeadline

\* A step of e leaves the other events alone.
LEMMA ProceedOnly ==
  ASSUME DebugType, NEW e \in Evaluations, NEW place \in Places, Proceed(e, place)
  PROVE  /\ event' \in [Evaluations -> Events]
         /\ event'[e].at = place /\ event'[e].now = event[e].now
         /\ \A o \in Evaluations \ {e} : event'[o] = event[o]
<1>1. event[e] \in Events
  BY DEF DebugType
<1>2. [event[e] EXCEPT !.at = place] \in Events
  BY <1>1 DEF Events
<1>3. QED
  BY <1>1, <1>2 DEF DebugType, Proceed, Events

LEMMA CaptureType ==
  ASSUME DebugType, NEW e \in Evaluations, CaptureStep(e)
  PROVE  DebugType'
<1> USE DEF DebugType
<1>p. {"done", "check", "disable", "clock", "store", "reset", "count", "send", "sent"} \subseteq Places
  BY DEF Places
<1>e. event[e] \in Events /\ event[e].now \in Seconds
  BY DEF Events
<1>t. tally \in Tallies
  OBVIOUS
<1>1. CASE BeginCapture(e)
  <2>1. event' = [event EXCEPT ![e].at = IF mode = "off" THEN "done" ELSE "mode"]
    BY <1>1 DEF BeginCapture, Proceed
  <2>2. event' \in [Evaluations -> Events]
    BY <2>1, <1>e DEF Events, Places
  <2>3. tally' \in Tallies
    BY <1>1 DEF BeginCapture, Tallies
  <2>4. QED
    BY <1>1, <2>2, <2>3 DEF BeginCapture, sinkVars
<1>2. CASE ReadMode(e)
  <2> PICK r \in Relations :
         Proceed(e, CASE mode = "all" -> "check"
                      [] Filtered(mode, r) -> "done"
                      [] OTHER -> "clock")
    BY <1>2 DEF ReadMode
  <2> DEFINE to == CASE mode = "all" -> "check"
                     [] Filtered(mode, r) -> "done"
                     [] OTHER -> "clock"
  <2>1. to \in Places /\ event' = [event EXCEPT ![e].at = to]
    BY <1>2, <1>p DEF Proceed
  <2> HIDE DEF to
  <2>2. event' \in [Evaluations -> Events]
    BY <2>1, <1>e DEF Events
  <2>3. tally' \in Tallies
    BY <1>2 DEF ReadMode, Tallies
  <2>4. QED
    BY <1>2, <2>2, <2>3 DEF ReadMode, sinkVars
<1>3. CASE CheckDeadline(e)
  <2>1. event' \in [Evaluations -> Events]
    BY <1>3, <1>p, ProceedOnly DEF CheckDeadline
  <2>2. QED
    BY <1>3, <2>1 DEF CheckDeadline, sinkVars
<1>4. CASE Disable(e)
  <2>1. event' \in [Evaluations -> Events]
    BY <1>4, <1>p, ProceedOnly DEF Disable
  <2>2. QED
    BY <1>4, <2>1 DEF Disable, sinkVars, Modes
<1>5. CASE ReadClock(e)
  <2>1. event' = [event EXCEPT ![e].at = "compare", ![e].now = second]
    BY <1>5 DEF ReadClock
  <2>2. event' \in [Evaluations -> Events]
    BY <2>1, <1>e DEF Events, Places
  <2> DEFINE m == [s \in Seconds |->
                     \/ tally.met[s]
                     \/ Meets(e) /\ s \in {second} \cup {event[o].now : o \in At(Limiting)}]
             f == [tally.offered EXCEPT ![second] = @ + 1]
  <2>3. tally' = [tally EXCEPT !.offered[second] = @ + 1, !.met = m]
    BY <1>5 DEF ReadClock
  <2>4. m \in [Seconds -> BOOLEAN]
    BY Zenon
  <2> HIDE DEF m
  <2>5. tally' = [tally EXCEPT !.offered = f, !.met = m]
    BY <2>3
  <2>6. f \in [Seconds -> Nat]
    BY <1>t DEF Tallies
  <2> HIDE DEF f
  <2>7. tally' \in Tallies
    BY <1>t, <2>4, <2>5, <2>6 DEF Tallies
  <2>8. QED
    BY <1>5, <2>2, <2>7 DEF ReadClock, sinkVars
<1>6. CASE LoadSecond(e)
  <2>1. event' \in [Evaluations -> Events]
    BY <1>6, <1>p, ProceedOnly DEF LoadSecond
  <2>2. QED
    BY <1>6, <2>1 DEF LoadSecond, sinkVars
<1>7. CASE StoreSecond(e)
  <2>1. event' \in [Evaluations -> Events]
    BY <1>7, <1>p, ProceedOnly DEF StoreSecond
  <2>2. QED
    BY <1>7, <1>e, <2>1 DEF StoreSecond, Deadlines
<1>8. CASE ResetCount(e)
  <2>1. event' \in [Evaluations -> Events]
    BY <1>8, <1>p, ProceedOnly DEF ResetCount
  <2>2. QED
    BY <1>8, <2>1 DEF ResetCount
<1>9. CASE CountEvent(e)
  <2>1. event' \in [Evaluations -> Events]
    BY <1>9, <1>p, ProceedOnly DEF CountEvent
  <2> DEFINE f == [tally.passed EXCEPT ![event[e].now] = @ + 1]
  <2>2. tally' \in Tallies
    <3>1. CASE tally' = tally
      BY <3>1
    <3>2. CASE tally' # tally
      <4>1. tally' = [tally EXCEPT !.passed = f, !.through = @ + 1]
        BY <1>9, <3>2 DEF CountEvent
      <4>2. f \in [Seconds -> Nat]
        BY <1>e, <1>t DEF Tallies
      <4>3. tally.through + 1 \in Nat
        BY <1>t DEF Tallies
      <4>4. QED
        BY <1>t, <4>1, <4>2, <4>3 DEF Tallies
    <3>3. QED
      BY <3>1, <3>2
  <2>3. QED
    BY <1>9, <2>1, <2>2 DEF CountEvent
<1>10. CASE Send(e)
  <2>1. event' \in [Evaluations -> Events]
    BY <1>10, <1>p, ProceedOnly DEF Send
  <2>2. QED
    BY <1>10, <2>1 DEF Send
<1>11. CASE CountSent(e)
  <2>1. event' \in [Evaluations -> Events]
    BY <1>11, <1>p, ProceedOnly DEF CountSent
  <2>2. QED
    BY <1>11, <2>1 DEF CountSent
<1>12. QED
  BY <1>1, <1>2, <1>3, <1>4, <1>5, <1>6, <1>7, <1>8, <1>9, <1>10, <1>11 DEF CaptureStep

LEMMA DebugTypeStep == DebugType /\ [DebugNext]_debugVars => DebugType'
<1> SUFFICES ASSUME DebugType, [DebugNext]_debugVars PROVE DebugType'
  OBVIOUS
<1> USE DebugAssumption DEF sinkVars
<1>t. tally \in Tallies /\ setter \in Setters
  BY DEF DebugType
<1>1. CASE SetMode
  <2>1. PICK m \in Modes, until \in Seconds \cup {NoDeadline} :
          /\ mode' = m
          /\ setter' = [at |-> "deadline", mode |-> m, until |-> until, n |-> setter.n + 1]
    BY <1>1 DEF SetMode
  <2>2. setter' \in Setters /\ mode' \in Modes
    BY <1>t, <2>1 DEF Setters, Deadlines
  <2>3. tally' = [tally EXCEPT !.crossed = At({"check", "disable"}) # {}]
    BY <1>1 DEF SetMode
  <2>4. tally' \in Tallies
    BY <1>t, <2>3 DEF Tallies
  <2>5. QED
    BY <1>1, <2>2, <2>4 DEF DebugType, SetMode
<1>2. CASE SetDeadline
  <2>1. setter' \in Setters /\ deadline' \in Deadlines
    BY <1>2, <1>t DEF SetDeadline, Setters
  <2>2. tally' = [tally EXCEPT !.crossed = tally.crossed \/ At({"check", "disable"}) # {}]
    BY <1>2 DEF SetDeadline
  <2>3. tally' \in Tallies
    BY <1>t, <2>2 DEF Tallies
  <2>4. QED
    BY <1>2, <2>1, <2>3 DEF DebugType, SetDeadline
<1>3. CASE TakeEvent
  <2>1. tally' \in Tallies
    BY <1>3, <1>t DEF TakeEvent, Tallies
  <2>2. QED
    BY <1>3, <2>1 DEF DebugType, TakeEvent
<1>4. CASE NextSecond
  BY <1>4 DEF DebugType, NextSecond, Seconds
<1>5. CASE UNCHANGED debugVars
  BY <1>5 DEF DebugType, debugVars
<1>6. QED
  BY <1>1, <1>2, <1>3, <1>4, <1>5, CaptureType DEF DebugNext

-----------------------------------------------------------------------------
(* The mode                                                                *)

\* Steps of an event that neither read the mode nor act on the deadline.
LEMMA ModeUntouched ==
  ASSUME DebugType, ModeInv, NEW e \in Evaluations,
         \A o \in Evaluations \ {e} : event'[o] = event[o],
         event'[e].at \notin {"check", "disable"},
         tally'.crossed = tally.crossed,
         UNCHANGED <<second, mode, deadline, setter>>
  PROVE  ModeInv'
<1> USE DEF ModeInv
<1>1. Uncrossed'
  BY DEF Uncrossed, At
<1>2. ModeIsAsked'
  BY DEF ModeIsAsked
<1>3. QED
  BY <1>1, <1>2

LEMMA CaptureMode ==
  ASSUME DebugType, ModeInv, NEW e \in Evaluations, CaptureStep(e)
  PROVE  ModeInv'
<1>p. {"done", "check", "disable", "clock", "store", "reset", "count", "send", "sent"} \subseteq Places
  BY DEF Places
<1>e. event[e] \in Events /\ event \in [Evaluations -> Events] /\ tally \in Tallies
  BY DEF DebugType
<1>1. CASE BeginCapture(e)
  <2>1. event' = [event EXCEPT ![e].at = IF mode = "off" THEN "done" ELSE "mode"]
    BY <1>1 DEF BeginCapture, Proceed
  <2>2. event'[e].at \notin {"check", "disable"} /\ \A o \in Evaluations \ {e} : event'[o] = event[o]
    BY <2>1, <1>e DEF Events
  <2>3. tally'.crossed = tally.crossed
    BY <1>1, <1>e DEF BeginCapture, Tallies
  <2>4. QED
    BY <1>1, <2>2, <2>3, ModeUntouched DEF BeginCapture
<1>2. CASE ReadMode(e)
  <2> PICK r \in Relations :
         Proceed(e, CASE mode = "all" -> "check"
                      [] Filtered(mode, r) -> "done"
                      [] OTHER -> "clock")
    BY <1>2 DEF ReadMode
  <2> DEFINE to == CASE mode = "all" -> "check"
                     [] Filtered(mode, r) -> "done"
                     [] OTHER -> "clock"
  <2>1. /\ to \in {"check", "done", "clock"} /\ (to = "check" <=> mode = "all")
        /\ event' = [event EXCEPT ![e].at = to]
    BY <1>2 DEF Proceed, Filtered
  <2> HIDE DEF to
  <2>2. event'[e].at = to /\ \A o \in Evaluations \ {e} : event'[o] = event[o]
    BY <2>1, <1>e DEF Events
  <2>3. tally'.crossed <=> tally.crossed \/ (mode = "all" /\ setter.at = "deadline")
    <3>1. tally' = [tally EXCEPT !.crossed = tally.crossed \/ (mode = "all" /\ setter.at = "deadline")]
      BY <1>2 DEF ReadMode
    <3>2. QED
      BY <3>1, <1>e DEF Tallies
  <2>4. UNCHANGED <<second, mode, deadline, setter>> /\ setter.at \in {"done", "deadline"}
    BY <1>2 DEF ReadMode, DebugType, Setters
  <2>5. Uncrossed'
    <3>1. SUFFICES ASSUME NEW o \in Evaluations, event'[o].at \in {"check", "disable"}, ~tally'.crossed
                   PROVE  /\ setter.at = "done" /\ setter.mode = "all"
                          /\ event'[o].at = "disable" => setter.until # NoDeadline /\ second > setter.until
      BY <2>4 DEF Uncrossed, At
    <3>2. CASE o = e
      BY <2>1, <2>2, <2>3, <2>4, <3>1, <3>2 DEF ModeInv
    <3>3. CASE o # e
      BY <2>2, <2>3, <3>1, <3>3 DEF ModeInv, Uncrossed, At
    <3>4. QED
      BY <3>2, <3>3
  <2>6. ModeIsAsked'
    BY <2>3, <2>4 DEF ModeInv, ModeIsAsked
  <2>7. QED
    BY <2>4, <2>5, <2>6 DEF ModeInv
<1>3. CASE CheckDeadline(e)
  <2> DEFINE to == IF deadline # NoDeadline /\ second > deadline THEN "disable" ELSE "clock"
  <2>1. /\ event'[e].at = to /\ to \in {"disable", "clock"} /\ event[e].at = "check"
        /\ \A o \in Evaluations \ {e} : event'[o] = event[o]
        /\ UNCHANGED <<second, mode, deadline, setter, tally>>
    <3>1. Proceed(e, to) /\ to \in Places
      BY <1>3, <1>p DEF CheckDeadline
    <3> HIDE DEF to
    <3>2. event'[e].at = to /\ \A o \in Evaluations \ {e} : event'[o] = event[o]
      BY <1>e, <3>1, ProceedOnly DEF Events
    <3>3. QED
      BY <1>3, <3>2 DEF CheckDeadline, to
  <2>2. Uncrossed'
    BY <2>1 DEF Uncrossed, At, ModeInv
  <2>3. ModeIsAsked'
    BY <2>1 DEF ModeInv, ModeIsAsked
  <2>4. QED
    BY <2>1, <2>2, <2>3 DEF ModeInv
<1>4. CASE Disable(e)
  <2>1. /\ event'[e].at = "done" /\ event[e].at = "disable" /\ mode' = "off"
        /\ \A o \in Evaluations \ {e} : event'[o] = event[o]
        /\ UNCHANGED <<second, deadline, setter, tally>>
    <3>1. event'[e].at = "done" /\ \A o \in Evaluations \ {e} : event'[o] = event[o]
      BY <1>4, <1>e, <1>p, ProceedOnly DEF Events, Disable
    <3>2. QED
      BY <1>4, <3>1 DEF Disable
  <2>2. Uncrossed'
    BY <2>1 DEF Uncrossed, At, ModeInv
  <2>3. ModeIsAsked'
    BY <2>1 DEF ModeInv, ModeIsAsked, Uncrossed, At
  <2>4. QED
    BY <2>1, <2>2, <2>3 DEF ModeInv
<1>5. CASE ReadClock(e)
  <2>1. event'[e].at = "compare" /\ \A o \in Evaluations \ {e} : event'[o] = event[o]
    BY <1>5, <1>e DEF ReadClock, Events
  <2>2. tally'.crossed = tally.crossed
    BY <1>5, <1>e DEF ReadClock, Tallies
  <2>3. QED
    BY <1>5, <2>1, <2>2, ModeUntouched DEF ReadClock
<1>6. ASSUME NEW to \in {"store", "reset", "count", "done", "send", "sent"}, Proceed(e, to),
             tally'.crossed = tally.crossed, UNCHANGED <<second, mode, deadline, setter>>
      PROVE  ModeInv'
  <2>1. event'[e].at = to /\ \A o \in Evaluations \ {e} : event'[o] = event[o]
    BY <1>6, <1>e, <1>p, ProceedOnly DEF Events
  <2>2. QED
    BY <1>6, <2>1, ModeUntouched
<1>7. CASE LoadSecond(e) \/ StoreSecond(e) \/ ResetCount(e) \/ Send(e) \/ CountSent(e)
  BY <1>6, <1>7 DEF LoadSecond, StoreSecond, ResetCount, Send, CountSent
<1>8. CASE CountEvent(e)
  <2>1. tally'.crossed = tally.crossed
    BY <1>8, <1>e DEF CountEvent, Tallies
  <2>2. QED
    BY <1>6, <1>8, <2>1 DEF CountEvent
<1>9. QED
  BY <1>1, <1>2, <1>3, <1>4, <1>5, <1>7, <1>8 DEF CaptureStep

LEMMA ModeStep == DebugType /\ ModeInv /\ [DebugNext]_debugVars => ModeInv'
<1> SUFFICES ASSUME DebugType, ModeInv, [DebugNext]_debugVars PROVE ModeInv'
  OBVIOUS
<1>t. tally \in Tallies /\ setter \in Setters /\ second \in Seconds
  BY DEF DebugType
<1> DEFINE met == At({"check", "disable"}) # {}
<1>1. CASE SetMode
  <2>1. PICK m \in Modes, until \in Seconds \cup {NoDeadline} :
          /\ m # "all" => until = NoDeadline
          /\ mode' = m
          /\ setter' = [at |-> "deadline", mode |-> m, until |-> until, n |-> setter.n + 1]
    BY <1>1 DEF SetMode
  <2>2. tally' = [tally EXCEPT !.crossed = met] /\ event' = event
    BY <1>1 DEF SetMode
  <2>3. tally'.crossed = met
    BY <1>t, <2>2 DEF Tallies
  <2>4. Uncrossed'
    BY <2>2, <2>3 DEF Uncrossed, At
  <2>5. QED
    BY <2>1, <2>4 DEF ModeInv, ModeIsAsked
<1>2. CASE SetDeadline
  <2>1. /\ deadline' = setter.until /\ setter'.until = setter.until /\ setter'.mode = setter.mode
        /\ UNCHANGED <<second, mode, event>>
    BY <1>2, <1>t DEF SetDeadline, Setters
  <2>2. tally' = [tally EXCEPT !.crossed = tally.crossed \/ met]
    BY <1>2 DEF SetDeadline
  <2>3. tally'.crossed <=> tally.crossed \/ met
    BY <1>t, <2>2 DEF Tallies
  <2>4. Uncrossed'
    BY <2>1, <2>3 DEF Uncrossed, At
  <2>5. ModeIsAsked'
    BY <2>1, <2>3 DEF ModeInv, ModeIsAsked
  <2>6. QED
    BY <2>1, <2>4, <2>5 DEF ModeInv
<1>3. CASE TakeEvent
  <2>1. tally'.crossed = tally.crossed /\ UNCHANGED <<second, mode, deadline, setter, event>>
    BY <1>3, <1>t DEF TakeEvent, Tallies
  <2>2. QED
    BY <2>1 DEF ModeInv, Uncrossed, At, ModeIsAsked
<1>4. CASE NextSecond
  <2>1. second' = second + 1 /\ UNCHANGED <<mode, deadline, setter, event, tally>>
    BY <1>4 DEF NextSecond
  <2>2. setter.until # NoDeadline => setter.until \in Nat
    BY <1>t DEF Setters, Deadlines, Seconds
  <2>3. second \in Nat
    BY <1>t DEF Seconds
  <2>4. QED
    BY <2>1, <2>2, <2>3 DEF ModeInv, Uncrossed, At, ModeIsAsked
<1>5. CASE UNCHANGED debugVars
  BY <1>5 DEF ModeInv, Uncrossed, At, ModeIsAsked, debugVars
<1>6. QED
  BY <1>1, <1>2, <1>3, <1>4, <1>5, CaptureMode DEF DebugNext

LEMMA ModeInit == DebugInit => ModeInv
  BY DEF DebugInit, DebugInitIn, ModeInv, Uncrossed, At, ModeIsAsked

LEMMA TypeInvariance == DebugSpec => []DebugType
  BY DebugTypeInit, DebugTypeStep, PTL DEF DebugSpec

\* The mode is the one SetMode was asked for last, unless its deadline passed or an
\* event was between reading the mode and acting on its deadline while SetMode ran.
THEOREM ModeCorrect == DebugSpec => []ModeIsAsked
<1>1. ModeInv => ModeIsAsked
  BY DEF ModeInv
<1>2. QED
  BY TypeInvariance, ModeInit, ModeStep, <1>1, PTL DEF DebugSpec

-----------------------------------------------------------------------------
(* The limiter                                                             *)

Cap(n) == IF n <= EventLimit THEN n ELSE EventLimit

\* Seconds come one after the other, and the limiter knows only those of events.
SecondLeft ==
  /\ \A s \in Seconds : s > second => tally.offered[s] = 0
  /\ curSec # NoDeadline => tally.offered[curSec] > 0
  /\ \A e \in At(Limiting) : tally.offered[event[e].now] > 0

\* Two events in the limiter have met, in the second of either.
AloneInLimiter == \A e, o \in At(Limiting) : e # o => tally.met[event[e].now]

\* No event of second s is in the limiter: the count is what its events left.
Between(s) ==
  (\A e \in At(Limiting) : event[e].now # s) =>
    /\ tally.passed[s] = Cap(tally.offered[s])
    /\ s = second /\ tally.offered[s] > 0 =>
         curSec = s /\ curCnt = tally.offered[s] /\ At(Limiting) = {}

\* An event in the limiter finds what the n events of its second before it left.
FindsCount(e) ==
  LET s == event[e].now
      n == tally.offered[s] - 1 IN
  /\ tally.passed[s] = Cap(n)
  /\ event[e].at \in {"store", "reset"} => n = 0
  /\ event[e].at \in {"reset", "count"} => curSec = s
  /\ event[e].at = "count" => curCnt = n
  /\ event[e].at = "compare" => IF curSec = s THEN curCnt = n ELSE n = 0

LimitInv ==
  /\ SecondLeft /\ AloneInLimiter
  /\ \A s \in Seconds : ~tally.met[s] => Between(s)
  /\ \A e \in At(Limiting) : ~tally.met[event[e].now] => FindsCount(e)

LEMMA MinOfTwo ==
  ASSUME NEW n \in Nat
  PROVE  Min({n, EventLimit}) = Cap(n)
<1> USE DebugAssumption
<1> DEFINE m == Cap(n)
<1>1. m \in {n, EventLimit} /\ m <= n /\ m <= EventLimit /\ m \in Nat
  BY DEF Cap
<1> HIDE DEF m
<1>2. \A x \in {n, EventLimit} : (\A y \in {n, EventLimit} : x <= y) => x = m
  BY <1>1
<1>3. QED
  BY <1>1, <1>2 DEF Min, m

LEMMA LimitInit == DebugInit => LimitInv
<1> SUFFICES ASSUME DebugInit PROVE LimitInv
  OBVIOUS
<1> USE DebugAssumption DEF DebugInit, DebugInitIn
<1>1. At(Limiting) = {}
  BY DEF At, Limiting
<1>2. \A s \in Seconds : tally.offered[s] = 0 /\ tally.passed[s] = 0
  OBVIOUS
<1>3. Cap(0) = 0
  BY DEF Cap
<1>4. QED
  BY <1>1, <1>2, <1>3 DEF LimitInv, SecondLeft, AloneInLimiter, Between, NoDeadline

\* Steps that the limiter does not see.
LEMMA LimiterUntouched ==
  ASSUME DebugType, LimitInv, At(Limiting)' = At(Limiting),
         \A o \in At(Limiting) : event'[o] = event[o],
         tally'.offered = tally.offered, tally'.passed = tally.passed, tally'.met = tally.met,
         UNCHANGED <<second, curSec, curCnt>>
  PROVE  LimitInv'
<1> DEFINE L == At(Limiting)
<1> USE DEF LimitInv
<1>1. SecondLeft' /\ AloneInLimiter'
  BY DEF SecondLeft, AloneInLimiter
<1>2. \A s \in Seconds : Between(s)' <=> Between(s)
  BY DEF Between
<1>3. \A o \in At(Limiting) : FindsCount(o)' <=> FindsCount(o)
  BY DEF FindsCount
<1>4. QED
  BY <1>1, <1>2, <1>3

\* A step of an event within the limiter, or out of it.
LEMMA LimiterStep ==
  ASSUME DebugType, LimitInv, NEW e \in At(Limiting),
         \A o \in Evaluations \ {e} : event'[o] = event[o],
         event'[e].now = event[e].now,
         tally'.offered = tally.offered, tally'.met = tally.met,
         \A t \in Seconds \ {event[e].now} : tally'.passed[t] = tally.passed[t],
         curSec' \in {curSec, event[e].now}, second' = second,
         ~tally.met[event[e].now] =>
           IF event'[e].at \in Limiting
           THEN FindsCount(e)'
           ELSE /\ tally'.passed[event[e].now] = Cap(tally.offered[event[e].now])
                /\ curSec' = event[e].now /\ curCnt' = tally.offered[event[e].now]
  PROVE  LimitInv'
<1> USE DEF LimitInv
<1> DEFINE c == event[e].now
<1>1. e \in Evaluations /\ event[e].at \in Limiting /\ c \in Seconds
  BY DEF At, DebugType, Events
<1>2. At(Limiting)' = IF event'[e].at \in Limiting THEN At(Limiting) ELSE At(Limiting) \ {e}
  BY <1>1 DEF At
<1>3. \A o \in At(Limiting) : event'[o].now = event[o].now
  BY DEF At
<1>4. SecondLeft'
  <2>1. c # NoDeadline /\ tally.offered[c] > 0
    BY <1>1, DebugAssumption DEF SecondLeft, Seconds, NoDeadline
  <2>2. QED
    BY <1>2, <1>3, <2>1 DEF SecondLeft
<1>5. AloneInLimiter'
  BY <1>2, <1>3 DEF AloneInLimiter
<1>6. ~tally.met[c] => At(Limiting) = {e}
  BY DEF AloneInLimiter
<1>7. ASSUME NEW s \in Seconds, ~tally'.met[s] PROVE Between(s)'
  <2>1. CASE s = c
    <3>1. CASE event'[e].at \in Limiting
      <4>1. e \in At(Limiting)' /\ event'[e].now = s
        BY <1>2, <2>1, <3>1
      <4>2. QED
        BY <4>1 DEF Between
    <3>2. CASE event'[e].at \notin Limiting
      <4>1. At(Limiting)' = {}
        BY <1>2, <1>6, <1>7, <2>1, <3>2
      <4>2. QED
        BY <1>7, <2>1, <3>2, <4>1 DEF Between
    <3>3. QED
      BY <3>1, <3>2
  <2>2. CASE s # c
    <3>1. Between(s)
      BY <1>7
    <3>2. (\A o \in At(Limiting)' : event'[o].now # s) => \A o \in At(Limiting) : event[o].now # s
      BY <1>2, <1>3, <2>2
    <3>3. QED
      BY <2>2, <3>1, <3>2 DEF Between, Cap
  <2>3. QED
    BY <2>1, <2>2
<1>8. ASSUME NEW o \in At(Limiting)', ~tally'.met[event'[o].now] PROVE FindsCount(o)'
  <2>1. CASE o = e
    BY <1>2, <1>8, <2>1
  <2>2. CASE o # e
    <3>1. o \in At(Limiting) /\ tally.met[event[o].now]
      BY <1>2, <2>2 DEF AloneInLimiter
    <3>2. QED
      BY <1>3, <1>8, <3>1
  <2>3. QED
    BY <2>1, <2>2
<1>9. QED
  BY <1>4, <1>5, <1>7, <1>8

\* An event enters the limiter: alone, or it has met the ones that are there.
LEMMA ReadClockLimit ==
  ASSUME DebugType, LimitInv, NEW e \in Evaluations, ReadClock(e)
  PROVE  LimitInv'
<1> USE DEF LimitInv
<1>t. tally \in Tallies /\ event[e] \in Events /\ second \in Seconds /\ event \in [Evaluations -> Events]
  BY DEF DebugType
<1>1. /\ event[e].at = "clock" /\ UNCHANGED <<second, curSec, curCnt>>
      /\ event'[e].at = "compare" /\ event'[e].now = second
      /\ \A o \in Evaluations \ {e} : event'[o] = event[o]
  BY <1>t DEF ReadClock, sinkVars, Events
<1> DEFINE m == [s \in Seconds |->
                     \/ tally.met[s]
                     \/ Meets(e) /\ s \in {second} \cup {event[o].now : o \in At(Limiting)}]
           f == [tally.offered EXCEPT ![second] = @ + 1]
<1>2. tally' = [tally EXCEPT !.offered = f, !.met = m]
  BY DEF ReadClock
<1> HIDE DEF m, f
<1>3. tally'.offered = f /\ tally'.met = m /\ tally'.passed = tally.passed
  BY <1>2, <1>t DEF Tallies
<1>4. /\ f[second] = tally.offered[second] + 1 /\ tally.offered[second] \in Nat
      /\ \A s \in Seconds \ {second} : f[s] = tally.offered[s]
  BY <1>t DEF f, Tallies
<1>5. /\ \A s \in Seconds : tally.met[s] => m[s]
      /\ Meets(e) => m[second] /\ \A o \in At(Limiting) : m[event[o].now]
  <2>1. \A o \in At(Limiting) : event[o].now \in Seconds
    BY <1>t DEF At, Events
  <2>2. \A s \in Seconds :
          m[s] <=> \/ tally.met[s]
                   \/ Meets(e) /\ s \in {second} \cup {event[o].now : o \in At(Limiting)}
    BY Zenon DEF m
  <2>3. QED
    BY <1>t, <2>1, <2>2
<1>6. e \notin At(Limiting) /\ At(Limiting)' = At(Limiting) \cup {e}
  BY <1>1 DEF At, Limiting
<1>7. ~Meets(e) => At(Limiting) = {}
  BY <1>6 DEF Meets
<1>8. \A o \in At(Limiting) : o \in Evaluations \ {e} /\ event'[o] = event[o] /\ event[o].now \in Seconds
  BY <1>1, <1>6, <1>t DEF At, Events
<1>9. SecondLeft'
  <2>1. curSec # NoDeadline => curSec \in Seconds
    BY DEF DebugType, Deadlines
  <2>2. \A s \in Seconds : tally.offered[s] > 0 => f[s] > 0
    BY <1>4
  <2>3. \A s \in Seconds : s > second => f[s] = 0
    BY <1>4, <1>t DEF SecondLeft, Seconds
  <2>4. f[second] > 0
    BY <1>4
  <2>5. QED
    BY <1>1, <1>3, <1>6, <1>8, <2>1, <2>2, <2>3, <2>4 DEF SecondLeft
<1>10. AloneInLimiter'
  BY <1>1, <1>3, <1>5, <1>6, <1>7, <1>8 DEF AloneInLimiter
<1>11. ASSUME NEW s \in Seconds, ~tally'.met[s] PROVE Between(s)'
  <2>1. CASE s = second
    BY <1>1, <1>6, <2>1 DEF Between
  <2>2. CASE s # second
    <3>1. Between(s)
      BY <1>3, <1>5, <1>11
    <3>2. (\A o \in At(Limiting)' : event'[o].now # s) => \A o \in At(Limiting) : event[o].now # s
      BY <1>6, <1>8
    <3>3. QED
      BY <1>1, <1>3, <1>4, <2>2, <3>1, <3>2 DEF Between, Cap
  <2>3. QED
    BY <2>1, <2>2
<1>12. ASSUME NEW o \in At(Limiting)', ~tally'.met[event'[o].now] PROVE FindsCount(o)'
  <2>1. CASE o = e
    <3>1. At(Limiting) = {} /\ ~tally.met[second]
      BY <1>1, <1>3, <1>5, <1>7, <1>12, <1>t, <2>1
    <3>2. /\ tally.passed[second] = Cap(tally.offered[second])
          /\ tally.offered[second] > 0 => curSec = second /\ curCnt = tally.offered[second]
      BY <1>t, <3>1 DEF Between
    <3>3. curSec = second => tally.offered[second] > 0
      BY <1>t, DebugAssumption DEF SecondLeft, Seconds, NoDeadline
    <3>4. f[second] - 1 = tally.offered[second]
      BY <1>4
    <3>5. QED
      BY <1>1, <1>3, <1>4, <2>1, <3>2, <3>3, <3>4 DEF FindsCount, Cap
  <2>2. CASE o # e
    <3>1. o \in At(Limiting) /\ Meets(e)
      BY <1>6, <1>7, <1>12, <2>2
    <3>2. QED
      BY <1>3, <1>5, <1>8, <1>12, <3>1
  <2>3. QED
    BY <2>1, <2>2
<1>13. QED
  BY <1>9, <1>10, <1>11, <1>12

LEMMA CaptureLimit ==
  ASSUME DebugType, LimitInv, NEW e \in Evaluations, CaptureStep(e)
  PROVE  LimitInv'
<1> USE DebugAssumption DEF sinkVars
<1>t. tally \in Tallies /\ event[e] \in Events /\ second \in Seconds /\ event \in [Evaluations -> Events]
  BY DEF DebugType
<1>p. {"done", "check", "disable", "clock", "store", "reset", "count", "send", "sent"} \subseteq Places
  BY DEF Places
<1>c. /\ event[e].now \in Seconds /\ tally.offered[event[e].now] \in Nat
      /\ tally.passed[event[e].now] \in Nat /\ curCnt \in Nat
  BY <1>t DEF Events, Tallies, DebugType
<1>1. ASSUME event[e].at \notin Limiting, event'[e].at \notin Limiting,
             \A o \in Evaluations \ {e} : event'[o] = event[o],
             tally'.offered = tally.offered, tally'.passed = tally.passed, tally'.met = tally.met,
             UNCHANGED <<second, curSec, curCnt>>
      PROVE  LimitInv'
  <2>1. At(Limiting)' = At(Limiting) /\ \A o \in At(Limiting) : event'[o] = event[o]
    BY <1>1 DEF At
  <2>2. QED
    BY <1>1, <2>1, LimiterUntouched
<1>2. CASE BeginCapture(e)
  <2>1. event' = [event EXCEPT ![e].at = IF mode = "off" THEN "done" ELSE "mode"]
    BY <1>2 DEF BeginCapture, Proceed
  <2>2. /\ event'[e].at \in {"done", "mode"} /\ event[e].at = "done"
        /\ \A o \in Evaluations \ {e} : event'[o] = event[o]
    BY <1>2, <2>1, <1>t DEF Events, BeginCapture
  <2>3. tally'.offered = tally.offered /\ tally'.passed = tally.passed /\ tally'.met = tally.met
    BY <1>2, <1>t DEF BeginCapture, Tallies
  <2>4. QED
    BY <1>1, <1>2, <2>2, <2>3 DEF BeginCapture, Limiting
<1>3. CASE ReadMode(e)
  <2> PICK r \in Relations :
         Proceed(e, CASE mode = "all" -> "check"
                      [] Filtered(mode, r) -> "done"
                      [] OTHER -> "clock")
    BY <1>3 DEF ReadMode
  <2> DEFINE to == CASE mode = "all" -> "check"
                     [] Filtered(mode, r) -> "done"
                     [] OTHER -> "clock"
  <2>1. to \in {"check", "done", "clock"} /\ event' = [event EXCEPT ![e].at = to]
    BY <1>3 DEF Proceed, Filtered
  <2> HIDE DEF to
  <2>2. event'[e].at = to /\ event[e].at = "mode" /\ \A o \in Evaluations \ {e} : event'[o] = event[o]
    BY <1>3, <2>1, <1>t DEF Events, ReadMode
  <2>3. tally'.offered = tally.offered /\ tally'.passed = tally.passed /\ tally'.met = tally.met
    BY <1>3, <1>t DEF ReadMode, Tallies
  <2>4. QED
    BY <1>1, <1>3, <2>1, <2>2, <2>3 DEF ReadMode, Limiting
<1>4. ASSUME NEW to \in {"done", "disable", "clock", "sent"}, Proceed(e, to),
             event[e].at \in {"check", "disable", "send", "sent"},
             UNCHANGED <<second, curSec, curCnt, tally>>
      PROVE  LimitInv'
  <2>1. event'[e].at = to /\ \A o \in Evaluations \ {e} : event'[o] = event[o]
    BY <1>4, <1>p, ProceedOnly
  <2>2. QED
    BY <1>1, <1>4, <2>1 DEF Limiting
<1>5. CASE CheckDeadline(e) \/ Disable(e) \/ Send(e) \/ CountSent(e)
  BY <1>4, <1>5 DEF CheckDeadline, Disable, Send, CountSent
<1>6. ASSUME NEW to \in {"store", "reset", "count", "send", "done"}, Proceed(e, to),
             event[e].at \in Limiting
      PROVE  /\ event'[e].at = to /\ event'[e].now = event[e].now
             /\ \A o \in Evaluations \ {e} : event'[o] = event[o]
             /\ e \in At(Limiting)
             /\ ~tally.met[event[e].now] => FindsCount(e)
             /\ tally.offered[event[e].now] > 0
  <2>1. e \in At(Limiting)
    BY <1>6 DEF At
  <2>2. QED
    BY <1>6, <1>p, <2>1, ProceedOnly DEF LimitInv, SecondLeft
<1>7. CASE LoadSecond(e)
  <2> DEFINE to == IF curSec # event[e].now THEN "store" ELSE "count"
  <2>1. event[e].at = "compare" /\ Proceed(e, to) /\ UNCHANGED <<second, curSec, curCnt, tally>>
    BY <1>7 DEF LoadSecond
  <2>2. to \in {"store", "count"} /\ (to = "count" <=> curSec = event[e].now)
    OBVIOUS
  <2> HIDE DEF to
  <2>3. ~tally.met[event[e].now] => FindsCount(e)'
    BY <1>6, <1>c, <2>1, <2>2 DEF FindsCount, Limiting
  <2>4. QED
    BY <1>6, <2>1, <2>2, <2>3, LimiterStep DEF Limiting
<1>8. CASE StoreSecond(e)
  <2>1. /\ event[e].at = "store" /\ Proceed(e, "reset") /\ curSec' = event[e].now
        /\ UNCHANGED <<second, curCnt, tally>>
    BY <1>8 DEF StoreSecond
  <2>2. ~tally.met[event[e].now] => FindsCount(e)'
    BY <1>6, <1>c, <2>1 DEF FindsCount, Limiting
  <2>3. QED
    BY <1>6, <2>1, <2>2, LimiterStep DEF Limiting
<1>9. CASE ResetCount(e)
  <2>1. /\ event[e].at = "reset" /\ Proceed(e, "count") /\ curCnt' = 0
        /\ UNCHANGED <<second, curSec, tally>>
    BY <1>9 DEF ResetCount
  <2>2. ~tally.met[event[e].now] => FindsCount(e)'
    BY <1>6, <1>c, <2>1 DEF FindsCount, Limiting
  <2>3. QED
    BY <1>6, <2>1, <2>2, LimiterStep DEF Limiting
<1>10. CASE CountEvent(e)
  <2> DEFINE c == event[e].now
             f == [tally.passed EXCEPT ![c] = @ + 1]
             over == curCnt + 1 > EventLimit
  <2>1. /\ event[e].at = "count" /\ Proceed(e, IF over THEN "done" ELSE "send")
        /\ curCnt' = curCnt + 1 /\ UNCHANGED <<second, curSec>>
        /\ over => tally' = tally
        /\ ~over => tally' = [tally EXCEPT !.passed = f, !.through = @ + 1]
    BY <1>10 DEF CountEvent, OverLimit
  <2>2. /\ tally'.offered = tally.offered /\ tally'.met = tally.met
        /\ \A t \in Seconds \ {c} : tally'.passed[t] = tally.passed[t]
        /\ tally'.passed[c] = IF over THEN tally.passed[c] ELSE tally.passed[c] + 1
    <3>1. f[c] = tally.passed[c] + 1 /\ \A t \in Seconds \ {c} : f[t] = tally.passed[t]
      BY <1>t, <1>c DEF Tallies
    <3> HIDE DEF f, c, over
    <3>2. QED
      BY <1>t, <2>1, <3>1 DEF Tallies
  <2>3. ~tally.met[c] =>
          tally'.passed[c] = Cap(tally.offered[c]) /\ curSec' = c /\ curCnt' = tally.offered[c]
    BY <1>6, <1>c, <2>1, <2>2 DEF FindsCount, Limiting, Cap
  <2>4. /\ event'[e].at \notin Limiting /\ event'[e].now = c /\ e \in At(Limiting)
        /\ \A o \in Evaluations \ {e} : event'[o] = event[o]
    BY <1>6, <2>1 DEF Limiting
  <2>5. QED
    BY <2>1, <2>2, <2>3, <2>4, LimiterStep
<1>11. CASE ReadClock(e)
  BY <1>11, ReadClockLimit
<1>12. QED
  BY <1>2, <1>3, <1>5, <1>7, <1>8, <1>9, <1>10, <1>11 DEF CaptureStep

LEMMA LimitStep == DebugType /\ LimitInv /\ [DebugNext]_debugVars => LimitInv'
<1> SUFFICES ASSUME DebugType, LimitInv, [DebugNext]_debugVars PROVE LimitInv'
  OBVIOUS
<1>t. tally \in Tallies /\ second \in Seconds
  BY DEF DebugType
<1>1. ASSUME UNCHANGED <<second, curSec, curCnt, event>>,
             tally'.offered = tally.offered, tally'.passed = tally.passed, tally'.met = tally.met
      PROVE  LimitInv'
  BY <1>1, LimiterUntouched DEF At
<1>2. CASE SetMode \/ SetDeadline \/ TakeEvent
  <2>1. tally'.offered = tally.offered /\ tally'.passed = tally.passed /\ tally'.met = tally.met
    BY <1>2, <1>t DEF SetMode, SetDeadline, TakeEvent, Tallies
  <2>2. QED
    BY <1>1, <1>2, <2>1 DEF SetMode, SetDeadline, TakeEvent, sinkVars
<1>3. CASE NextSecond
  <2>1. second' = second + 1 /\ UNCHANGED <<curSec, curCnt, event, tally>> /\ second + 1 \in Seconds
    BY <1>3, <1>t, DebugAssumption DEF NextSecond, sinkVars, Seconds
  <2>2. SecondLeft' /\ AloneInLimiter'
    BY <1>t, <2>1 DEF LimitInv, SecondLeft, AloneInLimiter, At, Seconds
  <2>3. \A s \in Seconds : Between(s) => Between(s)'
    <3>1. tally.offered[second + 1] = 0
      BY <1>t, <2>1 DEF LimitInv, SecondLeft, Seconds
    <3>2. QED
      BY <2>1, <3>1 DEF Between, At, Cap
  <2>4. \A o \in At(Limiting) : FindsCount(o)' <=> FindsCount(o)
    BY <2>1 DEF FindsCount, Cap
  <2>5. QED
    BY <2>1, <2>2, <2>3, <2>4 DEF LimitInv, At
<1>4. CASE UNCHANGED debugVars
  BY <1>1, <1>4 DEF debugVars, sinkVars
<1>5. QED
  BY <1>2, <1>3, <1>4, CaptureLimit DEF DebugNext

-----------------------------------------------------------------------------
(* The channel                                                             *)

\* A step of e changes a number of events by e at most.
LEMMA CountOfMoved ==
  ASSUME DebugType, NEW e \in Evaluations, NEW P,
         \A o \in Evaluations \ {e} : event'[o] = event[o]
  PROVE  /\ Cardinality(At(P)) \in Nat
         /\ event[e].at \in P /\ event'[e].at \in P =>
              Cardinality(At(P)') = Cardinality(At(P))
         /\ event[e].at \notin P /\ event'[e].at \notin P =>
              Cardinality(At(P)') = Cardinality(At(P))
         /\ event[e].at \notin P /\ event'[e].at \in P =>
              Cardinality(At(P)') = Cardinality(At(P)) + 1
         /\ event[e].at \in P /\ event'[e].at \notin P =>
              Cardinality(At(P)') = Cardinality(At(P)) - 1
<1> DEFINE A == At(P)
           B == At(P)'
<1>1. IsFiniteSet(A) /\ Cardinality(A) \in Nat
  <2>1. A \subseteq Evaluations
    BY DEF At
  <2>2. QED
    BY <2>1, DebugAssumption, FS_Subset, FS_CardinalityType
<1>2. e \in A <=> event[e].at \in P
  BY DEF At
<1>3. e \in B <=> event'[e].at \in P
  BY DEF At
<1>4. \A o \in Evaluations \ {e} : o \in A <=> o \in B
  BY DEF At
<1>5. A \subseteq Evaluations /\ B \subseteq Evaluations
  BY DEF At
<1> HIDE DEF A, B
<1>6. (e \in A <=> e \in B) => A = B
  BY <1>4, <1>5
<1>7. e \notin A /\ e \in B => Cardinality(B) = Cardinality(A) + 1
  <2>1. SUFFICES ASSUME e \notin A, e \in B PROVE Cardinality(B) = Cardinality(A) + 1
    OBVIOUS
  <2>2. B = A \cup {e}
    BY <1>4, <1>5, <2>1
  <2>3. QED
    BY <1>1, <2>1, <2>2, FS_AddElement
<1>8. e \in A /\ e \notin B => Cardinality(B) = Cardinality(A) - 1
  <2>1. SUFFICES ASSUME e \in A, e \notin B PROVE Cardinality(B) = Cardinality(A) - 1
    OBVIOUS
  <2>2. B = A \ {e}
    BY <1>4, <1>5, <2>1
  <2>3. QED
    BY <1>1, <2>1, <2>2, FS_RemoveElement
<1>9. QED
  BY <1>1, <1>2, <1>3, <1>6, <1>7, <1>8 DEF A, B

LEMMA AddUpInit == DebugInit => EventsAddUp
<1> SUFFICES ASSUME DebugInit PROVE EventsAddUp
  OBVIOUS
<1> USE DebugAssumption DEF DebugInit, DebugInitIn
<1>1. At({"sent"}) = {} /\ At({"send", "sent"}) = {}
  BY DEF At
<1>2. Cardinality({}) = 0
  BY FS_EmptySet
<1>3. QED
  <2>1. sent = 0 /\ dropped = 0 /\ buffered = 0 /\ tally.taken = 0 /\ tally.through = 0
        /\ 0 <= BufferSize
    OBVIOUS
  <2> HIDE DEF DebugInit, DebugInitIn
  <2> QED BY <1>1, <1>2, <2>1 DEF EventsAddUp

LEMMA CaptureAddUp ==
  ASSUME DebugType, EventsAddUp, NEW e \in Evaluations, CaptureStep(e)
  PROVE  EventsAddUp'
<1> USE DebugAssumption DEF sinkVars
<1>t. tally \in Tallies /\ event[e] \in Events /\ event \in [Evaluations -> Events]
  BY DEF DebugType
<1>n. /\ tally.through \in Nat /\ tally.taken \in Nat /\ buffered \in Nat /\ sent \in Nat
      /\ dropped \in Nat /\ BufferSize \in Nat
  BY <1>t DEF Tallies, DebugType
<1>p. {"done", "check", "disable", "clock", "store", "reset", "count", "send", "sent"} \subseteq Places
  BY DEF Places
<1>1. ASSUME event[e].at \notin {"send", "sent"}, event'[e].at \notin {"send", "sent"},
             \A o \in Evaluations \ {e} : event'[o] = event[o],
             tally'.through = tally.through, tally'.taken = tally.taken,
             UNCHANGED <<buffered, sent, dropped>>
      PROVE  EventsAddUp'
  <2>1. /\ Cardinality(At({"sent"})') = Cardinality(At({"sent"}))
        /\ Cardinality(At({"send", "sent"})') = Cardinality(At({"send", "sent"}))
    BY <1>1, CountOfMoved
  <2>2. QED
    BY <1>1, <2>1 DEF EventsAddUp
<1>2. CASE BeginCapture(e)
  <2>1. event' = [event EXCEPT ![e].at = IF mode = "off" THEN "done" ELSE "mode"]
    BY <1>2 DEF BeginCapture, Proceed
  <2>2. /\ event'[e].at \in {"done", "mode"} /\ event[e].at = "done"
        /\ \A o \in Evaluations \ {e} : event'[o] = event[o]
    BY <1>2, <2>1, <1>t DEF Events, BeginCapture
  <2>3. tally'.through = tally.through /\ tally'.taken = tally.taken
    BY <1>2, <1>t DEF BeginCapture, Tallies
  <2>4. QED
    BY <1>1, <1>2, <2>2, <2>3 DEF BeginCapture
<1>3. CASE ReadMode(e)
  <2> PICK r \in Relations :
         Proceed(e, CASE mode = "all" -> "check"
                      [] Filtered(mode, r) -> "done"
                      [] OTHER -> "clock")
    BY <1>3 DEF ReadMode
  <2> DEFINE to == CASE mode = "all" -> "check"
                     [] Filtered(mode, r) -> "done"
                     [] OTHER -> "clock"
  <2>1. to \in {"check", "done", "clock"} /\ event' = [event EXCEPT ![e].at = to]
    BY <1>3 DEF Proceed, Filtered
  <2> HIDE DEF to
  <2>2. event'[e].at = to /\ event[e].at = "mode" /\ \A o \in Evaluations \ {e} : event'[o] = event[o]
    BY <1>3, <2>1, <1>t DEF Events, ReadMode
  <2>3. tally'.through = tally.through /\ tally'.taken = tally.taken
    BY <1>3, <1>t DEF ReadMode, Tallies
  <2>4. QED
    BY <1>1, <1>3, <2>1, <2>2, <2>3 DEF ReadMode
<1>4. CASE ReadClock(e)
  <2>1. event'[e].at = "compare" /\ event[e].at = "clock" /\ \A o \in Evaluations \ {e} : event'[o] = event[o]
    BY <1>4, <1>t DEF Events, ReadClock
  <2>2. tally'.through = tally.through /\ tally'.taken = tally.taken
    BY <1>4, <1>t DEF ReadClock, Tallies
  <2>3. QED
    BY <1>1, <1>4, <2>1, <2>2 DEF ReadClock
<1>5. ASSUME NEW to \in {"done", "disable", "clock", "store", "reset", "count"}, Proceed(e, to),
             event[e].at \in {"check", "disable", "compare", "store", "reset"},
             UNCHANGED <<buffered, sent, dropped, tally>>
      PROVE  EventsAddUp'
  <2>1. event'[e].at = to /\ \A o \in Evaluations \ {e} : event'[o] = event[o]
    BY <1>5, <1>p, ProceedOnly
  <2>2. QED
    BY <1>1, <1>5, <2>1
<1>6. CASE CheckDeadline(e) \/ Disable(e) \/ LoadSecond(e) \/ StoreSecond(e) \/ ResetCount(e)
  BY <1>5, <1>6 DEF CheckDeadline, Disable, LoadSecond, StoreSecond, ResetCount
<1>7. ASSUME NEW to \in {"done", "send", "sent"}, Proceed(e, to)
      PROVE  event'[e].at = to /\ \A o \in Evaluations \ {e} : event'[o] = event[o]
  BY <1>7, <1>p, ProceedOnly
<1>8. CASE CountEvent(e)
  <2>1. CASE OverLimit(curCnt + 1)
    BY <1>1, <1>7, <1>8, <2>1 DEF CountEvent
  <2>2. CASE ~OverLimit(curCnt + 1)
    <3>1. /\ event[e].at = "count" /\ Proceed(e, "send") /\ UNCHANGED <<buffered, sent, dropped>>
          /\ tally' = [tally EXCEPT !.passed[event[e].now] = @ + 1, !.through = @ + 1]
      BY <1>8, <2>2 DEF CountEvent
    <3>2. tally'.through = tally.through + 1 /\ tally'.taken = tally.taken
      BY <1>t, <3>1 DEF Tallies
    <3>3. event'[e].at = "send" /\ \A o \in Evaluations \ {e} : event'[o] = event[o]
      BY <1>7, <3>1
    <3>4. /\ Cardinality(At({"sent"})') = Cardinality(At({"sent"}))
          /\ Cardinality(At({"send", "sent"})') = Cardinality(At({"send", "sent"})) + 1
          /\ Cardinality(At({"send", "sent"})) \in Nat
      BY <3>1, <3>3, CountOfMoved
    <3>5. QED
      BY <1>n, <3>1, <3>2, <3>4 DEF EventsAddUp
  <2>3. QED
    BY <2>1, <2>2
<1>9. CASE Send(e)
  <2>1. CASE buffered < BufferSize
    <3>1. /\ event[e].at = "send" /\ Proceed(e, "sent") /\ buffered' = buffered + 1
          /\ UNCHANGED <<sent, dropped, tally>>
      BY <1>9, <2>1 DEF Send
    <3>2. event'[e].at = "sent" /\ \A o \in Evaluations \ {e} : event'[o] = event[o]
      BY <1>7, <3>1
    <3>3. /\ Cardinality(At({"sent"})') = Cardinality(At({"sent"})) + 1
          /\ Cardinality(At({"send", "sent"})') = Cardinality(At({"send", "sent"}))
          /\ Cardinality(At({"sent"})) \in Nat
      BY <3>1, <3>2, CountOfMoved
    <3>4. QED
      BY <1>n, <2>1, <3>1, <3>3 DEF EventsAddUp
  <2>2. CASE ~(buffered < BufferSize)
    <3>1. /\ event[e].at = "send" /\ Proceed(e, "done") /\ dropped' = dropped + 1
          /\ UNCHANGED <<buffered, sent, tally>>
      BY <1>9, <2>2 DEF Send
    <3>2. event'[e].at = "done" /\ \A o \in Evaluations \ {e} : event'[o] = event[o]
      BY <1>7, <3>1
    <3>3. /\ Cardinality(At({"sent"})') = Cardinality(At({"sent"}))
          /\ Cardinality(At({"send", "sent"})') = Cardinality(At({"send", "sent"})) - 1
          /\ Cardinality(At({"send", "sent"})) \in Nat
      BY <3>1, <3>2, CountOfMoved
    <3>4. QED
      BY <1>n, <3>1, <3>3 DEF EventsAddUp
  <2>3. QED
    BY <2>1, <2>2
<1>10. CASE CountSent(e)
  <2>1. /\ event[e].at = "sent" /\ Proceed(e, "done") /\ sent' = sent + 1
        /\ UNCHANGED <<buffered, dropped, tally>>
    BY <1>10 DEF CountSent
  <2>2. event'[e].at = "done" /\ \A o \in Evaluations \ {e} : event'[o] = event[o]
    BY <1>7, <2>1
  <2>3. /\ Cardinality(At({"sent"})') = Cardinality(At({"sent"})) - 1
        /\ Cardinality(At({"send", "sent"})') = Cardinality(At({"send", "sent"})) - 1
        /\ Cardinality(At({"sent"})) \in Nat /\ Cardinality(At({"send", "sent"})) \in Nat
    BY <2>1, <2>2, CountOfMoved
  <2>4. QED
    BY <1>n, <2>1, <2>3 DEF EventsAddUp
<1>11. QED
  BY <1>2, <1>3, <1>4, <1>6, <1>8, <1>9, <1>10 DEF CaptureStep

LEMMA AddUpStep == DebugType /\ EventsAddUp /\ [DebugNext]_debugVars => EventsAddUp'
<1> SUFFICES ASSUME DebugType, EventsAddUp, [DebugNext]_debugVars PROVE EventsAddUp'
  OBVIOUS
<1>t. tally \in Tallies /\ buffered \in Nat /\ sent \in Nat /\ BufferSize \in Nat
  BY DebugAssumption DEF DebugType
<1>1. ASSUME event' = event, UNCHANGED <<buffered, sent, dropped>>,
             tally'.through = tally.through, tally'.taken = tally.taken
      PROVE  EventsAddUp'
  BY <1>1 DEF EventsAddUp, At
<1>2. CASE SetMode \/ SetDeadline
  <2>1. tally'.through = tally.through /\ tally'.taken = tally.taken
    BY <1>2, <1>t DEF SetMode, SetDeadline, Tallies
  <2>2. QED
    BY <1>1, <1>2, <2>1 DEF SetMode, SetDeadline, sinkVars
<1>3. CASE TakeEvent
  <2>1. /\ buffered > 0 /\ buffered' = buffered - 1 /\ UNCHANGED <<sent, dropped, event>>
        /\ tally'.through = tally.through /\ tally'.taken = tally.taken + 1
    BY <1>3, <1>t DEF TakeEvent, Tallies
  <2>2. Cardinality(At({"sent"})') = Cardinality(At({"sent"})) /\ tally.taken \in Nat
        /\ Cardinality(At({"send", "sent"})') = Cardinality(At({"send", "sent"}))
    BY <1>t, <2>1 DEF At, Tallies
  <2>3. QED
    BY <1>t, <2>1, <2>2 DEF EventsAddUp
<1>4. CASE NextSecond \/ UNCHANGED debugVars
  BY <1>1, <1>4 DEF NextSecond, debugVars, sinkVars
<1>5. QED
  BY <1>2, <1>3, <1>4, CaptureAddUp DEF DebugNext

-----------------------------------------------------------------------------
\* In a second whose events never met in the limiter the first EventLimit of them
\* pass and no more; and what passes is dropped or taken once.
THEOREM CapturesCorrect == DebugSpec => []CapturesAddUp
<1>1. DebugType /\ LimitInv => LimitIsExact
  <2>1. SUFFICES ASSUME DebugType, LimitInv, NEW s \in Seconds, ~tally.met[s],
                        \A e \in At(Limiting) : event[e].now # s
                 PROVE  tally.passed[s] = Min({tally.offered[s], EventLimit})
    BY DEF LimitIsExact
  <2>2. tally.passed[s] = Cap(tally.offered[s])
    BY <2>1 DEF LimitInv, Between
  <2>3. tally.offered[s] \in Nat
    BY <2>1 DEF DebugType, Tallies
  <2>4. QED
    BY <2>2, <2>3, MinOfTwo
<1>2. DebugType /\ LimitInv /\ EventsAddUp => CapturesAddUp
  BY <1>1 DEF CapturesAddUp
<1>3. QED
  BY TypeInvariance, LimitInit, LimitStep, AddUpInit, AddUpStep, <1>2, PTL DEF DebugSpec
=============================================================================
