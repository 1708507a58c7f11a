---------------------------- MODULE ConfigReload ----------------------------
(***************************************************************************)
(* From the configuration directory to the active snapshot: the watcher    *)
(* (internal/watcher), the directory scan (internal/config/load.go), the   *)
(* reload (internal/runtime/reloader.go) and its health record             *)
(* (reload_status.go, doReload in cmd/elchi-shield/main.go).               *)
(*                                                                         *)
(* The agent that owns the directory writes at any moment, also between    *)
(* the listing and the reading of each file, and replaces the directory    *)
(* itself; a file event may be lost when fsnotify's buffer overflows.  A   *)
(* file is the host it configures: two files with the same host do not     *)
(* validate together, and Bad stands for one that fails to parse, to       *)
(* validate or to compile.                                                 *)
(***************************************************************************)
EXTENDS Naturals

CONSTANTS NFiles,      \* files are 1..NFiles, in the order of their names
          Hosts,       \* what a valid file may configure
          Bad,         \* contents of an invalid file
          Absent,      \* no such file
          NoConfig,    \* the empty snapshot of a fresh process
          MaxChanges   \* bound: steps of the agent

ASSUME ReloadAssumption ==
  /\ NFiles \in Nat /\ MaxChanges \in Nat
  /\ Bad \notin Hosts /\ Absent \notin Hosts \cup {Bad}
  /\ NoConfig \notin [1..NFiles -> Hosts \cup {Bad, Absent}]

Files == 1..NFiles
Contents == Hosts \cup {Bad, Absent}
Scans == [Files -> Contents]

VARIABLES disk,      \* the directory's files
          dirUp,     \* the directory exists
          changes,   \* steps the agent has taken
          watched,   \* the kernel watch is on the directory that is there now
          fileEv,    \* file events waiting in fsw.Events
          dirEv,     \* a removal of the directory waiting in fsw.Events
          due,       \* the backstop ticker's channel
          pending,   \* Run's pending
          timer,     \* the debounce timer: off, armed, or fired and unread
          at,        \* where the goroutine that reloads is
          booted,    \* the boot reload is over
          todo,      \* listed files not read yet
          got,       \* what has been read of them
          activeConfig,  \* the configuration of the active snapshot
          lastError  \* ReloadStatus reports a rejected configuration

agentVars == <<disk, dirUp, changes, watched, fileEv, dirEv>>
watchVars == <<due, pending, timer>>
scanVars == <<todo, got>>
servedVars == <<activeConfig, lastError>>
crvars == <<agentVars, watchVars, at, booted, scanVars, servedVars>>

NoFiles == [f \in Files |-> Absent]

CRInit ==
  /\ disk \in Scans /\ dirUp \in BOOLEAN
  /\ ~dirUp => disk = NoFiles
  /\ changes = 0
  /\ watched = FALSE /\ fileEv = FALSE /\ dirEv = FALSE
  /\ due = FALSE /\ pending = FALSE /\ timer = "off"
  /\ at = "list" /\ booted = FALSE
  /\ todo = {} /\ got = NoFiles
  /\ activeConfig = NoConfig /\ lastError = FALSE

-----------------------------------------------------------------------------
(* The agent. *)
Change ==
  /\ changes < MaxChanges
  /\ changes' = changes + 1
  /\ UNCHANGED <<watchVars, at, booted, scanVars, servedVars>>

(* A file is created, rewritten or removed; its event may be lost. *)
WriteFile(f, c) ==
  /\ Change
  /\ dirUp /\ disk[f] # c
  /\ disk' = [disk EXCEPT ![f] = c]
  /\ fileEv' \in IF watched THEN {fileEv, TRUE} ELSE {fileEv}
  /\ UNCHANGED <<dirUp, watched, dirEv>>

(* The directory goes away, and with it the kernel watch. *)
RemoveDir ==
  /\ Change
  /\ dirUp
  /\ dirUp' = FALSE /\ disk' = NoFiles /\ watched' = FALSE
  /\ dirEv' \in IF watched THEN {dirEv, TRUE} ELSE {dirEv}
  /\ fileEv' \in IF watched THEN {fileEv, TRUE} ELSE {fileEv}

(* It reappears, possibly complete: a volume is mounted or renamed into place. *)
CreateDir ==
  /\ Change
  /\ ~dirUp
  /\ dirUp' = TRUE /\ disk' \in Scans
  /\ UNCHANGED <<watched, fileEv, dirEv>>

-----------------------------------------------------------------------------
(* Watcher.Run.                                                              *)

(* ensureWatch has found the directory and added it; at the start and after  *)
(* a replacement a catch-up reload is scheduled.                             *)
EnsureWatch ==
  /\ at \in {"ensure", "rewatch"} /\ dirUp
  /\ watched' = TRUE
  /\ pending' = TRUE /\ timer' = "armed"
  /\ at' = "select"
  /\ UNCHANGED <<disk, dirUp, changes, fileEv, dirEv, due, booted, scanVars, servedVars>>

(* A file event (re)starts the debounce. *)
FileEvent ==
  /\ at = "select" /\ fileEv
  /\ fileEv' = FALSE
  /\ pending' = TRUE /\ timer' = "armed"
  /\ UNCHANGED <<disk, dirUp, changes, watched, dirEv, due, at, booted, scanVars, servedVars>>

(* The directory was removed or replaced: watch it again first. *)
DirEvent ==
  /\ at = "select" /\ dirEv
  /\ dirEv' = FALSE
  /\ at' = "rewatch"
  /\ UNCHANGED <<disk, dirUp, changes, watched, fileEv, watchVars, booted, scanVars, servedVars>>

TimerFires ==
  /\ timer = "armed"
  /\ timer' = "fired"
  /\ UNCHANGED <<agentVars, due, pending, at, booted, scanVars, servedVars>>

(* Mutant of TimerCase: a fired timer does not clear pending. *)
StayPending ==
  /\ at = "select" /\ timer = "fired"
  /\ timer' = "off"
  /\ at' = IF pending THEN "list" ELSE "select"
  /\ UNCHANGED <<agentVars, due, pending, booted, scanVars, servedVars>>

(* Quiet for the debounce window: onChange, that is doReload, is called. *)
TimerCase ==
  /\ at = "select" /\ timer = "fired"
  /\ timer' = "off"
  /\ pending' = FALSE
  /\ at' = IF pending THEN "list" ELSE "select"
  /\ UNCHANGED <<agentVars, due, booted, scanVars, servedVars>>

BackstopTick ==
  /\ booted /\ at # "ensure" /\ ~due
  /\ due' = TRUE
  /\ UNCHANGED <<agentVars, pending, timer, at, booted, scanVars, servedVars>>

(* Mutant of BackstopCase: the tick schedules nothing. *)
IgnoreTick ==
  /\ at = "select" /\ due
  /\ due' = FALSE
  /\ UNCHANGED <<agentVars, pending, timer, at, booted, scanVars, servedVars>>

(* The safety re-scan: schedule a reload unless one is already. *)
BackstopCase ==
  /\ at = "select" /\ due
  /\ due' = FALSE
  /\ pending' = TRUE
  /\ timer' = IF pending THEN timer ELSE "armed"
  /\ UNCHANGED <<agentVars, at, booted, scanVars, servedVars>>

-----------------------------------------------------------------------------
(* doReload: the boot reload, then the ones Run calls.                       *)
Finished == /\ at' = IF booted THEN "select" ELSE "ensure"
            /\ booted' = TRUE
            /\ todo' = {} /\ got' = NoFiles

(* ReadDir lists the directory; a missing or empty one keeps the last-good   *)
(* snapshot and the failure reason.                                          *)
List ==
  /\ at = "list"
  /\ \/ /\ disk = NoFiles
        /\ Finished
     \/ /\ disk # NoFiles
        /\ todo' = {f \in Files : disk[f] # Absent}
        /\ at' = "read"
        /\ UNCHANGED <<booted, got>>
  /\ UNCHANGED <<agentVars, watchVars, servedVars>>

(* It reads the listed files in order; one that vanished is skipped. *)
ReadFile(f) ==
  /\ at = "read" /\ f \in todo
  /\ \A g \in todo : f <= g
  /\ todo' = todo \ {f}
  /\ got' = [got EXCEPT ![f] = disk[f]]
  /\ UNCHANGED <<agentVars, watchVars, at, booted, servedVars>>

(* Load and Compile accept the scan: no bad file, no host in two files. *)
Valid(m) ==
  /\ \A f \in Files : m[f] # Bad
  /\ \A f, g \in Files : f # g /\ m[f] = m[g] => m[f] = Absent

(* Mutant of Apply: Set is not guarded against the nil of a failed reload. *)
InstallNil ==
  /\ activeConfig' = IF Valid(got) THEN got ELSE Absent
  /\ lastError' = ~Valid(got)

(* Mutant of Apply: the files are validated one by one only. *)
CheckedOneByOne ==
  LET ok == \A f \in Files : got[f] # Bad
  IN activeConfig' = (IF ok THEN got ELSE activeConfig) /\ lastError' = ~ok

(* Failed keeps the snapshot and records the reason; Applied installs the    *)
(* new one, Unchanged is the same configuration again: both clear it.        *)
Apply ==
  /\ activeConfig' = IF Valid(got) THEN got ELSE activeConfig
  /\ lastError' = ~Valid(got)

Reload ==
  /\ at = "read" /\ todo = {}
  /\ Apply
  /\ Finished
  /\ UNCHANGED <<agentVars, watchVars>>

-----------------------------------------------------------------------------
Agent == \/ \E f \in Files, c \in Contents : WriteFile(f, c)
         \/ RemoveDir \/ CreateDir

CRNext ==
  \/ Agent
  \/ EnsureWatch \/ FileEvent \/ DirEvent
  \/ TimerFires \/ TimerCase \/ BackstopTick \/ BackstopCase
  \/ List \/ (\E f \in Files : ReadFile(f)) \/ Reload

(* Timers fire, the goroutine is scheduled and its select starves no case    *)
(* that stays ready.  The agent owes nothing, and any event may be lost.     *)
CRFairness ==
  /\ WF_crvars(EnsureWatch) /\ WF_crvars(FileEvent) /\ WF_crvars(DirEvent)
  /\ WF_crvars(TimerFires) /\ WF_crvars(TimerCase)
  /\ WF_crvars(BackstopTick) /\ WF_crvars(BackstopCase)
  /\ WF_crvars(List) /\ WF_crvars(\E f \in Files : ReadFile(f)) /\ WF_crvars(Reload)

CRSpec == CRInit /\ [][CRNext]_crvars /\ CRFairness

-----------------------------------------------------------------------------
(* Types of the directory, the watcher, the scan and what is served. *)
CRTypeOK ==
  /\ disk \in Scans /\ dirUp \in BOOLEAN /\ changes \in 0..MaxChanges
  /\ watched \in BOOLEAN /\ fileEv \in BOOLEAN /\ dirEv \in BOOLEAN
  /\ due \in BOOLEAN /\ pending \in BOOLEAN
  /\ timer \in {"off", "armed", "fired"}
  /\ at \in {"ensure", "rewatch", "select", "list", "read"} /\ booted \in BOOLEAN
  /\ todo \subseteq Files /\ got \in Scans
  /\ activeConfig \in Scans \cup {NoConfig} /\ lastError \in BOOLEAN

(* Whatever is on disk and however the scan is torn, what is served is the   *)
(* empty snapshot or a configuration that validates as a whole               *)
(* (Reloader.Reload keeps the last good snapshot on any error).              *)
ServedIsValid == activeConfig # NoConfig => Valid(activeConfig)

(* Run's bookkeeping: a reload is pending exactly when the debounce timer is *)
(* running or its expiry is unread, so no expiry is wasted and no pending    *)
(* reload is left without a timer.                                           *)
PendingHasTimer == pending <=> timer # "off"

(* The files on disk, when they validate, are what is served from some point *)
(* on once the agent stops, although events were lost, the scan was torn or  *)
(* the directory was replaced; a configuration that does not validate is     *)
(* reported, and a valid one clears the report ("correctness (never miss a   *)
(* change) over immediacy", watcher.go).                                     *)
Converges ==
  <>[](disk # NoFiles => IF Valid(disk) THEN activeConfig = disk /\ ~lastError ELSE lastError)

(* reloader.go: "Keep the last-good snapshot rather than wiping active       *)
(* protection when all files are (perhaps accidentally) removed."            *)
NeverWiped ==
  [][activeConfig \notin {NoConfig, NoFiles} => activeConfig' # NoFiles]_crvars
=============================================================================
