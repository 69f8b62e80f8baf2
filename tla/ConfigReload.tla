---------------------------- MODULE ConfigReload ----------------------------
(***************************************************************************)
(* Hot reload of CustomPluginVariables.JSON by the plugin (main.cpp).      *)
(*                                                                         *)
(* Four actors interleave:                                                 *)
(*   - an editor (the installer, the manager or a person) that rewrites    *)
(*     the file in several steps and may stop half-way;                    *)
(*   - the operating system, whose change notification is one signalled    *)
(*     handle plus the changes it records until the handle is re-armed;    *)
(*   - the watcher thread of ConfigFileWatcher;                            *)
(*   - the simulator's thread: Startup, UpdateScoring and Shutdown.        *)
(*                                                                         *)
(* A configuration is identified by the version the editor wrote.  What a  *)
(* version asks for is abstracted to the one thing reload itself depends   *)
(* on: does it keep the scoring callback subscribed (Scoring)?             *)
(***************************************************************************)
EXTENDS Naturals

CONSTANTS
    Versions,        \* contents an editor may save
    Scoring,         \* those that keep a scoring stream on and unmasked
    Enabled,         \* those whose " Enabled" is not 0
    FirstVersion,    \* what the file holds before the simulator starts
    WatchMayFail     \* may the OS refuse or invalidate the notification?

ASSUME ConstantsAssumption ==
    /\ Scoring \subseteq Versions
    /\ Enabled \subseteq Versions
    /\ FirstVersion \in Versions
    /\ WatchMayFail \in BOOLEAN

VARIABLES
    disk,        \* the file: [ver, part]
    editor,      \* TRUE while an editor is between truncation and last write
    signaled,    \* the notification handle is signalled
    recorded,    \* the OS holds a change to report at the next re-arm
    watcher,     \* where the watcher thread stands
    stop,        \* hStopEvent is set
    dirty,       \* ConfigFileWatcher.dirty
    host,        \* where the simulator's thread stands in the plugin
    applied,     \* what config was last filled from: [ver, part]
    pathKnown,   \* resolvedConfigPath is set
    missed       \* history: a write fell between Startup's read of the file
                 \* and the registration of the notification

vars == <<disk, editor, signaled, recorded, watcher, stop, dirty, host,
          applied, pathKnown, missed>>

(* How much of a version a reader finds: nothing at all (no file), a file of *)
(* no bytes, a prefix that ends before the scoring keys, or all of it.       *)
Part == {"absent", "empty", "head", "full"}

Content == [ver : Versions, part : Part]

(* What config holds: InitDefaults' values are a content of their own.       *)
Applied == [ver : Versions, part : {"defaults", "head", "full"}]

Host == {"down", "starting", "up", "reloading", "stopping"}

Watcher == {"none", "waiting", "debounce", "rearm"}

TypeOK ==
    /\ disk \in Content
    /\ editor \in BOOLEAN
    /\ signaled \in BOOLEAN
    /\ recorded \in BOOLEAN
    /\ watcher \in Watcher
    /\ stop \in BOOLEAN
    /\ dirty \in BOOLEAN
    /\ host \in Host
    /\ applied \in Applied
    /\ pathKnown \in BOOLEAN
    /\ missed \in BOOLEAN

-----------------------------------------------------------------------------
(* The plugin's reading of the file.                                         *)

Readable(c) == c.part \in {"head", "full"}

\* Variant: the test for a read of no bytes is gone.
LoadUnchecked(c, old) == IF c.part = "absent" THEN old ELSE c

(* LoadConfigFile: no file or no bytes leaves config as it is; otherwise     *)
(* every key is taken from the bytes read, a missing key from its default.   *)
Load(c, old) == IF Readable(c) THEN c ELSE old

(* WantsScoringUpdates, which the simulator asks before it calls             *)
(* UpdateScoring: a prefix without the scoring keys gets the defaults, and   *)
(* those keep both scoring streams on.                                       *)
WantsScoringUpdates(a) == a.part = "full" => a.ver \in Scoring

(* Startup goes on only with config.enabled: the default is enabled, and     *)
(* " Enabled" is the first key of the file.                                  *)
StartupEnabled(a) == a.part # "defaults" => a.ver \in Enabled

-----------------------------------------------------------------------------
(* The editor and the operating system's notification.                       *)

(* A change signals an armed handle; behind an already signalled one it is   *)
(* recorded for the next FindNextChangeNotification.                         *)
Notify ==
    /\ IF watcher = "none"
       THEN UNCHANGED <<signaled, recorded>>
       ELSE /\ signaled' = TRUE
            /\ recorded' = (recorded \/ signaled)
    /\ missed' = (missed \/ host = "starting")

WriteDisk(c) ==
    /\ disk' = c
    /\ Notify
    /\ UNCHANGED <<watcher, stop, dirty, host, applied, pathKnown>>

(* Path.write_text opens for writing, which truncates the file ...           *)
BeginWrite(v) ==
    /\ ~editor
    /\ editor' = TRUE
    /\ WriteDisk([ver |-> v, part |-> "empty"])

(* ... the bytes may reach it in more than one write ...                     *)
WriteHead ==
    /\ editor
    /\ disk.part = "empty"
    /\ WriteDisk([disk EXCEPT !.part = "head"])
    /\ UNCHANGED editor

(* ... and the last one completes it.                                        *)
FinishWrite ==
    /\ editor
    /\ editor' = FALSE
    /\ WriteDisk([disk EXCEPT !.part = "full"])

(* An editor that saves by renaming a finished copy over the file.           *)
ReplaceFile(v) ==
    /\ ~editor
    /\ WriteDisk([ver |-> v, part |-> "full"])
    /\ UNCHANGED editor

(* An editor that dies in the middle of a save.                              *)
AbandonWrite ==
    /\ editor
    /\ editor' = FALSE
    /\ UNCHANGED <<disk, signaled, recorded, watcher, stop, dirty, host,
                   applied, pathKnown, missed>>

Edit ==
    \/ \E v \in Versions : BeginWrite(v) \/ ReplaceFile(v)
    \/ WriteHead
    \/ FinishWrite
    \/ AbandonWrite

-----------------------------------------------------------------------------
(* The watcher thread.                                                       *)

(* WaitForMultipleObjects reports the lowest signalled index: hStopEvent     *)
(* goes before the notification.                                             *)
WatcherExit ==
    /\ watcher = "waiting"
    /\ stop
    /\ watcher' = "none"
    /\ UNCHANGED <<disk, editor, signaled, recorded, stop, dirty, host,
                   applied, pathKnown, missed>>

\* Variant: the notification is served although hStopEvent is set.
WatcherWakeFirst ==
    /\ watcher = "waiting"
    /\ signaled
    /\ watcher' = "debounce"
    /\ UNCHANGED <<disk, editor, signaled, recorded, stop, dirty, host,
                   applied, pathKnown, missed>>

WatcherWake ==
    /\ watcher = "waiting"
    /\ ~stop
    /\ signaled
    /\ watcher' = "debounce"
    /\ UNCHANGED <<disk, editor, signaled, recorded, stop, dirty, host,
                   applied, pathKnown, missed>>

(* After Sleep(200), whether or not the editor is done: self->dirty = true.  *)
WatcherMark ==
    /\ watcher = "debounce"
    /\ dirty' = TRUE
    /\ watcher' = "rearm"
    /\ UNCHANGED <<disk, editor, signaled, recorded, stop, host, applied,
                   pathKnown, missed>>

\* Variant: a new registration instead of FindNextChangeNotification.
WatcherRearmForgets ==
    /\ watcher = "rearm"
    /\ signaled' = FALSE
    /\ recorded' = FALSE
    /\ watcher' = "waiting"
    /\ UNCHANGED <<disk, editor, stop, dirty, host, applied, pathKnown,
                   missed>>

(* FindNextChangeNotification: a change recorded meanwhile satisfies the     *)
(* next wait at once.                                                        *)
WatcherRearm ==
    /\ watcher = "rearm"
    /\ signaled' = recorded
    /\ recorded' = FALSE
    /\ watcher' = "waiting"
    /\ UNCHANGED <<disk, editor, stop, dirty, host, applied, pathKnown,
                   missed>>

WatcherRearmFails ==
    /\ WatchMayFail
    /\ watcher = "rearm"
    /\ watcher' = "none"
    /\ UNCHANGED <<disk, editor, signaled, recorded, stop, dirty, host,
                   applied, pathKnown, missed>>

WatcherThread ==
    WatcherExit \/ WatcherWake \/ WatcherMark \/ WatcherRearm

-----------------------------------------------------------------------------
(* The simulator's thread.                                                   *)

(* LoadConfigFile at Startup or at a reload.                                 *)
LoadConfigFile ==
    /\ applied' = Load(disk, applied)
    /\ pathKnown' = (pathKnown \/ disk.part # "absent")

(* Startup up to the watcher: a disabled configuration ends it here.         *)
StartupLoad ==
    /\ host = "down"
    /\ LoadConfigFile
    /\ host' = IF StartupEnabled(applied') THEN "starting" ELSE "down"
    /\ missed' = FALSE
    /\ UNCHANGED <<disk, editor, signaled, recorded, watcher, stop, dirty>>

(* configWatcher.Start: a fresh notification, dirty cleared, a new thread.   *)
StartupWatch ==
    /\ host = "starting"
    /\ pathKnown
    /\ host' = "up"
    /\ watcher' = "waiting"
    /\ signaled' = FALSE
    /\ recorded' = FALSE
    /\ stop' = FALSE
    /\ dirty' = FALSE
    /\ UNCHANGED <<disk, editor, applied, pathKnown, missed>>

(* No file was found, so nothing is watched; or Start could not create the   *)
(* notification or the thread.  Startup goes on without a watcher.           *)
StartupNoWatch ==
    /\ host = "starting"
    /\ ~pathKnown \/ WatchMayFail
    /\ host' = "up"
    /\ UNCHANGED <<disk, editor, signaled, recorded, watcher, stop, dirty,
                   applied, pathKnown, missed>>

(* UpdateScoring, called only while the plugin wants scoring, first tests    *)
(* and clears the flag (CheckAndClearDirty) ...                              *)
CheckAndClearDirty ==
    /\ host = "up"
    /\ WantsScoringUpdates(applied)
    /\ dirty
    /\ dirty' = FALSE
    /\ host' = "reloading"
    /\ UNCHANGED <<disk, editor, signaled, recorded, watcher, stop, applied,
                   pathKnown, missed>>

(* ... and then reads the file.                                              *)
Reload ==
    /\ host = "reloading"
    /\ LoadConfigFile
    /\ host' = "up"
    /\ missed' = (missed /\ ~Readable(disk))
    /\ UNCHANGED <<disk, editor, signaled, recorded, watcher, stop, dirty>>

(* Shutdown: ConfigFileWatcher.Stop sets hStopEvent and waits for the thread *)
(* (at most 2 s, ten times the debounce), then the sockets are closed.       *)
ShutdownStop ==
    /\ host = "up"
    /\ stop' = TRUE
    /\ host' = "stopping"
    /\ UNCHANGED <<disk, editor, signaled, recorded, watcher, dirty, applied,
                   pathKnown, missed>>

ShutdownJoin ==
    /\ host = "stopping"
    /\ watcher = "none"
    /\ host' = "down"
    /\ UNCHANGED <<disk, editor, signaled, recorded, watcher, stop, dirty,
                   applied, pathKnown, missed>>

Next ==
    \/ Edit
    \/ WatcherThread
    \/ WatcherRearmFails
    \/ StartupLoad
    \/ StartupWatch
    \/ StartupNoWatch
    \/ CheckAndClearDirty
    \/ Reload
    \/ ShutdownStop
    \/ ShutdownJoin

(* The file is there, or is not there yet; the plugin object is constructed  *)
(* (InitDefaults) and Startup has not run.                                   *)
Init ==
    /\ disk \in [ver : {FirstVersion}, part : {"absent", "full"}]
    /\ editor = FALSE
    /\ signaled = FALSE
    /\ recorded = FALSE
    /\ watcher = "none"
    /\ stop = FALSE
    /\ dirty = FALSE
    /\ host = "down"
    /\ applied = [ver |-> FirstVersion, part |-> "defaults"]
    /\ pathKnown = FALSE
    /\ missed = FALSE

(* The threads run: the watcher is a live thread, and a session in progress  *)
(* calls UpdateScoring again and again as long as the plugin wants it.  No   *)
(* fairness is assumed of editors, of Startup or of Shutdown's beginning.    *)
Fairness ==
    /\ WF_vars(WatcherThread)
    /\ WF_vars(StartupWatch \/ StartupNoWatch)
    /\ WF_vars(CheckAndClearDirty)
    /\ WF_vars(Reload)
    /\ WF_vars(ShutdownJoin)

Spec == Init /\ [][Next]_vars

FairSpec == Spec /\ Fairness

-----------------------------------------------------------------------------
(* Properties.                                                               *)

Watching == host \in {"up", "reloading"} /\ watcher # "none"

(* Something will still make the plugin read the file again.                 *)
NoticePending ==
    \/ host = "reloading"
    \/ dirty
    \/ watcher = "debounce"
    \/ watcher = "waiting" /\ signaled
    \/ watcher = "rearm" /\ recorded

Stale == Readable(disk) /\ applied # disk

(* No save is lost between the editor, the OS, the watcher thread and the    *)
(* simulator's thread: while the watcher lives, a plugin that runs with      *)
(* anything but the file's content has a notice on its way.  Excepted is a   *)
(* save that fell between Startup's read and the start of the watch.         *)
NoLostUpdate == Watching /\ ~missed /\ Stale => NoticePending

(* Once editors leave the file alone, the plugin ends up running with it, as *)
(* long as it watches, wants scoring and missed no save while starting.      *)
Convergence ==
    <>[][~Edit]_vars =>
        <>[](Watching /\ ~missed /\ WantsScoringUpdates(applied) => ~Stale)

(* Shutdown's wait for the watcher thread ends although editors keep saving. *)
ShutdownEnds == host = "stopping" ~> host = "down"

(* What the README says of a running simulator: a change of the file is      *)
(* detected and applied without a restart, whatever the change asks for,     *)
(* also when it turns the scoring streams off.                               *)
AppliedWithoutScoring ==
    <>[][~Edit]_vars => <>[](Watching /\ ~missed => ~Stale)

=============================================================================
