------------------------ MODULE ConfigReload_proofs -------------------------
(***************************************************************************)
(* Proofs about ConfigReload, for every set of configuration versions.     *)
(*                                                                         *)
(* NoLostUpdate is not inductive: at FindNextChangeNotification the        *)
(* recorded change becomes the signal, and before that a change is         *)
(* recorded only because the handle is still signalled.  HandleInv states  *)
(* how the handle and the thread's position agree.                         *)
(***************************************************************************)
EXTENDS ConfigReload, TLAPS

(* A change is only ever recorded behind a signalled handle, and the thread  *)
(* leaves its wait for the notification only when the handle is signalled.   *)
HandleInv ==
    /\ recorded => signaled
    /\ watcher \in {"debounce", "rearm"} => signaled

(* Until the watch begins no watcher thread lives, and unless a write was    *)
(* missed the plugin still holds what the file holds.                        *)
StartInv ==
    /\ host \in {"down", "starting"} => watcher = "none"
    /\ host = "starting" /\ ~missed => ~Stale

IInv == TypeOK /\ HandleInv /\ StartInv /\ NoLostUpdate

-----------------------------------------------------------------------------

LEMMA EditNext ==
    Edit => /\ UNCHANGED <<watcher, stop, dirty, host, applied, pathKnown>>
            /\ \/ Notify
               \/ UNCHANGED <<disk, signaled, recorded, missed>>
  BY DEF Edit, BeginWrite, WriteHead, FinishWrite, ReplaceFile, AbandonWrite,
         WriteDisk

LEMMA LoadType ==
    ASSUME TypeOK
    PROVE  Load(disk, applied) \in Applied
  BY DEF TypeOK, Content, Part, Applied, Load, Readable

LEMMA TypeInit == Init => TypeOK
<1> SUFFICES ASSUME Init PROVE TypeOK
  OBVIOUS
<1>1. disk \in Content
  BY ConstantsAssumption DEF Init, Content, Part
<1>2. applied \in Applied
  BY ConstantsAssumption DEF Init, Applied
<1>. QED  BY <1>1, <1>2 DEF Init, TypeOK, Host, Watcher

LEMMA TypeNext == TypeOK /\ [Next]_vars => TypeOK'
<1> SUFFICES ASSUME TypeOK, [Next]_vars PROVE TypeOK'
  OBVIOUS
<1> USE DEF TypeOK
<1>1. CASE Edit
  <2>1. disk' \in Content
    <3>1. ASSUME NEW v \in Versions, BeginWrite(v) \/ ReplaceFile(v)
          PROVE  disk' \in Content
      BY <3>1 DEF BeginWrite, ReplaceFile, WriteDisk, Content, Part
    <3>2. CASE WriteHead \/ FinishWrite
      BY <3>2 DEF WriteHead, FinishWrite, WriteDisk, Content, Part
    <3>3. CASE AbandonWrite
      BY <3>3 DEF AbandonWrite
    <3>. QED  BY <1>1, <3>1, <3>2, <3>3 DEF Edit
  <2>. editor' \in BOOLEAN
    BY <1>1 DEF Edit, BeginWrite, WriteHead, FinishWrite, ReplaceFile,
                AbandonWrite
  <2>2. /\ signaled' \in BOOLEAN
        /\ recorded' \in BOOLEAN
        /\ missed' \in BOOLEAN
    BY <1>1, EditNext DEF Notify
  <2>. QED  BY <1>1, <2>1, <2>2, EditNext
<1>2. CASE WatcherThread
  BY <1>2 DEF WatcherThread, WatcherExit, WatcherWake, WatcherMark,
              WatcherRearm, Watcher
<1>3. CASE WatcherRearmFails
  BY <1>3 DEF WatcherRearmFails, Watcher
<1>4. CASE StartupLoad
  BY <1>4, LoadType DEF StartupLoad, LoadConfigFile, Host
<1>5. CASE StartupWatch \/ StartupNoWatch
  BY <1>5 DEF StartupWatch, StartupNoWatch, Host, Watcher
<1>6. CASE CheckAndClearDirty
  BY <1>6 DEF CheckAndClearDirty, Host
<1>7. CASE Reload
  BY <1>7, LoadType DEF Reload, LoadConfigFile, Host
<1>8. CASE ShutdownStop \/ ShutdownJoin
  BY <1>8 DEF ShutdownStop, ShutdownJoin, Host
<1>9. CASE UNCHANGED vars
  BY <1>9 DEF vars
<1>. QED
  BY <1>1, <1>2, <1>3, <1>4, <1>5, <1>6, <1>7, <1>8, <1>9 DEF Next

(* The variables keep their types, whatever the versions are.                *)
THEOREM TypeCorrect == Spec => []TypeOK
<1>. QED  BY TypeInit, TypeNext, PTL DEF Spec

-----------------------------------------------------------------------------

LEMMA InvInit == Init => IInv
<1>1. Init => HandleInv /\ StartInv /\ NoLostUpdate
  BY DEF Init, HandleInv, StartInv, NoLostUpdate, Watching
<1>. QED  BY <1>1, TypeInit DEF IInv

(* After a read of the file nothing is stale: either it was readable, and    *)
(* config is what it holds, or there was nothing to read.                    *)
LEMMA LoadFresh ==
    ASSUME LoadConfigFile, disk' = disk
    PROVE  ~Stale'
  BY DEF LoadConfigFile, Load, Stale, Readable

LEMMA HandleNext == TypeOK /\ HandleInv /\ [Next]_vars => HandleInv'
<1> SUFFICES ASSUME TypeOK, HandleInv, [Next]_vars PROVE HandleInv'
  OBVIOUS
<1> USE DEF HandleInv
<1>1. CASE Edit
  BY <1>1, EditNext DEF Notify
<1>2. CASE WatcherThread
  BY <1>2 DEF WatcherThread, WatcherExit, WatcherWake, WatcherMark,
              WatcherRearm
<1>3. CASE WatcherRearmFails
  BY <1>3 DEF WatcherRearmFails
<1>4. CASE StartupLoad \/ Reload
  BY <1>4 DEF StartupLoad, Reload
<1>5. CASE StartupWatch \/ StartupNoWatch
  BY <1>5 DEF StartupWatch, StartupNoWatch
<1>6. CASE CheckAndClearDirty
  BY <1>6 DEF CheckAndClearDirty
<1>7. CASE ShutdownStop \/ ShutdownJoin
  BY <1>7 DEF ShutdownStop, ShutdownJoin
<1>8. CASE UNCHANGED vars
  BY <1>8 DEF vars
<1>. QED
  BY <1>1, <1>2, <1>3, <1>4, <1>5, <1>6, <1>7, <1>8 DEF Next

LEMMA StartNext == TypeOK /\ StartInv /\ [Next]_vars => StartInv'
<1> SUFFICES ASSUME TypeOK, StartInv, [Next]_vars PROVE StartInv'
  OBVIOUS
<1> USE DEF StartInv
<1>1. CASE Edit
  BY <1>1, EditNext DEF Notify, Stale
<1>2. CASE WatcherThread
  BY <1>2 DEF WatcherThread, WatcherExit, WatcherWake, WatcherMark,
              WatcherRearm, Stale
<1>3. CASE WatcherRearmFails
  BY <1>3 DEF WatcherRearmFails, Stale
<1>4. CASE StartupLoad
  BY <1>4, LoadFresh DEF StartupLoad
<1>5. CASE Reload
  BY <1>5 DEF Reload
<1>6. CASE StartupWatch \/ StartupNoWatch
  BY <1>6 DEF StartupWatch, StartupNoWatch
<1>7. CASE CheckAndClearDirty
  BY <1>7 DEF CheckAndClearDirty
<1>8. CASE ShutdownStop \/ ShutdownJoin
  BY <1>8 DEF ShutdownStop, ShutdownJoin
<1>9. CASE UNCHANGED vars
  BY <1>9 DEF vars, Stale
<1>. QED
  BY <1>1, <1>2, <1>3, <1>4, <1>5, <1>6, <1>7, <1>8, <1>9 DEF Next

LEMMA LostNext == IInv /\ [Next]_vars => NoLostUpdate'
<1> SUFFICES ASSUME TypeOK, HandleInv, StartInv, NoLostUpdate,
                    [Next]_vars,
                    Watching', ~missed', Stale'
             PROVE  NoticePending'
  BY DEF IInv, NoLostUpdate
<1>1. CASE Edit
  <2>1. CASE Notify
    <3>1. watcher # "none"
      BY <1>1, EditNext DEF Watching
    <3>2. signaled' /\ (watcher = "rearm" => recorded')
      BY <2>1, <3>1 DEF Notify, HandleInv
    <3>. QED
      BY <1>1, <3>1, <3>2, EditNext DEF NoticePending, TypeOK, Watcher
  <2>2. CASE UNCHANGED <<disk, signaled, recorded, missed>>
    BY <1>1, <2>2, EditNext
    DEF NoLostUpdate, Watching, Stale, NoticePending
  <2>. QED  BY <1>1, <2>1, <2>2, EditNext
<1>2. CASE WatcherThread
  <2>1. UNCHANGED <<disk, host, applied, missed>>
    BY <1>2 DEF WatcherThread, WatcherExit, WatcherWake, WatcherMark,
                WatcherRearm
  <2>2. watcher # "none"
    BY <1>2 DEF WatcherThread, WatcherExit, WatcherWake, WatcherMark,
                WatcherRearm
  <2>3. NoticePending
    BY <2>1, <2>2 DEF NoLostUpdate, Watching, Stale
  <2>. QED
    BY <1>2, <2>1, <2>3
    DEF WatcherThread, WatcherExit, WatcherWake, WatcherMark, WatcherRearm,
        NoticePending, Watching
<1>3. CASE WatcherRearmFails
  BY <1>3 DEF WatcherRearmFails, Watching
<1>4. CASE StartupLoad
  BY <1>4 DEF StartupLoad, StartInv, Watching
<1>5. CASE StartupWatch
  \* The file read by StartupLoad has not changed since.
  BY <1>5 DEF StartupWatch, StartInv, Stale
<1>6. CASE StartupNoWatch
  BY <1>6 DEF StartupNoWatch, StartInv, Watching
<1>7. CASE CheckAndClearDirty
  BY <1>7 DEF CheckAndClearDirty, NoticePending
<1>8. CASE Reload
  BY <1>8, LoadFresh DEF Reload
<1>9. CASE ShutdownStop \/ ShutdownJoin
  BY <1>9 DEF ShutdownStop, ShutdownJoin, Watching
<1>10. CASE UNCHANGED vars
  BY <1>10 DEF vars, NoLostUpdate, Watching, Stale, NoticePending
<1>. QED
  BY <1>1, <1>2, <1>3, <1>4, <1>5, <1>6, <1>7, <1>8, <1>9, <1>10 DEF Next

LEMMA InvNext == IInv /\ [Next]_vars => IInv'
  BY TypeNext, HandleNext, StartNext, LostNext DEF IInv

(* No save is lost: while the watcher thread lives, either the plugin runs   *)
(* with the file's content or a notice that will make it read the file again *)
(* is under way, in every interleaving of editors, OS, watcher and           *)
(* simulator and for every set of contents.                                  *)
THEOREM SavesAreNotLost == Spec => []NoLostUpdate
<1>1. IInv => NoLostUpdate
  BY DEF IInv
<1>. QED  BY <1>1, InvInit, InvNext, PTL DEF Spec

=============================================================================
