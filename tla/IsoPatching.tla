----------------------------- MODULE IsoPatching -----------------------------
(***************************************************************************)
(* Making the patched ISO and closing the client (client.py::              *)
(* patch_and_run_game, /export_iso, _shutdown and the exit watchdog, and   *)
(* patcher_runner.patch_iso_with_ap).                                      *)
(*                                                                         *)
(* The ISO is trusted when a file is there, so a file must never be there  *)
(* half-written once its writer is gone.  The writer is a thread; the      *)
(* coroutine that awaits it can be cancelled, the thread cannot; and the   *)
(* watchdog ends the process whatever its threads do, unless a flag says   *)
(* that a patch is running.                                                *)
(***************************************************************************)
EXTENDS FiniteSets

CONSTANT Jobs   \* bound: patch_and_run_game calls, over all sessions of the client

VARIABLES
  client,     \* "running", "closing" (the window is closed) or "gone"
  watchdog,   \* the exit timer: "off", "armed" or "spent"
  stray,      \* a thread hangs in a native call
  connected,  \* connection_state is not DISCONNECTED
  job,        \* where each patch_and_run_game stands
  thread,     \* where its patch thread stands
  patching,   \* _iso_patch_running
  exists,     \* there is a file at the output path
  writers,    \* the threads writing that file
  broken,     \* one of its writers was killed
  (* history *)
  launched,   \* the emulator was last started with a whole ISO
  doubled,    \* /export_iso was given while a patch was running
  killed      \* the process was ended, by the watchdog or from outside, during a write

fileVars    == <<exists, writers, broken>>
processVars == <<client, watchdog, stray>>
history     == <<launched, doubled, killed>>
vars == <<processVars, connected, job, thread, patching, fileVars, history>>

JobStages    == {"none", "begin", "await", "launch", "ended"}
ThreadStages == {"none", "begin", "work", "write", "done", "failed"}
Running(t)   == thread[t] \in {"begin", "work", "write"}
Busy(t)      == job[t] \in {"begin", "await", "launch"}
Whole        == exists /\ writers = {} /\ ~broken

Init ==
  /\ client = "gone"
  /\ watchdog = "off"
  /\ stray = FALSE
  /\ connected = FALSE
  /\ job = [t \in Jobs |-> "none"]
  /\ thread = [t \in Jobs |-> "none"]
  /\ patching = FALSE
  /\ exists = FALSE
  /\ writers = {}
  /\ broken = FALSE
  /\ launched = TRUE
  /\ doubled = FALSE
  /\ killed = FALSE
-----------------------------------------------------------------------------
(* The process.                                                            *)

\* dolphin_sync_task starts the first job of a session.
StartClient(t) ==
  /\ client = "gone"
  /\ job[t] = "none"
  /\ client' = "running"
  /\ watchdog' = "off"
  /\ job' = [job EXCEPT ![t] = "begin"]
  /\ UNCHANGED <<stray, connected, thread, patching, fileVars, history>>

\* _cmd_export_iso
ExportIso(t) ==
  /\ client = "running"
  /\ job[t] = "none"
  /\ ~connected
  /\ doubled' = (doubled \/ \E u \in Jobs : Busy(u))
  /\ exists' = FALSE
  /\ writers' = {}
  /\ broken' = FALSE
  /\ job' = [job EXCEPT ![t] = "begin"]
  /\ UNCHANGED <<processVars, connected, thread, patching, launched, killed>>

\* The sync task notices a game, or its end.
ConnectionChanges ==
  /\ client = "running"
  /\ connected' = ~connected
  /\ UNCHANGED <<processVars, job, thread, patching, fileVars, history>>

\* The window is closed: _shutdown is bounded in time, then the watchdog is armed.
CloseWindow ==
  /\ client = "running"
  /\ client' = "closing"
  /\ watchdog' = "armed"
  /\ stray' \in BOOLEAN
  /\ connected' = FALSE
  /\ UNCHANGED <<job, thread, patching, fileVars, history>>

CancelJobKeepsFlag(t) ==   \* mutant: only the thread clears the flag
  /\ client = "closing"
  /\ job[t] \notin {"none", "ended"}
  /\ job' = [job EXCEPT ![t] = "ended"]
  /\ UNCHANGED <<processVars, connected, thread, patching, fileVars, history>>

\* asyncio.run cancels what is left.  The finally of patch_and_run_game clears
\* the flag, and the thread goes on.
CancelJob(t) ==
  /\ client = "closing"
  /\ job[t] \notin {"none", "ended"}
  /\ job' = [job EXCEPT ![t] = "ended"]
  /\ patching' = (patching /\ job[t] # "await")
  /\ UNCHANGED <<processVars, connected, thread, fileVars, history>>

Cancelled == \A t \in Jobs : job[t] \in {"none", "ended"}

\* What dies with the process.
ProcessEnds ==
  /\ client' = "gone"
  /\ stray' = FALSE
  /\ patching' = FALSE
  /\ broken' = (broken \/ writers # {})
  /\ writers' = {}
  /\ job' = [t \in Jobs |-> IF Busy(t) THEN "ended" ELSE job[t]]
  /\ thread' = [t \in Jobs |-> IF Running(t) THEN "failed" ELSE thread[t]]
  /\ connected' = FALSE
  /\ killed' = (killed \/ writers # {})
  /\ UNCHANGED <<exists, launched, doubled>>

\* asyncio.run joins the executor's threads before the process exits.
Exit ==
  /\ client = "closing"
  /\ Cancelled
  /\ ~stray
  /\ \A t \in Jobs : ~Running(t)
  /\ ProcessEnds
  /\ UNCHANGED watchdog

\* The process crashes or is killed from outside, whatever it is doing.
Crash ==
  /\ client # "gone"
  /\ ProcessEnds
  /\ watchdog' = "off"

\* force_exit, long after every job was cancelled.
Watchdog ==
  /\ client = "closing"
  /\ watchdog = "armed"
  /\ Cancelled
  /\ watchdog' = "spent"
  /\ IF patching
     THEN UNCHANGED <<client, stray, connected, job, thread, patching, fileVars, history>>
     ELSE ProcessEnds
-----------------------------------------------------------------------------
(* patch_and_run_game.                                                     *)

\* A file at the output path is taken for the patched ISO.
CheckExists(t) ==
  /\ job[t] = "begin"
  /\ client = "running"
  /\ IF exists
     THEN /\ job' = [job EXCEPT ![t] = "launch"]
          /\ UNCHANGED <<thread, patching>>
     ELSE /\ job' = [job EXCEPT ![t] = "await"]
          /\ thread' = [thread EXCEPT ![t] = "begin"]
          /\ patching' = TRUE
  /\ UNCHANGED <<processVars, connected, fileVars, history>>

PatchReturns(t) ==
  /\ job[t] = "await"
  /\ client = "running"
  /\ thread[t] \in {"done", "failed"}
  /\ patching' = FALSE
  /\ job' = [job EXCEPT ![t] = IF thread[t] = "done" THEN "launch" ELSE "ended"]
  /\ UNCHANGED <<processVars, connected, thread, fileVars, history>>

\* run_game
Launch(t) ==
  /\ job[t] = "launch"
  /\ client = "running"
  /\ launched' = Whole
  /\ job' = [job EXCEPT ![t] = "ended"]
  /\ UNCHANGED <<processVars, connected, thread, patching, fileVars, doubled, killed>>
-----------------------------------------------------------------------------
(* patch_iso_with_ap, in its thread.                                       *)

ThreadBegins(t) ==
  /\ thread[t] = "begin"
  /\ thread' = [thread EXCEPT ![t] = IF exists THEN "done" ELSE "work"]
  /\ UNCHANGED <<processVars, connected, job, patching, fileVars, history>>

\* output.commit truncates or creates the file.
OpenOutput(t) ==
  /\ thread[t] = "work"
  /\ thread' = [thread EXCEPT ![t] = "write"]
  /\ writers' = writers \cup {t}
  /\ exists' = TRUE
  /\ broken' = FALSE
  /\ UNCHANGED <<processVars, connected, job, patching, history>>

FinishWritingOpen(t) ==   \* mutant: reports before the file is closed
  /\ thread[t] = "write"
  /\ thread' = [thread EXCEPT ![t] = "done"]
  /\ UNCHANGED <<processVars, connected, job, patching, fileVars, history>>

FinishWriting(t) ==
  /\ thread[t] = "write"
  /\ thread' = [thread EXCEPT ![t] = "done"]
  /\ writers' = writers \ {t}
  /\ UNCHANGED <<processVars, connected, job, patching, exists, broken, history>>

PatchFailsDirty(t) ==   \* mutant: leaves what it has written
  /\ thread[t] \in {"begin", "work", "write"}
  /\ thread' = [thread EXCEPT ![t] = "failed"]
  /\ writers' = writers \ {t}
  /\ broken' = (broken \/ t \in writers)
  /\ UNCHANGED <<processVars, connected, job, patching, exists, history>>

\* An error; from the patching proper on, the output file is removed.
PatchFails(t) ==
  /\ Running(t)
  /\ thread' = [thread EXCEPT ![t] = "failed"]
  /\ IF thread[t] = "begin"
     THEN UNCHANGED fileVars
     ELSE exists' = FALSE /\ writers' = {} /\ broken' = FALSE
  /\ UNCHANGED <<processVars, connected, job, patching, history>>
-----------------------------------------------------------------------------
Coroutine(t) == CheckExists(t) \/ PatchReturns(t) \/ Launch(t) \/ CancelJob(t)
Thread(t)    == ThreadBegins(t) \/ OpenOutput(t) \/ FinishWriting(t) \/ PatchFails(t)
Ends == Exit \/ Watchdog \/ \E t \in Jobs : Thread(t) \/ CancelJob(t)

Next ==
  \/ \E t \in Jobs : StartClient(t) \/ ExportIso(t) \/ Coroutine(t) \/ Thread(t)
  \/ ConnectionChanges \/ CloseWindow \/ Exit \/ Watchdog \/ Crash

Spec == Init /\ [][Next]_vars
-----------------------------------------------------------------------------
(* Properties.                                                             *)

TypeOK ==
  /\ client \in {"running", "closing", "gone"}
  /\ watchdog \in {"off", "armed", "spent"}
  /\ stray \in BOOLEAN /\ connected \in BOOLEAN /\ patching \in BOOLEAN
  /\ job \in [Jobs -> JobStages]
  /\ thread \in [Jobs -> ThreadStages]
  /\ exists \in BOOLEAN /\ broken \in BOOLEAN /\ launched \in BOOLEAN
  /\ doubled \in BOOLEAN /\ killed \in BOOLEAN
  /\ writers \subseteq {t \in Jobs : thread[t] = "write"}

\* The emulator is only ever started with a complete ISO, although jobs fail, the
\* window is closed in the middle of them, and later sessions trust what is there;
\* unless /export_iso was given during a patch, or the process was ended, by the
\* watchdog or from outside, while one was being written.
LaunchWhole == launched \/ doubled \/ killed

\* client.py: the watchdog is "skipped while an ISO patch is writing -- a hard exit
\* then would leave a partial output ISO that patch_and_run_game would trust".
WatchdogSparesPatch == [][Watchdog /\ client' = "gone" => writers = {}]_vars

\* A closed window always becomes an ended process, even when a thread hangs.
ClosedClientExits == []<>(client # "closing")
=============================================================================
