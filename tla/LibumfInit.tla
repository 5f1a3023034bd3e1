----------------------------- MODULE LibumfInit -----------------------------
(***************************************************************************)
(* Library initialization on Windows, src/src/libumf_windows.c, in both    *)
(* builds.  The shared library calls umfInit from DllMain when the process *)
(* attaches and umfTearDown when it detaches; libumfInit does nothing.     *)
(* The static library runs initOnceCb under InitOnceExecuteOnce on the    *)
(* first libumfInit: it calls umfInit and registers umfTearDownWrapper     *)
(* with atexit, and returns TRUE only if umfInit succeeded.                *)
(*                                                                         *)
(* umfInit, umfTearDown, atexit and the INIT_ONCE object are not code of   *)
(* this file: umfInit succeeds or (with Failures) fails; the INIT_ONCE     *)
(* object runs one callback at a time, makes other callers wait for it,   *)
(* stays done once a callback returned TRUE and is uninitialised again    *)
(* after a callback returned FALSE, so that the next caller runs it anew;  *)
(* the process runs every atexit handler, or detaches the DLL, when it     *)
(* exits after its threads have returned.                                  *)
(***************************************************************************)
EXTENDS Naturals

CONSTANTS
  Threads,        \* threads calling libumfInit
  MaxCalls,       \* bound on the calls of each thread
  Builds,         \* the values of UMF_SHARED_LIBRARY checked: the DLL build or not
  Failures        \* whether umfInit may fail

ASSUME MaxCalls \in Nat /\ Builds \subseteq BOOLEAN /\ Failures \in BOOLEAN

VARIABLES
  SharedLibrary, \* the build (fixed for a behaviour)
  phase,       \* the process: "loading" (DLL not yet attached), "running", "exited"
  pc,          \* per thread: "idle", "wait" (on the INIT_ONCE), "cb" (in initOnceCb)
  calls,       \* per thread: libumfInit calls returned
  once,        \* init_once_flag: "uninit", "busy", "done"
  inits,       \* umfInit calls made
  registered,  \* atexit registrations of umfTearDownWrapper
  teardowns    \* umfTearDown calls

vars == <<SharedLibrary, phase, pc, calls, once, inits, registered, teardowns>>

\* The results umfInit may return.
InitResults == IF Failures THEN {TRUE, FALSE} ELSE {TRUE}

\* The thread returns from libumfInit.
Return(t) ==
  /\ pc' = [pc EXCEPT ![t] = "idle"]
  /\ calls' = [calls EXCEPT ![t] = @ + 1]

-----------------------------------------------------------------------------
(* The shared library, lines 16-30.                                        *)

\* Lines 20-21, 25: DLL_PROCESS_ATTACH calls umfInit, ignores its result
\* and lets the load succeed.
DllAttach ==
  /\ SharedLibrary /\ phase = "loading"
  /\ phase' = "running"
  /\ inits' = inits + 1
  /\ UNCHANGED <<SharedLibrary, pc, calls, once, registered, teardowns>>

\* Lines 28-30: libumfInit does nothing.
DllLibumfInit(t) ==
  /\ SharedLibrary /\ phase = "running"
  /\ pc[t] = "idle" /\ calls[t] < MaxCalls
  /\ Return(t)
  /\ UNCHANGED <<SharedLibrary, phase, once, inits, registered, teardowns>>

-----------------------------------------------------------------------------
(* The static library, lines 34-51.                                        *)

\* Lines 49-51: InitOnceExecuteOnce returns at once when the object is
\* done, runs the callback when it is uninitialised, and waits while
\* another thread runs it.
LibumfInit(t) ==
  /\ ~SharedLibrary /\ phase = "running"
  /\ pc[t] = "idle" /\ calls[t] < MaxCalls
  /\ \/ once = "done" /\ Return(t) /\ UNCHANGED once
     \/ once = "uninit" /\ once' = "busy" /\ pc' = [pc EXCEPT ![t] = "cb"] /\ UNCHANGED calls
     \/ once = "busy" /\ pc' = [pc EXCEPT ![t] = "wait"] /\ UNCHANGED <<once, calls>>
  /\ UNCHANGED <<SharedLibrary, phase, inits, registered, teardowns>>

\* The waiting thread wakes when the callback has returned: it returns if
\* the object is done, and runs the callback itself if it failed.
OnceWake(t) ==
  /\ pc[t] = "wait" /\ once # "busy"
  /\ \/ once = "done" /\ Return(t) /\ UNCHANGED once
     \/ once = "uninit" /\ once' = "busy" /\ pc' = [pc EXCEPT ![t] = "cb"] /\ UNCHANGED calls
  /\ UNCHANGED <<SharedLibrary, phase, inits, registered, teardowns>>

initOnceCb(t) ==
  /\ pc[t] = "cb"
  /\ inits' = inits + 1
  /\ \E ok \in InitResults : once' = IF ok THEN "done" ELSE "uninit"
  /\ registered' = registered + 1
  /\ Return(t)
  /\ UNCHANGED <<SharedLibrary, phase, teardowns>>

-----------------------------------------------------------------------------
(* Process exit, after every thread has returned: DLL_PROCESS_DETACH      *)
(* calls umfTearDown once (lines 22-23); the static build runs each        *)
(* registered umfTearDownWrapper (line 36).                               *)
ProcessExit ==
  /\ phase = "running" /\ \A t \in Threads : pc[t] = "idle"
  /\ phase' = "exited"
  /\ teardowns' = teardowns + IF SharedLibrary THEN 1 ELSE registered
  /\ UNCHANGED <<SharedLibrary, pc, calls, once, inits, registered>>

Init ==
  /\ SharedLibrary \in Builds
  /\ phase = IF SharedLibrary THEN "loading" ELSE "running"
  /\ pc = [t \in Threads |-> "idle"]
  /\ calls = [t \in Threads |-> 0]
  /\ once = "uninit"
  /\ inits = 0 /\ registered = 0 /\ teardowns = 0

Next ==
  \/ DllAttach
  \/ \E t \in Threads : DllLibumfInit(t)
  \/ \E t \in Threads : LibumfInit(t)
  \/ \E t \in Threads : OnceWake(t)
  \/ \E t \in Threads : initOnceCb(t)
  \/ ProcessExit

Spec == Init /\ [][Next]_vars

-----------------------------------------------------------------------------
(* Properties.                                                             *)

=============================================================================
