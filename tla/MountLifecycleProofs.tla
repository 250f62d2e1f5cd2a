------------------------ MODULE MountLifecycleProofs ------------------------
(***************************************************************************)
(* Machine-checked proofs about MountLifecycle: for every behaviour, of    *)
(* any number of starts, signals and crashes, with AutoUnmount or without. *)
(***************************************************************************)
EXTENDS MountLifecycle, TLAPS

USE DEF Phase, Hook

\* A start that came to its end before the signal has mounted the path, and
\* after the hook's unmount there is a mount only if that unmount failed:
\* nothing mounts any more.
MountInv ==
    /\ signal # "down"
    /\ start \in {"sources", "listening"} /\ signal = "none" => path = "mounted"
    /\ signal \in {"sources", "listening"} =>
          /\ start \in {"sources", "listening"}
          /\ fsHook \in {"rm", "mkdir", "done"} /\ path = "mounted" => mountLeft

LEMMA StartStepKeeps ==
    ASSUME TypeOK, MountInv, StartStep
    PROVE  TypeOK' /\ MountInv'
<1>1. CASE RemoveOld \/ MakeNew \/ UnmountOld
  BY <1>1 DEF TypeOK, MountInv, RemoveOld, MakeNew, UnmountOld, Removed, Made, Unmounted,
              StartAt, shutdownVars
<1>2. CASE Mount \/ Listen
  BY <1>2 DEF TypeOK, MountInv, Mount, Listen, StartAt, shutdownVars
<1>3. CASE MountFails
  BY <1>3 DEF TypeOK, MountInv, MountFails, ProcessEnds
<1>4. QED
  BY <1>1, <1>2, <1>3 DEF StartStep

LEMMA HookStepKeeps ==
    ASSUME TypeOK, MountInv, HookStep
    PROVE  TypeOK' /\ MountInv'
<1>1. CASE HttpClosed
  BY <1>1 DEF TypeOK, MountInv, HttpClosed, HookAt
<1>2. CASE HookUnmounts
  <2>1. mountLeft' \in BOOLEAN /\ (path' = "mounted" => mountLeft')
    <3>1. mountLeft' = (path' \in {"mounted", "stale"})
      BY <1>2 DEF HookUnmounts
    <3>2. CASE path' \in {"mounted", "stale"}
      BY <3>1, <3>2
    <3>3. CASE path' \notin {"mounted", "stale"}
      BY <3>1, <3>3
    <3>4. QED
      BY <3>2, <3>3
  <2>2. /\ fsHook = "unmount" /\ fsHook' = "rm"
        /\ path' \in {path, "dir"}
        /\ UNCHANGED <<start, signal, dashboard, client>>
    BY <1>2 DEF HookUnmounts, Unmounted, HookAt
  <2>3. QED
    BY <2>1, <2>2 DEF TypeOK, MountInv
<1>3. CASE HookRemoves \/ HookMakes
  BY <1>3 DEF TypeOK, MountInv, HookRemoves, HookMakes, Removed, Made, HookAt
<1>4. QED
  BY <1>1, <1>2, <1>3 DEF HookStep

LEMMA OtherStepKeeps ==
    ASSUME TypeOK, MountInv, Run \/ OpenDashboard \/ CloseDashboard \/ Signal \/ ClientDestroyed
    PROVE  TypeOK' /\ MountInv'
<1>1. CASE Run \/ OpenDashboard \/ CloseDashboard
  BY <1>1 DEF TypeOK, MountInv, Run, StartAt, OpenDashboard, CloseDashboard, shutdownVars
<1>2. CASE Signal \/ ClientDestroyed
  BY <1>2 DEF TypeOK, MountInv, Signal, ClientDestroyed
<1>3. QED
  BY <1>1, <1>2

LEMMA EndKeeps ==
    ASSUME TypeOK, MountInv, ProcessEnds
    PROVE  TypeOK' /\ MountInv'
  BY DEF TypeOK, MountInv, ProcessEnds

\* All the theorems below are about this invariant.
THEOREM Invariant == Spec => [](TypeOK /\ MountInv)
<1>1. Init => TypeOK /\ MountInv
  BY DEF Init, TypeOK, MountInv
<1>2. TypeOK /\ MountInv /\ [Next]_vars => (TypeOK /\ MountInv)'
  <2> SUFFICES ASSUME TypeOK, MountInv, [Next]_vars PROVE TypeOK' /\ MountInv'
    OBVIOUS
  <2>1. CASE UNCHANGED vars
    BY <2>1 DEF vars, TypeOK, MountInv
  <2>2. CASE Killed \/ ReadTooLate \/ Crash
    BY <2>2, EndKeeps DEF Killed, ReadTooLate, Crash
  <2>3. QED
    BY <2>1, <2>2, StartStepKeeps, HookStepKeeps, OtherStepKeeps DEF Next
<1>3. QED
  BY <1>1, <1>2, PTL DEF Spec

\* Path, phases, hook and client keep their types, and both shutdown hooks
\* begin together (StreamarrFsService, WebTorrentService).
THEOREM TypeCorrect == Spec => []TypeOK
  BY Invariant, PTL

\* A server that listens and is not being stopped has its file system mounted,
\* although rm, mkdir and unmount may have failed before (onModuleInit).
THEOREM MountedWhileListening == Spec => []ListeningIsMounted
<1>1. MountInv => ListeningIsMounted
  BY DEF MountInv, ListeningIsMounted
<1>2. QED
  BY <1>1, Invariant, PTL

\* A process that kills itself after both shutdown hooks leaves a mount behind
\* only if its own unmount failed or the signal came before it mounted
\* (onApplicationShutdown).
THEOREM NoMountLeft == Spec => StopLeavesNoMount
<1>1. TypeOK /\ MountInv /\ [Next]_vars =>
          [Killed /\ path = "mounted" =>
              mountLeft \/ signal \in {"rm", "mkdir", "unmount", "mount"}]_vars
  BY DEF TypeOK, MountInv, Killed
<1>2. QED
  BY <1>1, Invariant, PTL DEF Spec, StopLeavesNoMount
=============================================================================
