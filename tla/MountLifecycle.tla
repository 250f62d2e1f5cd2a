--------------------------- MODULE MountLifecycle ---------------------------
(***************************************************************************)
(* How the process starts and stops: main.ts, the mounting of the file     *)
(* system by StreamarrFsService (onModuleInit, onApplicationShutdown) and  *)
(* the shutdown hook of WebTorrentService.                                 *)
(*                                                                         *)
(* A start wipes the mount path, unmounts what is mounted there, mounts,   *)
(* lets the sources do their part and listens.  On a signal, Nest closes   *)
(* the HTTP server, which waits for connections that are open, and runs    *)
(* the shutdown hooks of both services side by side, also while the start  *)
(* is still going on; then the process kills itself.  It can die at any    *)
(* time and be started again: only the mount path and the kernel remember. *)
(* rm, mkdir, unmount and mount may fail at any time; only the mount's     *)
(* error is heeded.                                                        *)
(*                                                                         *)
(* External: Nest, the HTTP server, rm, mkdir and fusermount -uz,          *)
(* webtorrent.  A mount whose process is gone is stale: every access fails *)
(* (ENOTCONN), rm and mounting included, until it is unmounted.            *)
(*                                                                         *)
(* The operators named Bug... are defects, as in TorrentClient.            *)
(***************************************************************************)

CONSTANT AutoUnmount  \* STREAMARRFS_FUSE_AUTO_UNMOUNT

ASSUME LifecycleAssumption == AutoUnmount \in BOOLEAN

VARIABLES
    path,    \* what is at the mount path
    start,   \* how far the start is
    signal,  \* how far the start was when the signal came, or "none"
    dashboard, \* whether a web page is open, with its endless event stream
    fsHook,  \* where onApplicationShutdown of StreamarrFsService is
    mountLeft, \* whether its unmount failed: a history variable
    client   \* the streaming client: "open", "closing" or "destroyed"

vars == <<path, start, signal, dashboard, fsHook, mountLeft, client>>

Phase == {"down", "rm", "mkdir", "unmount", "mount", "sources", "listening"}
Hook == {"off", "close", "unmount", "rm", "mkdir", "done"}

\* The types; both shutdown hooks run once the HTTP server is closed.
TypeOK ==
    /\ path \in {"absent", "dir", "mounted", "stale"}
    /\ start \in Phase
    /\ signal \in Phase \cup {"none"}
    /\ fsHook \in Hook
    /\ client \in {"open", "closing", "destroyed"}
    /\ dashboard \in BOOLEAN /\ mountLeft \in BOOLEAN
    /\ (signal = "none" <=> fsHook = "off") /\ (client = "open" <=> fsHook \in {"off", "close"})
    /\ start = "down" => signal = "none" /\ ~dashboard

Init ==
    /\ path \in {"absent", "dir", "stale"}
    /\ start = "down" /\ signal = "none" /\ dashboard = FALSE
    /\ fsHook = "off" /\ mountLeft = FALSE /\ client = "open"

-----------------------------------------------------------------------------
(* rm, mkdir and unmount, which onModuleInit and onApplicationShutdown     *)
(* both await one after the other *)

\* Nothing can be removed below a mount, and a directory may be in use.  What
\* fails is logged, and there is no mkdir then.
Removed(ok) ==
    IF ok THEN path \in {"absent", "dir"} /\ path' = "absent"
          ELSE path # "absent" /\ UNCHANGED path

\* A directory that is there already is as good; none may be allowed.
Made == path' \in (IF path = "absent" THEN {"absent", "dir"} ELSE {path})

\* fusermount -uz takes live and stale mounts away, or fails; what it says is
\* logged the wrong way round, and unmountFs resolves.
Unmounted == path' \in (IF path \in {"mounted", "stale"} THEN {path, "dir"} ELSE {path})

-----------------------------------------------------------------------------
(* The start *)

shutdownVars == <<signal, fsHook, mountLeft, client>>

StartAt(from, to) ==
    /\ start = from
    /\ start' = to
    /\ UNCHANGED <<shutdownVars, dashboard>>

Run == UNCHANGED path /\ StartAt("down", "rm")

\* A failed rm ends the preparation of the mount path, unmounting included.
BugErrorSkipsUnmount ==
    \/ Removed(TRUE) /\ StartAt("rm", "mkdir")
    \/ Removed(FALSE) /\ StartAt("rm", "mount")

RemoveOld ==
    \/ Removed(TRUE) /\ StartAt("rm", "mkdir")
    \/ Removed(FALSE) /\ StartAt("rm", "unmount")

MakeNew == Made /\ StartAt("mkdir", "unmount")

UnmountOld == Unmounted /\ StartAt("unmount", "mount")

Mount == path = "dir" /\ path' = "mounted" /\ StartAt("mount", "sources")

ProcessEnds ==
    /\ start' = "down" /\ signal' = "none" /\ dashboard' = FALSE
    /\ fsHook' = "off" /\ mountLeft' = FALSE /\ client' = "open"
    /\ path' = IF path # "mounted" THEN path ELSE IF AutoUnmount THEN "dir" ELSE "stale"

\* The error is logged, as that of unmounting is.
BugMountErrorIgnored == UNCHANGED path /\ StartAt("mount", "sources")

\* Whatever the reason, the rejection of mountFs is that of onModuleInit: the
\* process exits.
MountFails == start = "mount" /\ ProcessEnds

\* The free torrents are looked up before the server listens.
Listen == UNCHANGED path /\ StartAt("sources", "listening")

\* Server-sent events every second, until the page is closed.
OpenDashboard ==
    /\ start = "listening" /\ signal = "none"
    /\ dashboard' = TRUE
    /\ UNCHANGED <<path, start, shutdownVars>>

CloseDashboard ==
    /\ dashboard
    /\ dashboard' = FALSE
    /\ UNCHANGED <<path, start, shutdownVars>>

-----------------------------------------------------------------------------
(* The shutdown *)

\* SIGTERM or SIGINT; one that comes later is ignored.
Signal ==
    /\ start # "down" /\ signal = "none"
    /\ signal' = start /\ fsHook' = "close"
    /\ UNCHANGED <<path, start, dashboard, mountLeft, client>>

HookAt(from, to) ==
    /\ fsHook = from
    /\ fsHook' = to
    /\ UNCHANGED <<start, signal, dashboard>>

\* The file system is unmounted, and reads of what is open go on.
BugClientLeftOpen ==
    /\ ~dashboard
    /\ HookAt("close", "unmount")
    /\ UNCHANGED <<path, mountLeft, client>>

\* httpServer.close calls back when the last connection is closed, and at once
\* while the server does not listen yet.  Both hooks begin.
HttpClosed ==
    /\ ~dashboard
    /\ HookAt("close", "unmount") /\ client' = "closing"
    /\ UNCHANGED <<path, mountLeft>>

HookUnmounts ==
    /\ Unmounted /\ HookAt("unmount", "rm")
    /\ mountLeft' = (path' \in {"mounted", "stale"})
    /\ UNCHANGED client

HookRemoves ==
    /\ \/ Removed(TRUE) /\ HookAt("rm", "mkdir")
       \/ Removed(FALSE) /\ HookAt("rm", "done")
    /\ UNCHANGED <<mountLeft, client>>

HookMakes == Made /\ HookAt("mkdir", "done") /\ UNCHANGED <<mountLeft, client>>

\* Only a success ends the hook.
BugErrorNeverEnds == FALSE /\ UNCHANGED vars

\* client.destroy calls back; an error is logged.
ClientDestroyed ==
    /\ client = "closing" /\ client' = "destroyed"
    /\ UNCHANGED <<path, start, signal, dashboard, fsHook, mountLeft>>

\* The process does not wait for the file system.
BugKilledEarly == client = "destroyed" /\ ProcessEnds

\* Both hooks are over: process.kill.
Killed ==
    /\ fsHook = "done" /\ client = "destroyed"
    /\ ProcessEnds

\* A read that comes while the client is closing and the file system still
\* mounted adds its torrent to a destroyed client: the error is thrown in an
\* async executor, which nobody catches.
ReadTooLate ==
    /\ path = "mounted" /\ client # "open"
    /\ ProcessEnds

Crash == start # "down" /\ ProcessEnds

-----------------------------------------------------------------------------

StartStep == RemoveOld \/ MakeNew \/ UnmountOld \/ Mount \/ MountFails \/ Listen
HookStep == HttpClosed \/ HookUnmounts \/ HookRemoves \/ HookMakes

Next ==
    \/ Run \/ StartStep
    \/ OpenDashboard \/ CloseDashboard
    \/ Signal \/ HookStep \/ ClientDestroyed \/ Killed
    \/ ReadTooLate \/ Crash

Spec == Init /\ [][Next]_vars

\* Calls to the file system and to webtorrent return, well or not, and lookups
\* have their timeout.  Nobody starts the process, or closes the dashboard.
FairSpec ==
    /\ Spec
    /\ WF_vars(StartStep) /\ WF_vars(HookStep) /\ WF_vars(ClientDestroyed) /\ WF_vars(Killed)

-----------------------------------------------------------------------------
(* Properties *)

\* While the server listens, and is not being stopped, the file system is
\* mounted: the health check takes any directory for it.
ListeningIsMounted ==
    start = "listening" /\ signal = "none" => path = "mounted"

\* A process that kills itself leaves its mount behind for one of two reasons
\* only: its own unmount failed, or the signal came before the mount, which
\* the start then made behind the hook's back.
StopLeavesNoMount ==
    [][Killed /\ path = "mounted" =>
          mountLeft \/ signal \in {"rm", "mkdir", "unmount", "mount"}]_vars

\* A signal ends the process, at whatever point of the start it comes, once
\* the dashboard is closed.
StopEnds == signal # "none" /\ ~dashboard ~> start = "down"

\* What may keep a start from coming up: a signal; the death of the process,
\* unless it is that the mount fails on what is no directory; a failure to
\* make the directory or to unmount what an earlier process left.
Setback ==
    \/ signal' # signal
    \/ start # "down" /\ start' = "down" /\ ~(start = "mount" /\ path # "dir")
    \/ start = "mkdir" /\ path' = "absent"
    \/ start = "unmount" /\ path' = "stale"

\* Whatever earlier processes left at the mount path, and although rm fails
\* on a stale mount: who keeps starting the process gets it up, with its file
\* system mounted, as soon as there are no more setbacks.
RestartsRecover ==
    <>[][~Setback]_vars /\ []<>(start # "down")
        => <>[](start = "listening" /\ path = "mounted")
=============================================================================
