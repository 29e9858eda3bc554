--------------------------- MODULE SslVpnProtocol ---------------------------
(***************************************************************************)
(* SslVpnProtocol and the processes it governs: the plugin, the privileged *)
(* helper script (scripts/inode-svpn-helper), the python backend the       *)
(* helper starts, and the second helper that stops it.  They meet in the   *)
(* pipe of the first helper and in the pidfile, which is named after the   *)
(* profile.  MainWindow builds a plugin for each connection, so that       *)
(* connection n of a profile is the n-th plugin, helper and backend.       *)
(*                                                                         *)
(* What the backend does on the wire is in modules Session and Tunnel.     *)
(***************************************************************************)
EXTENDS Naturals, Sequences

CONSTANTS
  MaxSessions,  \* bound: connections of the one profile
  MaxLines,     \* bound: lines in the pipe
  AsRoot,       \* the client runs as root: no pkexec, and it may kill the helper
  Options       \* the profile may have at a connection: "split"
                \* (sslvpnSplitTunnel), "spa" (sslvpnSpaKey)

ASSUME ConstantsAssumption ==
  /\ MaxSessions \in Nat \ {0} /\ MaxLines \in Nat \ {0} /\ AsRoot \in BOOLEAN
  /\ Options \subseteq {"split", "spa"}

Sessions == 1..MaxSessions

VARIABLES
  n,         \* connections whose process was started; n is the current one
  state,     \* IProtocol::m_state of the current plugin
  proc,      \* m_proc: "none" (null), "running", "ended"
  named,     \* m_connName is not empty
  stopping,  \* m_userDisconnect
  call,      \* the blocking call the GUI thread is in: "none", "stop" (requestStop),
             \* "wait" (waitForFinished of 8 s), "killed" (the 2 s after kill())
  dying,     \* ... made by the destructor
  crashed,   \* the client has used a null m_proc
  helper,    \* the helper of each connection: "none", "asking" (pkexec's dialog),
             \* "root", "spawned" (python runs, no pidfile yet), "waiting" (wait),
             \* "reaped" (wait has returned), "gone"
  backend,   \* the python process of each connection: "none", "login", "up",
             \* "cleaning" (its finally clause), "ended", "killed", "usage" (argparse
             \* has rejected its arguments)
  pipe,      \* lines of the current helper not yet read: "conn", "auth", "up"
  pidfile,   \* the connection whose PID it holds, 0 if there is none
  stopper,   \* the stop helper: "none", "asking", "root", "waiting" (its 5 s), "done"
  target,    \* the connection whose PID it has read, 0 if there is none
  overlapped \* history: a connection was begun while the helper of an earlier one of
             \* the profile had not ended

plugin  == <<n, overlapped, state, proc, named, stopping>>
gui     == <<call, dying, crashed>>
stop    == <<stopper, target>>
vars    == <<plugin, gui, helper, backend, pipe, pidfile, stop>>

Running == {"login", "up", "cleaning"}
Fresh == state = "Disconnected" /\ proc = "none" /\ ~named /\ ~stopping
Idle == call = "none" /\ ~crashed

Init ==
  /\ n = 0 /\ state = "Disconnected" /\ proc = "none" /\ named = FALSE /\ stopping = FALSE
  /\ call = "none" /\ dying = FALSE /\ crashed = FALSE
  /\ helper = [s \in Sessions |-> "none"] /\ backend = [s \in Sessions |-> "none"]
  /\ pipe = <<>> /\ pidfile = 0 /\ stopper = "none" /\ target = 0 /\ overlapped = FALSE

SetHelper(s, to) == helper' = [helper EXCEPT ![s] = to]
SetBackend(s, to) == backend' = [backend EXCEPT ![s] = to]

-----------------------------------------------------------------------------
(* connectWith                                                             *)

\* A check fails; or no privilege launcher is found, m_connName being set already.
ConnectFails ==
  /\ Idle /\ Fresh
  /\ state' = "Failed"
  /\ named' \in IF AsRoot THEN {FALSE} ELSE BOOLEAN
  /\ UNCHANGED <<n, overlapped, proc, stopping, gui, helper, backend, pipe, pidfile, stop>>

\* A profile with an SPA key: it is put into the environment of m_proc, which is
\* null until the process is built further down.
ConnectWithKey ==
  /\ Idle /\ Fresh /\ "spa" \in Options
  /\ crashed' = TRUE
  /\ UNCHANGED <<plugin, call, dying, helper, backend, pipe, pidfile, stop>>

Connect ==
  /\ Idle /\ Fresh /\ n < MaxSessions
  /\ named' = TRUE
  /\ n' = n + 1 /\ pipe' = <<>>
  /\ overlapped' = (overlapped \/ \E s \in Sessions : helper[s] \notin {"none", "gone"})
  /\ \/ /\ state' = "Connecting" /\ proc' = "running"
        /\ SetHelper(n + 1, IF AsRoot THEN "root" ELSE "asking")
     \/ state' = "Failed" /\ proc' = "ended" /\ SetHelper(n + 1, "gone")
  /\ UNCHANGED <<stopping, gui, backend, pidfile, stop>>

-----------------------------------------------------------------------------
(* The helper script and the backend it starts.                            *)

\* pkexec's dialog: granted, or denied (exit code 126).
Asked(s) ==
  /\ helper[s] = "asking"
  /\ \E to \in {"root", "gone"} : SetHelper(s, to)
  /\ UNCHANGED <<plugin, gui, backend, pipe, pidfile, stop>>

\* The script's checks fail, or it starts python.  argparse knows no
\* --split-tunnel (cli.py).
Spawn(s) ==
  /\ helper[s] = "root"
  /\ \/ SetHelper(s, "gone") /\ UNCHANGED backend
     \/ /\ SetHelper(s, "spawned")
        /\ \/ SetBackend(s, "login")
           \/ "split" \in Options /\ SetBackend(s, "usage")
  /\ UNCHANGED <<plugin, gui, pipe, pidfile, stop>>

\* Faulty variant: the PID is not written.
RecordPidLost(s) ==
  /\ helper[s] = "spawned"
  /\ SetHelper(s, "waiting")
  /\ UNCHANGED <<plugin, gui, backend, pipe, pidfile, stop>>

RecordPid(s) ==
  /\ helper[s] = "spawned"
  /\ pidfile' = s /\ SetHelper(s, "waiting")
  /\ UNCHANGED <<plugin, gui, backend, pipe, stop>>

\* Faulty variant: the script does not wait for the backend.
ReapAtOnce(s) ==
  /\ helper[s] = "waiting"
  /\ SetHelper(s, "reaped")
  /\ UNCHANGED <<plugin, gui, backend, pipe, pidfile, stop>>

Reap(s) ==
  /\ helper[s] = "waiting" /\ backend[s] \notin Running
  /\ SetHelper(s, "reaped")
  /\ UNCHANGED <<plugin, gui, backend, pipe, pidfile, stop>>

\* rm -f of the pidfile, whatever it holds by now.
HelperExits(s) ==
  /\ helper[s] = "reaped"
  /\ pidfile' = 0 /\ SetHelper(s, "gone")
  /\ UNCHANGED <<plugin, gui, backend, pipe, stop>>

\* A line that moves the plugin's state.  The pipe of an earlier connection has no
\* reader.
Prints(s, line) ==
  IF s = n /\ proc = "running" THEN Len(pipe) < MaxLines /\ pipe' = Append(pipe, line)
  ELSE UNCHANGED pipe

BackendPrints(s) ==
  /\ backend[s] \in Running
  /\ \E line \in {"conn", "auth"} : Prints(s, line)
  /\ UNCHANGED <<plugin, gui, helper, backend, pidfile, stop>>

\* The login and the tunnel succeed, or not.
BackendUp(s) ==
  /\ backend[s] = "login"
  /\ SetBackend(s, "up") /\ Prints(s, "up")
  /\ UNCHANGED <<plugin, gui, helper, pidfile, stop>>

BackendFails(s) ==
  /\ backend[s] = "login"
  /\ SetBackend(s, "ended")
  /\ UNCHANGED <<plugin, gui, helper, pipe, pidfile, stop>>

\* run() ends, and the finally clause logs out and restores the network.
BackendCleans(s) ==
  /\ \/ backend[s] = "up" /\ SetBackend(s, "cleaning")
     \/ backend[s] = "cleaning" /\ SetBackend(s, "ended")
  /\ UNCHANGED <<plugin, gui, helper, pipe, pidfile, stop>>

-----------------------------------------------------------------------------
(* What the event loop brings to the plugin.                               *)

\* The state a line of onReadyRead leads to.
Read(line) ==
  CASE line = "up" -> "Connected"
    [] line = "auth" /\ state # "Connected" -> "Authenticating"
    [] line = "conn" /\ state \notin {"Connected", "Authenticating"} -> "Connecting"
    [] OTHER -> state

\* waitForFinished delivers readyRead() and finished() as the event loop does;
\* requestStop waits for another process, and the destructor has disconnected them.
Delivers == ~crashed /\ ~dying /\ call # "stop" /\ proc = "running"

OnReadyRead ==
  /\ Delivers /\ pipe # <<>>
  /\ state' = Read(Head(pipe)) /\ pipe' = Tail(pipe)
  /\ UNCHANGED <<n, overlapped, proc, named, stopping, gui, helper, backend, pidfile, stop>>

\* Faulty variant: an exit during a disconnect is reported as a failure.
ExitStateByCode == {"Disconnected", "Failed"}

\* onFinished: by exit code, or Disconnected after disconnect().
ExitState == IF stopping THEN {"Disconnected"} ELSE {"Disconnected", "Failed"}

OnFinished ==
  /\ Delivers /\ pipe = <<>> /\ helper[n] = "gone"
  /\ proc' = "ended" /\ state' \in ExitState
  /\ UNCHANGED <<n, overlapped, named, stopping, gui, helper, backend, pipe, pidfile, stop>>

-----------------------------------------------------------------------------
(* disconnect(), the destructor, and the stop helper.                      *)

Kill(s) == IF s # 0 /\ backend[s] \in Running THEN SetBackend(s, "killed")
           ELSE UNCHANGED backend

\* disconnect() of a running process: the blocking calls follow.
Disconnect ==
  /\ Idle /\ proc = "running"
  /\ stopping' = TRUE /\ state' = "Disconnecting" /\ call' = "stop"
  /\ stopper' = IF ~named THEN "done" ELSE IF AsRoot THEN "root" ELSE "asking"
  /\ UNCHANGED <<n, overlapped, proc, named, dying, crashed, helper, backend, pipe, pidfile, target>>

\* disconnect() after the process has ended, before the plugin is deleted: the stop
\* helper is waited for, and nothing else happens meanwhile.
DisconnectEnded ==
  /\ Idle /\ proc # "running" /\ (proc = "ended" \/ named)
  /\ stopping' = TRUE /\ state' = "Disconnected" /\ named' = FALSE
  /\ \/ named /\ pidfile' = 0 /\ Kill(pidfile)
     \/ UNCHANGED <<pidfile, backend>>
  /\ UNCHANGED <<n, overlapped, proc, gui, helper, pipe, stop>>

\* The destructor, when MainWindow replaces the plugin or ends.
Destroy ==
  /\ Idle /\ proc = "running"
  /\ call' = "stop" /\ dying' = TRUE
  /\ stopper' = IF ~named THEN "done" ELSE IF AsRoot THEN "root" ELSE "asking"
  /\ UNCHANGED <<plugin, crashed, helper, backend, pipe, pidfile, target>>

\* The posted reset of a plugin that has ended.
DestroyEnded ==
  /\ Idle /\ ~Fresh /\ proc # "running" /\ state \in {"Failed", "Disconnected"}
  /\ state' = "Disconnected" /\ proc' = "none" /\ named' = FALSE /\ stopping' = FALSE
  /\ UNCHANGED <<n, overlapped, gui, helper, backend, pipe, pidfile, stop>>

\* pkexec's dialog for the stop helper: granted, denied, or left open for the 15 s.
StopAsked ==
  /\ stopper = "asking"
  /\ stopper' \in {"root", "done"}
  /\ UNCHANGED <<plugin, gui, helper, backend, pipe, pidfile, target>>

\* The stop subcommand.  The backend of a script's background job ignores SIGINT,
\* so that sending it changes nothing.
StopSignals ==
  /\ stopper = "root"
  /\ target' = pidfile
  /\ stopper' = IF pidfile = 0 THEN "done" ELSE "waiting"
  /\ UNCHANGED <<plugin, gui, helper, backend, pipe, pidfile>>

\* Faulty variant: the stop subcommand gives up after the 5 s.
StopNeverEscalates ==
  /\ stopper = "waiting"
  /\ stopper' = "done" /\ target' = 0
  /\ UNCHANGED <<plugin, gui, helper, backend, pipe, pidfile>>

\* The backend has ended, or the 5 s are over and it is killed.  rm -f.
StopEscalates ==
  /\ stopper = "waiting"
  /\ Kill(target) /\ pidfile' = 0
  /\ stopper' = "done" /\ target' = 0
  /\ UNCHANGED <<plugin, gui, helper, pipe>>

\* requestStop returns.
StopReturns ==
  /\ call = "stop" /\ stopper = "done"
  /\ call' = "wait" /\ stopper' = "none"
  /\ UNCHANGED <<plugin, dying, crashed, helper, backend, pipe, pidfile, target>>

\* The plugin disconnect() leaves, or the new one behind the destructor.
CallReturns ==
  /\ call' = "none" /\ dying' = FALSE /\ named' = FALSE
  /\ IF dying THEN state' = "Disconnected" /\ proc' = "none" /\ stopping' = FALSE
     ELSE UNCHANGED <<state, proc, stopping>>
  /\ UNCHANGED <<n, overlapped, crashed>>

WaitReturns ==
  /\ call \in {"wait", "killed"}
  /\ proc = "ended" \/ (dying /\ helper[n] = "gone")
  /\ CallReturns
  /\ UNCHANGED <<helper, backend, pipe, pidfile, stop>>

\* The 8 s are over: kill(), which fails with EPERM on a process of root.  The
\* script's own steps take milliseconds, so it is the dialog or the backend that
\* has taken them.
WaitExpires ==
  /\ call = "wait" /\ proc = "running"
  /\ helper[n] = "asking" \/ (helper[n] = "waiting" /\ backend[n] \in Running)
  /\ call' = "killed"
  /\ IF AsRoot \/ helper[n] = "asking" THEN SetHelper(n, "gone") ELSE UNCHANGED helper
  /\ UNCHANGED <<plugin, dying, crashed, backend, pipe, pidfile, stop>>

\* ... and the 2 s that follow.
KillExpires ==
  /\ call = "killed" /\ proc = "running" /\ helper[n] # "gone"
  /\ CallReturns
  /\ UNCHANGED <<helper, backend, pipe, pidfile, stop>>

-----------------------------------------------------------------------------

Helper(s) == Asked(s) \/ Spawn(s) \/ RecordPid(s) \/ Reap(s) \/ HelperExits(s)
Backend(s) == BackendPrints(s) \/ BackendUp(s) \/ BackendFails(s) \/ BackendCleans(s)
Stopper == StopAsked \/ StopSignals \/ StopEscalates
EventLoop == OnReadyRead \/ OnFinished
Blocked == StopReturns \/ WaitReturns \/ WaitExpires \/ KillExpires
User == ConnectFails \/ ConnectWithKey \/ Connect \/ Disconnect \/ DisconnectEnded \/ Destroy

Next == \/ User \/ DestroyEnded \/ EventLoop \/ Blocked \/ Stopper
        \/ \E s \in Sessions : Helper(s) \/ Backend(s)

Spec == Init /\ [][Next]_vars

\* The event loop runs, the scripts and the limits of the waits proceed; pkexec's
\* dialogs are answered or time out.  No login need succeed and no tunnel end.
FairSpec ==
  /\ Spec
  /\ WF_vars(DestroyEnded) /\ WF_vars(OnReadyRead) /\ WF_vars(OnFinished)
  /\ WF_vars(Blocked) /\ WF_vars(Stopper)
  /\ \A s \in Sessions : WF_vars(Helper(s))

-----------------------------------------------------------------------------

TypeOK ==
  /\ n \in 0..MaxSessions
  /\ state \in {"Disconnected", "Connecting", "Authenticating", "Connected",
                "Disconnecting", "Failed"}
  /\ proc \in {"none", "running", "ended"}
  /\ named \in BOOLEAN /\ stopping \in BOOLEAN /\ dying \in BOOLEAN /\ crashed \in BOOLEAN
  /\ overlapped \in BOOLEAN
  /\ call \in {"none", "stop", "wait", "killed"}
  /\ helper \in [Sessions -> {"none", "asking", "root", "spawned", "waiting", "reaped", "gone"}]
  /\ backend \in [Sessions -> {"none", "login", "up", "cleaning", "ended", "killed", "usage"}]
  /\ pipe \in Seq({"conn", "auth", "up"}) /\ Len(pipe) <= MaxLines
  /\ pidfile \in 0..MaxSessions
  /\ stopper \in {"none", "asking", "root", "waiting", "done"} /\ target \in 0..MaxSessions
  /\ (proc = "running" => n # 0)
  /\ (call = "stop") = (stopper # "none")
  /\ (target # 0 => stopper = "waiting") /\ (dying => call # "none")

\* The window never says that a connection is over while its backend is still
\* running, whose tunnel it could then neither show nor end.
EndedMeansDown ==
  n # 0 /\ proc = "ended" => backend[n] \notin Running

\* inode-svpn-helper:18-19 "The backend PID is recorded in
\* /run/inode-svpn/<name>.pid so `stop` can signal it", as long as no two helpers of a
\* profile overlap: the pidfile is the profile's, and each removes it at its end.
StopFindsBackend ==
  ~overlapped =>
    \A s \in Sessions : helper[s] = "waiting" /\ backend[s] \in Running => pidfile = s

\* inode-svpn-helper:22-23 "Sends SIGINT to the recorded backend PID (graceful:
\* backend runs its logout + TUN teardown in a finally block), escalating to
\* SIGKILL": what is killed has at least begun to clean up.
StopIsGraceful ==
  [][\A s \in Sessions : backend[s] # "killed" /\ backend'[s] = "killed"
       => backend[s] = "cleaning"]_vars

\* inode-svpn-helper:9-10 "the GUI tears it down with a separate `stop`
\* invocation": a disconnect whose stop helper gets its privileges ends the
\* connection.
DisconnectEnds == (stopper = "root" /\ ~dying) ~> state = "Disconnected"

\* ... which a backend refutes whose PID is not recorded yet, and which holds of one
\* the stop helper finds.
FoundIsStopped == (stopper = "waiting" /\ target = n /\ ~dying) ~> state = "Disconnected"

\* The plugin as PluginContract sees it, from one to the next.
Phase == CASE proc = "running" -> "open"
           [] proc = "none" /\ ~named /\ ~stopping -> "idle"
           [] OTHER -> "shut"
Inst == [kind |-> "SslVpn", state |-> state, phase |-> Phase, stop |-> stopping]
Contract == INSTANCE PluginContract WITH Kind <- "SslVpn", inst <- Inst

\* Whatever the processes do, MainWindow sees only what it was checked against, and
\* a new plugin after the destruction of the old.
KeepsContract ==
  Contract!Init /\ [][Contract!Next \/ Inst' = Contract!Plugin("SslVpn")]_Inst
=============================================================================
