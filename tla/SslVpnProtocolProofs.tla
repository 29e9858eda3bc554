----------------------- MODULE SslVpnProtocolProofs -----------------------
(***************************************************************************)
(* The SSL VPN plugin with its helper, backend and stop helper, for any    *)
(* number of connections, any pipe and any options: types, the end of a    *)
(* connection, the pidfile, and the contract.                              *)
(***************************************************************************)
EXTENDS SslVpnProtocol, TLAPS

-----------------------------------------------------------------------------
(* The parts of TypeOK.                                                    *)

TypePlugin ==
  /\ n \in 0..MaxSessions
  /\ state \in {"Disconnected", "Connecting", "Authenticating", "Connected",
                "Disconnecting", "Failed"}
  /\ proc \in {"none", "running", "ended"}
  /\ call \in {"none", "stop", "wait", "killed"}
  /\ (proc = "running" => n # 0)

TypeFlags ==
  /\ named \in BOOLEAN /\ stopping \in BOOLEAN /\ dying \in BOOLEAN /\ crashed \in BOOLEAN
  /\ overlapped \in BOOLEAN

TypeProcesses ==
  /\ helper \in [Sessions -> {"none", "asking", "root", "spawned", "waiting", "reaped", "gone"}]
  /\ backend \in [Sessions -> {"none", "login", "up", "cleaning", "ended", "killed", "usage"}]

TypePipe == pipe \in Seq({"conn", "auth", "up"}) /\ Len(pipe) <= MaxLines

TypeStop ==
  /\ pidfile \in 0..MaxSessions
  /\ stopper \in {"none", "asking", "root", "waiting", "done"} /\ target \in 0..MaxSessions
  /\ (call = "stop") = (stopper # "none")
  /\ (target # 0 => stopper = "waiting")

DyingCalls == dying => call # "none"

LEMMA TypeParts ==
  TypeOK <=> TypePlugin /\ TypeFlags /\ TypeProcesses /\ TypePipe /\ TypeStop /\ DyingCalls
  BY DEF TypeOK, TypePlugin, TypeFlags, TypeProcesses, TypePipe, TypeStop, DyingCalls

(***************************************************************************)
(* What the theorems rest on.  BackendHasHelper and PidIsCurrent need a    *)
(* client that is not root: its kill() does not reach a helper of root,    *)
(* which therefore never goes before its backend.                          *)
(***************************************************************************)

\* The process of the plugin is the helper of its connection.
EndedIsGone == proc = "ended" => n # 0 /\ helper[n] = "gone"

\* The GUI thread waits only for a process it has started.
CallHasProcess == call # "none" => proc # "none"

\* A connection not begun yet has no helper.
UnusedHasNone == \A s \in Sessions : s > n => helper[s] = "none"

\* A backend runs only as long as the script that waits for it.
BackendHasHelper ==
  \A s \in Sessions : backend[s] \in Running => helper[s] \in {"spawned", "waiting"}

\* Without an overlap the current connection alone has a helper.
OneHelper == \A s \in Sessions : s # n => helper[s] \in {"none", "gone"}

\* ... and the pidfile is there only while that helper waits for its backend or
\* removes it; the stop helper acts on it within one blocking call, during which no
\* connection begins.
PidIsCurrent == /\ pidfile # 0 => pidfile = n /\ helper[n] \in {"waiting", "reaped"}
                /\ target # 0 => target = n
                /\ stopper = "waiting" => target # 0

-----------------------------------------------------------------------------
(* The step, part by part.                                                 *)

LEMMA PluginTyped ==
  ASSUME TypePlugin, [Next]_vars
  PROVE  TypePlugin'
<1> USE ConstantsAssumption DEF TypePlugin, plugin, gui, stop, Sessions
<1>1. CASE Connect
  BY <1>1 DEF Connect, Idle, Fresh
<1>2. CASE ConnectFails \/ ConnectWithKey \/ Disconnect \/ DisconnectEnded \/ Destroy
  BY <1>2 DEF ConnectFails, ConnectWithKey, Disconnect, DisconnectEnded, Destroy, Idle, Fresh
<1>3. CASE DestroyEnded
  BY <1>3 DEF DestroyEnded, Idle
<1>4. CASE EventLoop
  BY <1>4 DEF EventLoop, OnReadyRead, OnFinished, Delivers, Read, ExitState
<1>5. CASE Blocked
  BY <1>5 DEF Blocked, StopReturns, WaitReturns, WaitExpires, KillExpires, CallReturns
<1>6. CASE Stopper
  BY <1>6 DEF Stopper, StopAsked, StopSignals, StopEscalates
<1>7. ASSUME NEW s \in Sessions, Helper(s)
      PROVE  TypePlugin'
  BY <1>7 DEF Helper, Asked, Spawn, RecordPid, Reap, HelperExits
<1>8. ASSUME NEW s \in Sessions, Backend(s)
      PROVE  TypePlugin'
  BY <1>8 DEF Backend, BackendPrints, BackendUp, BackendFails, BackendCleans
<1>9. CASE UNCHANGED vars
  BY <1>9 DEF vars
<1> QED
  BY <1>1, <1>2, <1>3, <1>4, <1>5, <1>6, <1>7, <1>8, <1>9 DEF Next, User

LEMMA FlagsTyped ==
  ASSUME TypeFlags, [Next]_vars
  PROVE  TypeFlags'
<1> USE ConstantsAssumption DEF TypeFlags, plugin, gui, stop, Sessions
<1>1. CASE User
  BY <1>1 DEF User, ConnectFails, ConnectWithKey, Connect, Disconnect, DisconnectEnded, Destroy
<1>2. CASE DestroyEnded
  BY <1>2 DEF DestroyEnded, Idle
<1>3. CASE EventLoop
  BY <1>3 DEF EventLoop, OnReadyRead, OnFinished, Delivers
<1>4. CASE Blocked
  BY <1>4 DEF Blocked, StopReturns, WaitReturns, WaitExpires, KillExpires, CallReturns
<1>5. CASE Stopper
  BY <1>5 DEF Stopper, StopAsked, StopSignals, StopEscalates
<1>6. ASSUME NEW s \in Sessions, Helper(s)
      PROVE  TypeFlags'
  BY <1>6 DEF Helper, Asked, Spawn, RecordPid, Reap, HelperExits
<1>7. ASSUME NEW s \in Sessions, Backend(s)
      PROVE  TypeFlags'
  BY <1>7 DEF Backend, BackendPrints, BackendUp, BackendFails, BackendCleans
<1>8. CASE UNCHANGED vars
  BY <1>8 DEF vars
<1> QED
  BY <1>1, <1>2, <1>3, <1>4, <1>5, <1>6, <1>7, <1>8 DEF Next

\* Helpers and backends: n is a connection wherever it is used as one.
LEMMA ProcessesTyped ==
  ASSUME TypePlugin, TypeProcesses, [Next]_vars
  PROVE  TypeProcesses'
<1> USE ConstantsAssumption DEF TypeProcesses, TypePlugin, plugin, gui, stop, Sessions
<1>1. CASE User
  BY <1>1 DEF User, ConnectFails, ConnectWithKey, Connect, Disconnect, DisconnectEnded, Destroy,
         Fresh, SetHelper, Kill, SetBackend, Running
<1>2. CASE DestroyEnded
  BY <1>2 DEF DestroyEnded, Idle, Running
<1>3. CASE EventLoop
  BY <1>3 DEF EventLoop, OnReadyRead, OnFinished, Delivers, Running
<1>4. CASE Blocked
  BY <1>4 DEF Blocked, StopReturns, WaitReturns, WaitExpires, KillExpires, CallReturns, SetHelper,
         Running
<1>5. CASE Stopper
  BY <1>5 DEF Stopper, StopAsked, StopSignals, StopEscalates, Kill, SetBackend, Running
<1>6. ASSUME NEW s \in Sessions, Helper(s)
      PROVE  TypeProcesses'
  BY <1>6 DEF Helper, Asked, Spawn, RecordPid, Reap, HelperExits, SetHelper, SetBackend, Running
<1>7. ASSUME NEW s \in Sessions, Backend(s)
      PROVE  TypeProcesses'
  BY <1>7 DEF Backend, BackendPrints, BackendUp, BackendFails, BackendCleans, SetBackend, Running
<1>8. CASE UNCHANGED vars
  BY <1>8 DEF vars
<1> QED
  BY <1>1, <1>2, <1>3, <1>4, <1>5, <1>6, <1>7, <1>8 DEF Next

LEMMA PipeTyped ==
  ASSUME TypePipe, [Next]_vars
  PROVE  TypePipe'
<1> USE ConstantsAssumption DEF TypePipe, plugin, gui, stop, Sessions
<1>1. CASE Connect
  BY <1>1 DEF Connect, Idle, Fresh
<1>2. CASE ConnectFails \/ ConnectWithKey \/ Disconnect \/ DisconnectEnded \/ Destroy
  BY <1>2 DEF ConnectFails, ConnectWithKey, Disconnect, DisconnectEnded, Destroy, Idle
<1>3. CASE DestroyEnded
  BY <1>3 DEF DestroyEnded, Idle
<1>4. CASE EventLoop
  BY <1>4 DEF EventLoop, OnReadyRead, OnFinished, Delivers
<1>5. CASE Blocked
  BY <1>5 DEF Blocked, StopReturns, WaitReturns, WaitExpires, KillExpires, CallReturns
<1>6. CASE Stopper
  BY <1>6 DEF Stopper, StopAsked, StopSignals, StopEscalates
<1>7. ASSUME NEW s \in Sessions, Helper(s)
      PROVE  TypePipe'
  BY <1>7 DEF Helper, Asked, Spawn, RecordPid, Reap, HelperExits
<1>8. ASSUME NEW s \in Sessions, Backend(s)
      PROVE  TypePipe'
  BY <1>8 DEF Backend, BackendPrints, BackendUp, BackendFails, BackendCleans, Prints
<1>9. CASE UNCHANGED vars
  BY <1>9 DEF vars
<1> QED
  BY <1>1, <1>2, <1>3, <1>4, <1>5, <1>6, <1>7, <1>8, <1>9 DEF Next, User

LEMMA StopTyped ==
  ASSUME TypeStop, [Next]_vars
  PROVE  TypeStop'
<1> USE ConstantsAssumption DEF TypeStop, plugin, gui, stop, Sessions
<1>1. CASE User
  BY <1>1 DEF User, ConnectFails, ConnectWithKey, Connect, Disconnect, DisconnectEnded, Destroy,
         Idle
<1>2. CASE DestroyEnded
  BY <1>2 DEF DestroyEnded, Idle
<1>3. CASE EventLoop
  BY <1>3 DEF EventLoop, OnReadyRead, OnFinished, Delivers
<1>4. CASE Blocked
  BY <1>4 DEF Blocked, StopReturns, WaitReturns, WaitExpires, KillExpires, CallReturns
<1>5. CASE Stopper
  BY <1>5 DEF Stopper, StopAsked, StopSignals, StopEscalates
<1>6. ASSUME NEW s \in Sessions, Helper(s)
      PROVE  TypeStop'
  BY <1>6 DEF Helper, Asked, Spawn, RecordPid, Reap, HelperExits
<1>7. ASSUME NEW s \in Sessions, Backend(s)
      PROVE  TypeStop'
  BY <1>7 DEF Backend, BackendPrints, BackendUp, BackendFails, BackendCleans
<1>8. CASE UNCHANGED vars
  BY <1>8 DEF vars
<1> QED
  BY <1>1, <1>2, <1>3, <1>4, <1>5, <1>6, <1>7, <1>8 DEF Next

LEMMA DyingStep ==
  ASSUME DyingCalls, [Next]_vars
  PROVE  DyingCalls'
<1> USE ConstantsAssumption DEF DyingCalls, plugin, gui, stop, Sessions
<1>1. CASE User
  BY <1>1 DEF User, ConnectFails, ConnectWithKey, Connect, Disconnect, DisconnectEnded, Destroy,
         Idle
<1>2. CASE DestroyEnded
  BY <1>2 DEF DestroyEnded, Idle
<1>3. CASE EventLoop
  BY <1>3 DEF EventLoop, OnReadyRead, OnFinished, Delivers
<1>4. CASE Blocked
  BY <1>4 DEF Blocked, StopReturns, WaitReturns, WaitExpires, KillExpires, CallReturns
<1>5. CASE Stopper
  BY <1>5 DEF Stopper, StopAsked, StopSignals, StopEscalates
<1>6. ASSUME NEW s \in Sessions, Helper(s)
      PROVE  DyingCalls'
  BY <1>6 DEF Helper, Asked, Spawn, RecordPid, Reap, HelperExits
<1>7. ASSUME NEW s \in Sessions, Backend(s)
      PROVE  DyingCalls'
  BY <1>7 DEF Backend, BackendPrints, BackendUp, BackendFails, BackendCleans
<1>8. CASE UNCHANGED vars
  BY <1>8 DEF vars
<1> QED
  BY <1>1, <1>2, <1>3, <1>4, <1>5, <1>6, <1>7, <1>8 DEF Next

\* OnFinished and a connectWith that fails are what ends a process; a helper that has
\* gone stays.
LEMMA EndedStep ==
  ASSUME TypePlugin, TypeProcesses, EndedIsGone, [Next]_vars
  PROVE  EndedIsGone'
<1> USE ConstantsAssumption DEF TypePlugin, TypeProcesses, EndedIsGone, plugin, gui, stop,
               Sessions
<1>1. CASE Connect
  BY <1>1 DEF Connect, Idle, Fresh, SetHelper
<1>2. CASE ConnectFails \/ ConnectWithKey \/ Disconnect \/ DisconnectEnded \/ Destroy
  BY <1>2 DEF ConnectFails, ConnectWithKey, Disconnect, DisconnectEnded, Destroy, Idle, Fresh,
         Kill, SetBackend
<1>3. CASE DestroyEnded
  BY <1>3 DEF DestroyEnded, Idle
<1>4. CASE EventLoop
  BY <1>4 DEF EventLoop, OnReadyRead, OnFinished, Delivers
<1>5. CASE Blocked
  BY <1>5 DEF Blocked, StopReturns, WaitReturns, WaitExpires, KillExpires, CallReturns, SetHelper
<1>6. CASE Stopper
  BY <1>6 DEF Stopper, StopAsked, StopSignals, StopEscalates, Kill, SetBackend
<1>7. ASSUME NEW s \in Sessions, Helper(s)
      PROVE  EndedIsGone'
  BY <1>7 DEF Helper, Asked, Spawn, RecordPid, Reap, HelperExits, SetHelper, SetBackend
<1>8. ASSUME NEW s \in Sessions, Backend(s)
      PROVE  EndedIsGone'
  BY <1>8 DEF Backend, BackendPrints, BackendUp, BackendFails, BackendCleans, SetBackend
<1>9. CASE UNCHANGED vars
  BY <1>9 DEF vars
<1> QED
  BY <1>1, <1>2, <1>3, <1>4, <1>5, <1>6, <1>7, <1>8, <1>9 DEF Next, User

LEMMA CallStep ==
  ASSUME TypePlugin, CallHasProcess, [Next]_vars
  PROVE  CallHasProcess'
<1> USE ConstantsAssumption DEF CallHasProcess, plugin, gui, stop, Sessions
<1>1. CASE User
  BY <1>1 DEF User, ConnectFails, ConnectWithKey, Connect, Disconnect, DisconnectEnded, Destroy,
         Idle
<1>2. CASE DestroyEnded
  BY <1>2 DEF DestroyEnded, Idle
<1>3. CASE EventLoop
  BY <1>3 DEF EventLoop, OnReadyRead, OnFinished, Delivers
<1>4. CASE Blocked
  BY <1>4 DEF Blocked, StopReturns, WaitReturns, WaitExpires, KillExpires, CallReturns
<1>5. CASE Stopper
  BY <1>5 DEF Stopper, StopAsked, StopSignals, StopEscalates
<1>6. ASSUME NEW s \in Sessions, Helper(s)
      PROVE  CallHasProcess'
  BY <1>6 DEF Helper, Asked, Spawn, RecordPid, Reap, HelperExits
<1>7. ASSUME NEW s \in Sessions, Backend(s)
      PROVE  CallHasProcess'
  BY <1>7 DEF Backend, BackendPrints, BackendUp, BackendFails, BackendCleans
<1>8. CASE UNCHANGED vars
  BY <1>8 DEF vars
<1> QED
  BY <1>1, <1>2, <1>3, <1>4, <1>5, <1>6, <1>7, <1>8 DEF Next

\* Only connectWith gives a connection a helper.
LEMMA UnusedStep ==
  ASSUME TypePlugin, TypeProcesses, UnusedHasNone, [Next]_vars
  PROVE  UnusedHasNone'
<1> USE ConstantsAssumption DEF TypePlugin, TypeProcesses, UnusedHasNone, plugin, gui, stop,
               Sessions
<1>1. CASE Connect
  BY <1>1 DEF Connect, Idle, Fresh, SetHelper
<1>2. CASE ConnectFails \/ ConnectWithKey \/ Disconnect \/ DisconnectEnded \/ Destroy
  BY <1>2 DEF ConnectFails, ConnectWithKey, Disconnect, DisconnectEnded, Destroy, Idle, Fresh,
         Kill, SetBackend
<1>3. CASE DestroyEnded
  BY <1>3 DEF DestroyEnded, Idle
<1>4. CASE EventLoop
  BY <1>4 DEF EventLoop, OnReadyRead, OnFinished, Delivers
<1>5. CASE Blocked
  BY <1>5 DEF Blocked, StopReturns, WaitReturns, WaitExpires, KillExpires, CallReturns, SetHelper
<1>6. CASE Stopper
  BY <1>6 DEF Stopper, StopAsked, StopSignals, StopEscalates, Kill, SetBackend
<1>7. ASSUME NEW s \in Sessions, Helper(s)
      PROVE  UnusedHasNone'
  BY <1>7 DEF Helper, Asked, Spawn, RecordPid, Reap, HelperExits, SetHelper, SetBackend
<1>8. ASSUME NEW s \in Sessions, Backend(s)
      PROVE  UnusedHasNone'
  BY <1>8 DEF Backend, BackendPrints, BackendUp, BackendFails, BackendCleans, SetBackend
<1>9. CASE UNCHANGED vars
  BY <1>9 DEF vars
<1> QED
  BY <1>1, <1>2, <1>3, <1>4, <1>5, <1>6, <1>7, <1>8, <1>9 DEF Next, User

\* Only the dialog is killed, and a helper waits until its backend is done.
LEMMA BackendStep ==
  ASSUME ~AsRoot, TypePlugin, TypeProcesses, UnusedHasNone,
         BackendHasHelper, [Next]_vars
  PROVE  BackendHasHelper'
<1> USE ConstantsAssumption DEF TypePlugin, TypeProcesses, BackendHasHelper, UnusedHasNone,
               plugin, gui, stop, Sessions
<1>1. CASE User
  BY <1>1 DEF User, ConnectFails, ConnectWithKey, Connect, Disconnect, DisconnectEnded, Destroy,
         Fresh, SetHelper, Kill, SetBackend, Running
<1>2. CASE DestroyEnded
  BY <1>2 DEF DestroyEnded, Idle, Running
<1>3. CASE EventLoop
  BY <1>3 DEF EventLoop, OnReadyRead, OnFinished, Delivers, Running
<1>4. CASE Blocked
  BY <1>4 DEF Blocked, StopReturns, WaitReturns, WaitExpires, KillExpires, CallReturns, SetHelper,
         Running
<1>5. CASE Stopper
  BY <1>5 DEF Stopper, StopAsked, StopSignals, StopEscalates, Kill, SetBackend, Running
<1>6. ASSUME NEW s \in Sessions, Helper(s)
      PROVE  BackendHasHelper'
  BY <1>6 DEF Helper, Asked, Spawn, RecordPid, Reap, HelperExits, SetHelper, SetBackend, Running
<1>7. ASSUME NEW s \in Sessions, Backend(s)
      PROVE  BackendHasHelper'
  BY <1>7 DEF Backend, BackendPrints, BackendUp, BackendFails, BackendCleans, SetBackend, Running
<1>8. CASE UNCHANGED vars
  BY <1>8 DEF vars
<1> QED
  BY <1>1, <1>2, <1>3, <1>4, <1>5, <1>6, <1>7, <1>8 DEF Next

\* connectWith is the step that could leave a helper behind: it is then an overlap.
LEMMA OneHelperStep ==
  ASSUME TypePlugin, TypeProcesses, ~overlapped => OneHelper, [Next]_vars
  PROVE  ~overlapped' => OneHelper'
<1> USE ConstantsAssumption DEF TypePlugin, TypeProcesses, OneHelper, plugin, gui, stop, Sessions
<1>1. CASE User
  BY <1>1 DEF User, ConnectFails, ConnectWithKey, Connect, Disconnect, DisconnectEnded, Destroy,
         Fresh, SetHelper, Kill, SetBackend
<1>2. CASE DestroyEnded
  BY <1>2 DEF DestroyEnded, Idle
<1>3. CASE EventLoop
  BY <1>3 DEF EventLoop, OnReadyRead, OnFinished, Delivers
<1>4. CASE Blocked
  BY <1>4 DEF Blocked, StopReturns, WaitReturns, WaitExpires, KillExpires, CallReturns, SetHelper
<1>5. CASE Stopper
  BY <1>5 DEF Stopper, StopAsked, StopSignals, StopEscalates, Kill, SetBackend
<1>6. ASSUME NEW s \in Sessions, Helper(s)
      PROVE  ~overlapped' => OneHelper'
  BY <1>6 DEF Helper, Asked, Spawn, RecordPid, Reap, HelperExits, SetHelper, SetBackend
<1>7. ASSUME NEW s \in Sessions, Backend(s)
      PROVE  ~overlapped' => OneHelper'
  BY <1>7 DEF Backend, BackendPrints, BackendUp, BackendFails, BackendCleans, SetBackend
<1>8. CASE UNCHANGED vars
  BY <1>8 DEF vars
<1> QED
  BY <1>1, <1>2, <1>3, <1>4, <1>5, <1>6, <1>7, <1>8 DEF Next

\* A helper removes the pidfile before it goes, and the stop helper is done with its
\* target before the GUI thread can connect again.
LEMMA PidStep ==
  ASSUME ~AsRoot, TypePlugin, TypeProcesses, TypeStop,
         ~overlapped => OneHelper /\ PidIsCurrent, [Next]_vars
  PROVE  ~overlapped' => PidIsCurrent'
<1> USE ConstantsAssumption DEF TypePlugin, TypeProcesses, TypeStop, OneHelper, PidIsCurrent,
               plugin, gui, stop, Sessions
<1>1. CASE Connect
  <2>1. n' = n + 1 /\ UNCHANGED <<pidfile, stopper, target>> /\ stopper = "none" /\ target = 0
    BY <1>1 DEF Connect, Idle
  <2>2. ~overlapped' => ~overlapped /\ \A s \in Sessions : helper[s] \in {"none", "gone"}
    BY <1>1 DEF Connect
  <2>3. ~overlapped' => pidfile = 0
    BY <2>2
  <2> QED
    BY <2>1, <2>3
<1>2. CASE ConnectFails \/ ConnectWithKey \/ Disconnect \/ DisconnectEnded \/ Destroy
  BY <1>2 DEF ConnectFails, ConnectWithKey, Disconnect, DisconnectEnded, Destroy, Idle, Fresh,
         Kill, SetBackend, Running
<1>3. CASE DestroyEnded
  BY <1>3 DEF DestroyEnded, Idle, Running
<1>4. CASE EventLoop
  BY <1>4 DEF EventLoop, OnReadyRead, OnFinished, Delivers, Running
<1>5. CASE Blocked
  BY <1>5 DEF Blocked, StopReturns, WaitReturns, WaitExpires, KillExpires, CallReturns, SetHelper,
         Running
<1>6. CASE Stopper
  BY <1>6 DEF Stopper, StopAsked, StopSignals, StopEscalates, Kill, SetBackend, Running
<1>7. ASSUME NEW s \in Sessions, Helper(s)
      PROVE  ~overlapped' => PidIsCurrent'
  BY <1>7 DEF Helper, Asked, Spawn, RecordPid, Reap, HelperExits, SetHelper, SetBackend, Running
<1>8. ASSUME NEW s \in Sessions, Backend(s)
      PROVE  ~overlapped' => PidIsCurrent'
  BY <1>8 DEF Backend, BackendPrints, BackendUp, BackendFails, BackendCleans, SetBackend, Running
<1>9. CASE UNCHANGED vars
  BY <1>9 DEF vars
<1> QED
  BY <1>1, <1>2, <1>3, <1>4, <1>5, <1>6, <1>7, <1>8, <1>9 DEF Next, User

\* What removes the pidfile is the helper of that backend, or has killed it.
LEMMA FoundStep ==
  ASSUME TypePlugin, TypeProcesses, TypeStop, UnusedHasNone, BackendHasHelper,
         ~overlapped => OneHelper /\ PidIsCurrent, StopFindsBackend, [Next]_vars
  PROVE  StopFindsBackend'
<1> USE ConstantsAssumption DEF TypePlugin, TypeProcesses, TypeStop, UnusedHasNone,
               BackendHasHelper, OneHelper, PidIsCurrent, StopFindsBackend, plugin, gui, stop,
               Sessions
<1>1. CASE User
  BY <1>1, ZenonT(60) DEF User, ConnectFails, ConnectWithKey, Connect, Disconnect,
         DisconnectEnded, Destroy, Fresh, SetHelper, Kill, SetBackend, Running, Idle
<1>2. CASE DestroyEnded
  BY <1>2 DEF DestroyEnded, Idle, Running
<1>3. CASE EventLoop
  BY <1>3 DEF EventLoop, OnReadyRead, OnFinished, Delivers, Running, Idle
<1>4. CASE Blocked
  BY <1>4 DEF Blocked, StopReturns, WaitReturns, WaitExpires, KillExpires, CallReturns, SetHelper,
         Running, Idle
<1>5. CASE Stopper
  BY <1>5 DEF Stopper, StopAsked, StopSignals, StopEscalates, Kill, SetBackend, Running, Idle
<1>6. ASSUME NEW s \in Sessions, Helper(s)
      PROVE  StopFindsBackend'
  BY <1>6 DEF Helper, Asked, Spawn, RecordPid, Reap, HelperExits, SetHelper, SetBackend, Running,
         Idle
<1>7. ASSUME NEW s \in Sessions, Backend(s)
      PROVE  StopFindsBackend'
  BY <1>7 DEF Backend, BackendPrints, BackendUp, BackendFails, BackendCleans, SetBackend, Running,
         Idle
<1>8. CASE UNCHANGED vars
  BY <1>8 DEF vars
<1> QED
  BY <1>1, <1>2, <1>3, <1>4, <1>5, <1>6, <1>7, <1>8 DEF Next

-----------------------------------------------------------------------------

SafeInv == TypeOK /\ EndedIsGone /\ CallHasProcess

LEMMA InitSafe == Init => SafeInv
<1> SUFFICES ASSUME Init
             PROVE  SafeInv
  OBVIOUS
<1>1. TypePlugin /\ TypeStop /\ DyingCalls
  BY ConstantsAssumption DEF Init, TypePlugin, TypeStop, DyingCalls
<1>2. TypeFlags /\ TypeProcesses
  BY DEF Init, TypeFlags, TypeProcesses
<1>3. TypePipe
  BY ConstantsAssumption DEF Init, TypePipe
<1>4. EndedIsGone /\ CallHasProcess
  BY DEF Init, EndedIsGone, CallHasProcess
<1> QED
  BY <1>1, <1>2, <1>3, <1>4, TypeParts DEF SafeInv

LEMMA StepSafe == SafeInv /\ [Next]_vars => SafeInv'
<1> SUFFICES ASSUME SafeInv, [Next]_vars
             PROVE  SafeInv'
  OBVIOUS
<1>1. TypePlugin /\ TypeFlags /\ TypeProcesses /\ TypePipe /\ TypeStop /\ DyingCalls
  BY TypeParts DEF SafeInv
<1>2. TypePlugin' /\ TypeFlags' /\ TypeProcesses' /\ TypePipe' /\ TypeStop' /\ DyingCalls'
  BY <1>1, PluginTyped, FlagsTyped, ProcessesTyped, PipeTyped, StopTyped, DyingStep
<1>3. TypeOK'
  BY <1>2 DEF TypeOK, TypePlugin, TypeFlags, TypeProcesses, TypePipe, TypeStop, DyingCalls
<1>4. EndedIsGone' /\ CallHasProcess'
  BY <1>1, EndedStep, CallStep DEF SafeInv
<1> QED
  BY <1>3, <1>4 DEF SafeInv

\* The variables of the plugin, of the helpers and of the backends keep their types.
THEOREM TypeCorrect == Spec => []TypeOK
  BY InitSafe, StepSafe, PTL DEF Spec, SafeInv

\* The inductive invariant of a client that is not root.
PidInv ==
  /\ SafeInv /\ UnusedHasNone /\ BackendHasHelper
  /\ ~overlapped => OneHelper /\ PidIsCurrent
  /\ StopFindsBackend

LEMMA InitPid == Init => PidInv
<1> SUFFICES ASSUME Init
             PROVE  PidInv
  OBVIOUS
<1>1. UnusedHasNone /\ OneHelper /\ PidIsCurrent
  BY DEF Init, UnusedHasNone, OneHelper, PidIsCurrent
<1>2. BackendHasHelper /\ StopFindsBackend
  BY DEF Init, BackendHasHelper, StopFindsBackend, Running
<1> QED
  BY <1>1, <1>2, InitSafe DEF PidInv

LEMMA StepPid ==
  ASSUME ~AsRoot, PidInv, [Next]_vars
  PROVE  PidInv'
<1>1. TypePlugin /\ TypeProcesses /\ TypeStop
  BY TypeParts DEF PidInv, SafeInv
<1>2. SafeInv'
  BY StepSafe DEF PidInv
<1>3. UnusedHasNone' /\ BackendHasHelper'
  BY <1>1, UnusedStep, BackendStep DEF PidInv
<1>4. ~overlapped' => OneHelper' /\ PidIsCurrent'
  BY <1>1, OneHelperStep, PidStep DEF PidInv
<1>5. StopFindsBackend'
  BY <1>1, FoundStep DEF PidInv
<1> QED
  BY <1>2, <1>3, <1>4, <1>5 DEF PidInv

\* The window says that a connection has ended only when its backend has: the
\* process of the plugin is the script, which waits for the backend.
THEOREM EndedIsDown == ASSUME ~AsRoot PROVE Spec => []EndedMeansDown
<1>1. PidInv => EndedMeansDown
  <2> SUFFICES ASSUME PidInv, n # 0, proc = "ended"
               PROVE  backend[n] \notin Running
    BY DEF EndedMeansDown
  <2>1. n \in Sessions
    BY ConstantsAssumption DEF PidInv, SafeInv, TypeOK, Sessions
  <2>2. helper[n] = "gone"
    BY DEF PidInv, SafeInv, EndedIsGone
  <2> QED
    BY <2>1, <2>2 DEF PidInv, BackendHasHelper
<1>2. PidInv /\ [Next]_vars => PidInv'
  BY StepPid
<1> QED
  BY <1>1, <1>2, InitPid, PTL DEF Spec

\* As long as no two helpers of a profile overlap, the pidfile names the backend the
\* waiting helper has started, so that a stop finds it.
THEOREM StopFinds == ASSUME ~AsRoot PROVE Spec => []StopFindsBackend
<1>1. PidInv /\ [Next]_vars => PidInv'
  BY StepPid
<1>2. PidInv => StopFindsBackend
  BY DEF PidInv
<1> QED
  BY <1>1, <1>2, InitPid, PTL DEF Spec

-----------------------------------------------------------------------------
(***************************************************************************)
(* SslVpnProtocol implements PluginContract: a handler that changes what   *)
(* MainWindow sees has an outcome of the contract, the blocking calls and  *)
(* the processes change nothing, and what a destructor leaves is the next  *)
(* plugin.                                                                 *)
(***************************************************************************)
Reborn == Inst' = Contract!Plugin("SslVpn")

\* A handler that announces say and leaves phase.
LEMMA StepBecomes ==
  ASSUME NEW say, NEW phase, say # <<>>, state' = say[Len(say)].to, Phase' = phase
  PROVE  Contract!Becomes(Contract!Ends(say, phase), stopping')
<1>1. Contract!Ends(say, phase).say = say /\ Contract!Ends(say, phase).phase = phase
  BY DEF Contract!Ends
<1>2. Contract!After(Inst.state, say) = state'
  BY DEF Contract!After
<1> QED
  BY <1>1, <1>2 DEF Contract!Becomes, Inst

\* ... one state, or two.
LEMMA OneBecomes ==
  ASSUME NEW a, NEW phase, state' = a.to, Phase' = phase
  PROVE  Contract!Becomes(Contract!Ends(<<a>>, phase), stopping')
  BY StepBecomes

LEMMA TwoBecome ==
  ASSUME NEW a, NEW b, NEW phase, state' = b.to, Phase' = phase
  PROVE  Contract!Becomes(Contract!Ends(<<a, b>>, phase), stopping')
  BY StepBecomes

LEMMA InitContract == Init => Contract!Init
  BY DEF Init, Inst, Phase, Contract!Init, Contract!Plugin

\* connectWith, from the plugin MainWindow has just built.
LEMMA ConnectContract ==
  ASSUME TypeFlags, ConnectFails \/ Connect
  PROVE  Contract!ConnectWith
<1>1. Inst = Contract!Plugin("SslVpn") /\ stopping' = Inst.stop
  <2>1. Phase = "idle" /\ state = "Disconnected" /\ stopping = FALSE /\ stopping' = stopping
    BY DEF ConnectFails, Connect, Fresh, Phase, TypeFlags
  <2> QED
    BY <2>1 DEF Inst, Contract!Plugin
<1>2. CASE ConnectFails
  <2>1. state' = "Failed" /\ Phase' \in {"idle", "shut"}
    BY <1>2 DEF ConnectFails, Fresh, Phase
  <2>2. Contract!Ends(<<Contract!Fail("transient")>>, Phase') \in Contract!ConnectOutcomes("SslVpn")
    BY <2>1 DEF Contract!ConnectOutcomes, Contract!SslVpnConnect, Contract!Rejected,
                Contract!NoResource
  <2>3. Contract!Fail("transient").to = "Failed"
    BY DEF Contract!Fail
  <2> QED
    BY <1>1, <2>1, <2>2, <2>3, OneBecomes DEF Contract!ConnectWith
<1>3. CASE Connect /\ proc' = "running"
  <2>1. state' = "Connecting" /\ Phase' = "open"
    BY <1>3 DEF Connect, Phase
  <2>2. Contract!Ends(<<Contract!Say("Connecting")>>, "open") \in Contract!ConnectOutcomes("SslVpn")
    BY DEF Contract!ConnectOutcomes, Contract!SslVpnConnect
  <2>3. Contract!Say("Connecting").to = "Connecting"
    BY DEF Contract!Say
  <2> QED
    BY <1>1, <2>1, <2>2, <2>3, OneBecomes DEF Contract!ConnectWith
<1>4. CASE Connect /\ proc' = "ended"
  <2> DEFINE say == <<Contract!Say("Connecting"), Contract!Fail("transient")>>
  <2>1. state' = "Failed" /\ Phase' = "shut"
    BY <1>4 DEF Connect, Phase
  <2>2. Contract!Ends(say, "shut") \in Contract!ConnectOutcomes("SslVpn")
    BY DEF Contract!ConnectOutcomes, Contract!SslVpnConnect
  <2>3. Contract!Becomes(Contract!Ends(say, "shut"), stopping')
    BY <2>1, TwoBecome DEF Contract!Fail
  <2> QED
    BY <1>1, <2>2, <2>3 DEF Contract!ConnectWith
<1> QED
  BY <1>2, <1>3, <1>4 DEF Connect

\* A handler of the event loop that announces one state a.to.
LEMMA EventContract ==
  ASSUME NEW a, NEW phase, Contract!Ends(<<a>>, phase) \in Contract!SslVpnEvents(state, stopping),
         Phase = "open", state' = a.to, Phase' = phase, stopping' = stopping
  PROVE  Contract!Event
<1>1. Contract!Events(Inst) = Contract!SslVpnEvents(state, stopping)
  BY DEF Contract!Events, Inst
<1>2. Contract!Becomes(Contract!Ends(<<a>>, phase), Inst.stop)
  BY OneBecomes DEF Inst
<1> QED
  BY <1>1, <1>2 DEF Contract!Event

LEMMA LineContract ==
  ASSUME OnReadyRead
  PROVE  Contract!Event \/ UNCHANGED Inst
<1>1. Phase = "open" /\ Phase' = "open" /\ stopping' = stopping
  BY DEF OnReadyRead, Delivers, Phase
<1>2. CASE state' = state
  BY <1>1, <1>2 DEF Inst
<1>3. CASE state' # state
  <2>1. /\ state' \in {"Connected", "Authenticating", "Connecting"}
        /\ state' = "Authenticating" => state # "Connected"
        /\ state' = "Connecting" => state \notin {"Connected", "Authenticating"}
    BY <1>3 DEF OnReadyRead, Read
  <2>2. Contract!Ends(<<Contract!Say(state')>>, "open") \in Contract!SslVpnEvents(state, stopping)
    BY <2>1 DEF Contract!SslVpnEvents, Contract!When
  <2>3. Contract!Say(state').to = state'
    BY DEF Contract!Say
  <2> QED
    BY <1>1, <2>2, <2>3, EventContract
<1> QED
  BY <1>2, <1>3

LEMMA FinishedContract ==
  ASSUME OnFinished
  PROVE  Contract!Event
<1>1. Phase = "open" /\ Phase' = "shut" /\ stopping' = stopping
  BY DEF OnFinished, Delivers, Phase
<1>2. CASE state' = "Disconnected"
  <2>1. Contract!Ends(<<Contract!Say("Disconnected")>>, "shut")
          \in Contract!SslVpnEvents(state, stopping)
    BY DEF Contract!SslVpnEvents
  <2> QED
    BY <1>1, <1>2, <2>1, EventContract DEF Contract!Say
<1>3. CASE state' = "Failed" /\ ~stopping
  <2>1. Contract!Ends(<<Contract!Fail("transient")>>, "shut")
          \in Contract!SslVpnEvents(state, stopping)
    BY <1>3 DEF Contract!SslVpnEvents, Contract!When, Contract!Rejected
  <2> QED
    BY <1>1, <1>3, <2>1, EventContract DEF Contract!Fail
<1> QED
  BY <1>2, <1>3 DEF OnFinished, ExitState

LEMMA DisconnectContract ==
  ASSUME TypePlugin, Disconnect \/ DisconnectEnded
  PROVE  Contract!Disconnect
<1>1. stopping' = TRUE /\ Phase \in {"open", "shut"}
  BY DEF Disconnect, DisconnectEnded, Phase, TypePlugin
<1>2. Contract!DisconnectOutcomes(Inst) = Contract!SslVpnDisconnect(Phase)
  BY <1>1 DEF Contract!DisconnectOutcomes, Inst
<1>3. (Inst.stop \/ Inst.phase \notin {"idle", "assoc"}) = TRUE
  BY <1>1 DEF Inst
<1>4. CASE Disconnect
  <2>1. Phase = "open" /\ Phase' = "open" /\ state' = "Disconnecting"
    BY <1>4 DEF Disconnect, Phase
  <2>2. Contract!Ends(<<Contract!Say("Disconnecting")>>, "open")
          \in Contract!SslVpnDisconnect(Phase)
    BY <2>1 DEF Contract!SslVpnDisconnect, Contract!When
  <2>3. Contract!Becomes(Contract!Ends(<<Contract!Say("Disconnecting")>>, "open"), stopping')
    BY <2>1, OneBecomes DEF Contract!Say
  <2> QED
    BY <1>1, <1>2, <1>3, <2>2, <2>3 DEF Contract!Disconnect
<1>5. CASE DisconnectEnded
  <2> DEFINE say == <<Contract!Say("Disconnecting"), Contract!Say("Disconnected")>>
  <2>1. Phase' = "shut" /\ state' = "Disconnected"
    BY <1>5 DEF DisconnectEnded, Phase
  <2>2. Contract!Ends(say, "shut") \in Contract!SslVpnDisconnect(Phase)
    BY DEF Contract!SslVpnDisconnect
  <2>3. Contract!Becomes(Contract!Ends(say, "shut"), stopping')
    BY <2>1, TwoBecome DEF Contract!Say
  <2> QED
    BY <1>1, <1>2, <1>3, <2>2, <2>3 DEF Contract!Disconnect
<1> QED
  BY <1>4, <1>5

\* The wait of a disconnect() changes nothing, that of a destructor ends the plugin.
LEMMA ReturnContract ==
  ASSUME TypePlugin, CallHasProcess, CallReturns, call # "none"
  PROVE  Reborn \/ UNCHANGED Inst
<1>1. CASE dying
  BY <1>1 DEF CallReturns, Reborn, Inst, Phase, Contract!Plugin
<1>2. CASE ~dying
  <2>1. Phase' = Phase
    BY <1>2 DEF CallReturns, CallHasProcess, TypePlugin, Phase
  <2> QED
    BY <1>2, <2>1 DEF CallReturns, Inst
<1> QED
  BY <1>1, <1>2

\* The SSL VPN plugin keeps the contract MainWindow is checked against, also where its
\* handlers wait for the helpers; after a destructor it is the next plugin.
THEOREM Refinement == Spec => KeepsContract
<1>1. SafeInv /\ [Next]_vars => [Contract!Next \/ Inst' = Contract!Plugin("SslVpn")]_Inst
  <2> SUFFICES ASSUME SafeInv, [Next]_vars
               PROVE  Contract!Next \/ Reborn \/ UNCHANGED Inst
    BY DEF Reborn
  <2>1. TypePlugin /\ TypeFlags /\ CallHasProcess
    BY TypeParts DEF SafeInv
  <2>2. CASE ConnectFails \/ Connect
    BY <2>1, <2>2, ConnectContract DEF Contract!Next
  <2>3. CASE Disconnect \/ DisconnectEnded
    BY <2>1, <2>3, DisconnectContract DEF Contract!Next
  <2>4. CASE DestroyEnded
    BY <2>4 DEF DestroyEnded, Reborn, Inst, Phase, Contract!Plugin
  <2>5. CASE OnReadyRead
    BY <2>5, LineContract DEF Contract!Next
  <2>6. CASE OnFinished
    BY <2>6, FinishedContract DEF Contract!Next
  <2>7. CASE WaitReturns \/ KillExpires
    BY <2>1, <2>7, ReturnContract DEF WaitReturns, KillExpires
  <2>8. CASE UNCHANGED plugin
    BY <2>8 DEF plugin, Inst, Phase
  <2>9. ConnectWithKey \/ Destroy \/ StopReturns \/ WaitExpires \/ Stopper => UNCHANGED plugin
    BY DEF ConnectWithKey, Destroy, StopReturns, WaitExpires, Stopper, StopAsked, StopSignals,
           StopEscalates
  <2>10. ASSUME NEW s \in Sessions, Helper(s) \/ Backend(s)
         PROVE  UNCHANGED plugin
    BY <2>10 DEF Helper, Asked, Spawn, RecordPid, Reap, HelperExits, Backend, BackendPrints,
                 BackendUp, BackendFails, BackendCleans
  <2> QED
    BY <2>2, <2>3, <2>4, <2>5, <2>6, <2>7, <2>8, <2>9, <2>10
       DEF Next, User, EventLoop, Blocked, vars
<1> QED
  BY InitContract, InitSafe, StepSafe, <1>1, PTL DEF Spec, KeepsContract
=============================================================================
