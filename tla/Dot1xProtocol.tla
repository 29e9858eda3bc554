--------------------------- MODULE Dot1xProtocol ---------------------------
(***************************************************************************)
(* The 802.1X plugin (protocols/Dot1xProtocol.cpp), the WLAN plugin that   *)
(* puts an association before it (WlanProtocol.cpp), and the static        *)
(* address they program through core/IpConfigurator.cpp and the root       *)
(* script scripts/inode-ipcfg-helper: one object from its construction to  *)
(* its destruction, its client process, and the interface.                 *)
(*                                                                         *)
(* disconnect() and the destructor wait for the process inside a handler:  *)
(* its lines and its end are handled there, the rest of the program waits. *)
(* A handler that runs the root script waits for that too, and then for    *)
(* nothing else; other programs go on meanwhile.                           *)
(***************************************************************************)
EXTENDS Protocol

CONSTANTS
  Kind,       \* "Dot1x", or "Wlan": nmcli associates first
  Modes,      \* subset of {"Inherit", "Dhcp", "Static"}: Profile's ipMode
  ViaPkexec,  \* the client runs as root and the program does not
  Files       \* the versions of resolv.conf that other programs write

ASSUME Dot1xAssumption == /\ Kind \in {"Dot1x", "Wlan"}
                          /\ Modes \subseteq {"Inherit", "Dhcp", "Static"}
                          /\ ViaPkexec \in BOOLEAN
                          /\ "ours" \notin Files /\ "none" \notin Files

VARIABLES
  state,    \* IProtocol::m_state
  stop,     \* disconnect() got as far as m_proc->terminate()
  proc,     \* "none" (m_proc is null), "assoc" (nmcli runs), "starting" (fork and
            \* pkexec's question), "running", "killed" (SIGKILL is sent), "ended"
  at,       \* "loop", "stopping" (in disconnect()), "dying" (in ~Dot1xProtocol), "dead"
  profile,  \* m_profile: its IP mode, and whether it names a gateway and DNS servers
  link,     \* the interface's address and default route, resolv.conf and its backup
  script,   \* the next command of the root script the handler waits for, "done" when
            \* that has ended, "none" outside such a handler
  others,   \* what another program last wrote to resolv.conf
  failed,   \* history: a run of the root script failed or was denied
  raced     \* history: the last foreign write fell between a test and the mv it allows

vars == <<state, stop, proc, at, profile, link, script, others, failed, raced>>
unlinked == <<profile, link, script, others, failed, raced>>

Init ==
  /\ state = "Disconnected" /\ stop = FALSE /\ proc = "none" /\ at = "loop"
  /\ profile \in [mode : Modes, gw : BOOLEAN, dns : BOOLEAN]
  /\ others \in Files /\ failed = FALSE /\ raced = FALSE /\ script = "none"
  /\ link \in [addr : {"none", "lease"}, route : {"none", "theirs"},
               resolv : {others}, backup : {"none"}]

-----------------------------------------------------------------------------
(***************************************************************************)
(* The root script, one action per command: other programs may write       *)
(* resolv.conf before each.  resolv.conf exists, so cp copies it.          *)
(***************************************************************************)
Command(now, after, next) ==
  /\ script = now /\ link' = after /\ script' = next
  /\ UNCHANGED <<state, stop, proc, at, profile, others, failed, raced>>

AddAddress == Command("address", [link EXCEPT !.addr = "ours"], "route")

AddRoute == Command("route", IF profile.gw THEN [link EXCEPT !.route = "ours"] ELSE link,
                    IF profile.dns THEN "grep" ELSE "done")

\* Faulty variant: the script's own file is saved over the original.
GrepForgets == Command("grep", link, "cp")

Grep   == Command("grep", link, IF link.resolv = "ours" THEN "mv" ELSE "cp")
Backup == Command("cp", [link EXCEPT !.backup = link.resolv], "mv")
Write  == Command("mv", [link EXCEPT !.resolv = "ours"], "done")

DropRoute ==
  Command("unroute", IF profile.gw /\ link.route = "ours" THEN [link EXCEPT !.route = "none"]
                                                         ELSE link, "unaddress")

DropAddress ==
  Command("unaddress", IF link.addr = "ours" THEN [link EXCEPT !.addr = "none"] ELSE link, "look")

Look == Command("look", link,
                IF link.resolv = "ours" /\ link.backup # "none" THEN "restore" ELSE "done")

Restore == Command("restore", [link EXCEPT !.resolv = link.backup, !.backup = "none"], "done")

\* A command fails under set -e, the script is denied, or it is killed after 30 s.
ScriptFails ==
  /\ script \notin {"none", "done"} /\ script' = "done" /\ failed' = TRUE
  /\ UNCHANGED <<state, stop, proc, at, profile, link, others, raced>>

\* dhcp::renew: nmcli reapplies, or dhclient releases the lease and asks again.
Renew == \E a \in {link.addr, "none", "lease"} : link' = [link EXCEPT !.addr = a]

Apply ==
  /\ script' = IF profile.mode = "Static" THEN "address" ELSE "done"
  /\ IF profile.mode = "Dhcp" THEN Renew ELSE link' = link

\* Faulty variant: the address is taken away only from an authenticated link.
ClearIfConnected ==
  script' = IF profile.mode = "Static" /\ state = "Connected" THEN "unroute" ELSE "done"

Clear == script' = IF profile.mode = "Static" THEN "unroute" ELSE "done"

-----------------------------------------------------------------------------
\* Dot1xProtocol::connectWith: rejected for want of an interface, a user name, a
\* password or a client, or started.
StartClient ==
  \/ state' = "Failed" /\ proc' = "none"
  \/ state' = "Connecting" /\ proc' = "starting"

\* WlanProtocol::associate: there is no nmcli, or it is started.
Associate ==
  \/ state' = "Failed" /\ proc' = "none"
  \/ state' = "Connecting" /\ proc' = "assoc"

\* MainWindow calls connectWith once per object.
ConnectWith ==
  /\ at = "loop" /\ state = "Disconnected" /\ proc = "none"
  /\ StartClient \/ (Kind = "Wlan" /\ Associate)
  /\ UNCHANGED <<stop, at, unlinked>>

Associated ==
  /\ at = "loop" /\ proc = "assoc"
  /\ (state' = "Failed" /\ proc' = "none") \/ StartClient
  /\ UNCHANGED <<stop, at, unlinked>>

Alive == proc \in {"starting", "running", "killed"}

\* The handlers below start when no other waits for the script.
Free == at # "dead" /\ script = "none"

\* The program is exec'ed; through pkexec, after the user has been asked.
Starts ==
  /\ Free /\ proc = "starting" /\ proc' = "running"
  /\ UNCHANGED <<state, stop, at, unlinked>>

\* disconnect() and the destructor go on when the process has ended.
Waited == CASE at = "stopping" -> "loop" [] at = "dying" -> "dead" [] OTHER -> at

\* errorOccurred(FailedToStart) is not followed by finished().
StartFails ==
  /\ Free /\ proc = "starting"
  /\ proc' = "ended" /\ state' = "Failed" /\ at' = Waited
  /\ UNCHANGED <<stop, unlinked>>

\* The password could not be written to the client.
WriteFails ==
  /\ Free /\ Alive /\ state' = "Failed"
  /\ UNCHANGED <<stop, proc, at, unlinked>>

\* onReadyRead: a line that says success, failure, or challenge or request, obeyed
\* in every state; a first success programs the address before it is announced.
OnReadyRead ==
  /\ Free /\ proc \in {"running", "killed"}
  /\ \E s \in Dot1xLines :
       IF s = "Connected" /\ state # "Connected"
         THEN Apply /\ state' = state
         ELSE UNCHANGED <<link, script>> /\ state' = s
  /\ UNCHANGED <<stop, proc, at, profile, others, failed, raced>>

\* onFinished, up to what it announces.
OnFinished ==
  /\ Free /\ Alive /\ proc' = "ended" /\ Clear
  /\ UNCHANGED <<state, stop, at, profile, link, others, failed, raced>>

\* The rest of the two handlers; errorOccurred(Crashed) came before the second where
\* the process was killed.
Resume ==
  /\ script = "done" /\ script' = "none"
  /\ IF proc = "ended" THEN state' \in {f[Len(f)].to : f \in Dot1xFinished(state)} /\ at' = Waited
                       ELSE state' = "Connected" /\ at' = at
  /\ UNCHANGED <<stop, proc, profile, link, others, failed, raced>>

\* Faulty variant: there may be no process.
DisconnectAlways ==
  /\ at = "loop" /\ script = "none"
  /\ state' = "Disconnecting" /\ stop' = TRUE
  /\ at' = IF Alive THEN "stopping" ELSE at
  /\ UNCHANGED <<proc, unlinked>>

\* Not while nmcli associates: m_inner has no m_proc yet.
Disconnect ==
  /\ at = "loop" /\ script = "none" /\ proc \notin {"none", "assoc"}
  /\ state' = "Disconnecting" /\ stop' = TRUE
  /\ at' = IF Alive THEN "stopping" ELSE at
  /\ UNCHANGED <<proc, unlinked>>

\* A process of root's takes no signal from the program.
Killed == IF ViaPkexec /\ proc = "running" THEN proc ELSE "killed"

\* Faulty variant: the client is only asked to end.
NotKilled == /\ at = "stopping" /\ script = "none" /\ at' = "loop"
             /\ UNCHANGED <<state, stop, proc, unlinked>>

\* waitForFinished(3000) returns false.
KillIt ==
  /\ at = "stopping" /\ script = "none" /\ at' = "loop"
  /\ proc' = Killed
  /\ UNCHANGED <<state, stop, unlinked>>

Destroy ==
  /\ at = "loop" /\ script = "none"
  /\ at' = IF Alive THEN "dying" ELSE "dead"
  /\ UNCHANGED <<state, stop, proc, unlinked>>

\* waitForFinished(2000) returns false: ~QObject drops the connections, then
\* ~QProcess kills.
Abandon ==
  /\ at = "dying" /\ script = "none" /\ at' = "dead"
  /\ proc' = Killed
  /\ UNCHANGED <<state, stop, unlinked>>

\* Another program (NetworkManager, a DHCP client) writes resolv.conf.
OthersWrite ==
  /\ others' \in Files /\ link' = [link EXCEPT !.resolv = others']
  /\ raced' = (script \in {"mv", "restore"})
  /\ UNCHANGED <<state, stop, proc, at, profile, script, failed>>

Script ==
  \/ AddAddress \/ AddRoute \/ Grep \/ Backup \/ Write
  \/ DropRoute \/ DropAddress \/ Look \/ Restore \/ ScriptFails

Next ==
  \/ ConnectWith \/ Associated \/ Starts \/ StartFails \/ WriteFails \/ OnReadyRead
  \/ OnFinished \/ Resume \/ Disconnect \/ KillIt \/ Destroy \/ Abandon
  \/ Script \/ OthersWrite

Spec == Init /\ [][Next]_vars

\* The wait for the script is timed.  So are the other two, and the kernel ends what
\* it was told to kill, however many lines the client has said by then: each line may
\* run the script, hence SF.  The client itself may go on for ever.
FairSpec == Spec /\ WF_vars(Script) /\ WF_vars(Resume)
                 /\ SF_vars(KillIt) /\ SF_vars(Abandon)
                 /\ SF_vars(proc = "killed" /\ OnFinished)

-----------------------------------------------------------------------------
Applying == {"address", "route", "grep", "cp", "mv"}
Clearing == {"unroute", "unaddress", "look", "restore"}

TypeOK ==
  /\ state \in ConnectionState /\ stop \in BOOLEAN
  /\ proc \in {"none", "assoc", "starting", "running", "killed", "ended"}
  /\ at \in {"loop", "stopping", "dying", "dead"}
  /\ profile \in [mode : Modes, gw : BOOLEAN, dns : BOOLEAN]
  /\ link \in [addr : {"none", "lease", "ours"}, route : {"none", "theirs", "ours"},
               resolv : Files \cup {"ours"}, backup : Files \cup {"none"}]
  /\ script \in {"none", "done"} \cup Applying \cup Clearing
  /\ others \in Files /\ failed \in BOOLEAN /\ raced \in BOOLEAN

OursIsNot(l) == "ours" \notin {l.addr, l.route, l.resolv}

\* Dot1xProtocol.cpp:205 "The link is down -- undo any static address we programmed
\* for it.": without a client process, and when the handler of its end has returned,
\* nothing of ours is left on the interface, however often the client authenticated
\* again and whatever its lines said between, unless the root script failed.
LinkFollowsClient ==
  proc \in {"none", "assoc", "ended"} /\ script = "none" /\ ~failed => OursIsNot(link)

\* inode-ipcfg-helper:64 "Back up the real resolv.conf once (don't capture our own
\* file)": what another program last wrote is in resolv.conf or in the backup, after
\* every command of the script, wherever that is cut short and however often it runs.
\* Excepted is a write that falls between grep or cp and the mv behind it (:65-75 of
\* apply), or between grep and the mv of clear (:85-86).
ResolverIsKept == ~raced => others \in {link.resolv, link.backup}

\* Refuted: the same without the exception: the mv puts its file over the other's.
ResolverIsNeverLost == others \in {link.resolv, link.backup}

\* A requested disconnect ends the client, also one that ignores SIGTERM.
DisconnectEnds == stop ~> (proc = "ended" \/ at = "dead")

\* The plugin keeps the contract MainWindow is checked against.
Phase == CASE proc = "none" -> "idle" [] proc = "assoc" -> "assoc"
           [] proc = "ended" /\ script = "none" -> "shut" [] OTHER -> "open"
inst == [kind |-> Kind, state |-> state, phase |-> Phase, stop |-> stop]
Contract == INSTANCE PluginContract
KeepsContract == Contract!Spec

\* Refuted: an object that is destroyed leaves nothing of ours on the interface
\* (the destructor's wait ends before the client does).
NothingIsLeft == at = "dead" /\ ~failed => link.addr # "ours"

\* Refuted: inode-ipcfg-helper:13 "Undo the above: drop the default route we added":
\* a default route the script replaced is there again when ours is dropped.
RouteIsPutBack == link.route = "theirs" => [](link.route # "none")
=============================================================================
