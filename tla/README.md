# A verification of iNode-VPN

TLA+ modules of the iNode-VPN client, the TLC configurations that check them and
the theorems TLAPS proves about them. The client is a Qt program that keeps one
VPN or network-access session of one of seven kinds, reconnects when the session
drops, and runs its privileged work in helper processes; the SSL VPN kind has a
Python backend of its own. Paths below are relative to the repository's root.

## 1. The system

| Component | State it keeps | Operations | Hard part |
|---|---|---|---|
| `MainWindow` (src/MainWindow.cpp) | the live plugin, the profile it was built for, the last error, the reconnect scheduler, resets posted to the event loop | connect, disconnect, retry, the plugin's `stateChanged` and `errorOccurred` | signals are synchronous, deletions are posted: an untagged `m_active.reset()` may run when another plugin is live, and a destructor may announce states of its own |
| `AutoReconnect` (src/core) | armed, attempt, delay, timer, profile | `armFor`, `cancel`, `noteSuccess`, `noteFailure` | the counter must survive a retry and not a success; several failures may be reported for one attempt |
| `IProtocol` and its factory | the session state | `connectWith`, `disconnect`, `setState` | every kind announces different sequences |
| `EadProtocol` | step, socket, retransmission timer and count, heartbeat | posture handshake over UDP | loss, duplication, reordering, a late verdict after disconnect |
| `PortalProtocol` | dialect, socket, keep-alive | challenge / auth / affirm, or login / hash | no retransmission, replies obeyed in every state |
| `SslVpnProtocol` | helper process, connection name, user-disconnect flag | start the helper, read its output, stop it through a second helper | three processes and a pid file |
| `Dot1xProtocol`, `L2tpIpsecProtocol`, `WlanProtocol` | a process, a tunnel name, nmcli | run wpa_supplicant, the L2TP helper, nmcli | failures reported twice, processes that cannot be signalled |
| h3csvpn `session.py`, `httpclient.py`, `protocol.py` | cookies, gateway URLs | login, CAPTCHA loop, challenge loop, NET_EXTEND | bounded retry loops |
| h3csvpn `tunnel.py` | decoder buffer, early frames, missed heartbeats, stop flag | pump, heartbeat thread | two threads, one socket |
| h3csvpn `vnic.py` | TUN device, routes, resolv.conf and its backup | configure, close | killed between two file operations |
| `scripts/inode-*-helper` | pid files, ipsec / xl2tpd configuration | connect, stop, up, down | stop racing connect |
| `ProfileStore`, `ProfileEditor`, MainWindow's list handlers | the list of profiles, `profiles.json`, a dialog's widgets | load, save, add, edit, duplicate, remove, import | killed between two calls; a file that cannot be read or written; fields that pass through widgets |
| `CredentialStore`, `SecretServiceStore` | passwords in KWallet, the Secret Service or a file | store, retrieve, forget | three places, of which two come and go |
| `IpConfigurator`, `Dhcp`, `inode-ipcfg-helper` | address, default route, `resolv.conf` and its backup | apply, clear, renew | repeated without a clear between; killed, denied, or overtaken by other writers |
| `Settings`, `LogFile` | files under the user's configuration | accessors, rotation | |
| widgets, tray, theme, `main.cpp` | what is shown | | presentation |
| `mock/`, `tests/`, `captcha.py`, `crypto.py`, `spa.py` | none | | pure functions and test doubles |

Seven kinds of session share one interface, `IProtocol`: SSL VPN, portal, EAD
posture, 802.1X, L2TP/IPsec and WLAN (a WLAN session owns an 802.1X object); the
seventh, SDP, is the SSL VPN plugin with the options of a knock. The parts interact in
four ways:

* **Signals.** A plugin's `stateChanged` and `errorOccurred` are direct Qt signals:
  `MainWindow::onStateChanged` runs inside the plugin's handler, before its next
  line. It feeds the scheduler and *posts* the deletion of the plugin.
* **Timers and sockets.** The scheduler's single-shot timer, the plugins'
  retransmission and keep-alive timers and their UDP sockets call back from the
  event loop, in any order.
* **Processes.** The SSL VPN plugin starts a privileged script, the script starts
  the Python backend, and a second script stops it. They share a pipe and a pidfile.
* **Threads and files.** The backend's pump and heartbeat thread share a TLS socket
  and two counters; the backend and whatever ran before it share `resolv.conf`.

What makes each part correct:

| Component | Correct when |
|---|---|
| `MainWindow`, `AutoReconnect` | a retry never meets a live session; nothing reconnects after the user's stop or a permanent failure; retries stay within the budget, and a session has all of it when it drops; the window shows the live plugin; a scheduled retry happens |
| `EadProtocol`, `PortalProtocol` | online only when the server said so; a failed session is not revived; the client gives up only when unanswered; a handshake waits only with a timer; a disconnect ends; MainWindow sees only announcements it was checked against |
| `SslVpnProtocol` and its script | the window never calls a running backend ended; the pidfile names the backend; a stop that finds it ends the connection |
| `tunnel.py` | frames survive any cut of the stream; they are written in order, those sent before the configuration all of them, and one run at most is lost behind it; one writer at a time; the link is declared dead only when it is; a dead link, a log-off and the end of the pump end both threads |
| `session.py`, `cli.py` | every loop ends; the password is repeated only for a wrong captcha; the exit codes mean what the plugin reads; a tunnel that was up is cleaned up |
| `vnic.py` | the user's `resolv.conf` survives a backend killed at any point |
| `Dot1xProtocol`, `WlanProtocol`, `inode-ipcfg-helper` | nothing of ours is on the interface without a client; what others wrote to `resolv.conf` is kept, unless it was written between a test of the script and its `mv`; a disconnect ends the client; MainWindow sees only announcements it was checked against |
| `ProfileStore`, `ProfileEditor` | the file is always a whole list; a step changes one profile; a dialog changes the host, the port and *store password* only where the user touched them |
| `CredentialStore` | no password outlives its profile; a plugin gets the password given last |

## 2. The modules

| Module | Models | State and actions |
|---|---|---|
| `AutoReconnect` | `core/AutoReconnect.cpp` | functions on one record (`profile`, `armed`, `attempt`, `delay`); a running `QTimer` is a delay other than 0. Its callers run several of them in one handler, hence functions and not actions |
| `Protocol` | the plugins as MainWindow sees them | for each kind, what `connectWith`, `disconnect`, an event and the destructor may announce, as sequences, and the phase they leave. Translated from the six plugins |
| `PluginContract` | the life of one plugin under `Protocol` | the abstract specification the detailed plugins implement |
| `MainWindow` | `MainWindow.cpp` 125-132, 256-266, 372-526; `MCMainWindow` has the instance | extends `AutoReconnect` and `Protocol`. A handler leaves its announcements in `todo`; `Deliver` is `setState` followed by the whole of `onStateChanged`; `posted` is the queue of `m_active.reset()` calls; connecting takes two steps, because the old plugin's destructor speaks between them |
| `EadProtocol` | `protocols/EadProtocol.cpp` | every slot is an action; the server and a network that loses, duplicates and reorders are actions too |
| `PortalProtocol` | `protocols/PortalProtocol.cpp` | the same for the two dialects |
| `SslVpnProtocol` | `protocols/SslVpnProtocol.cpp`, `scripts/inode-svpn-helper` | plugin, helper of each connection, backend of each connection, stop helper, pipe and pidfile. `call` is the blocking call the GUI thread is in |
| `Tunnel` | `tunnel.py` without the decoder | one program counter for each thread (`pump`, `beat`), the send lock, `_miss`, `_stop`, `_early`, the socket buffer and the gateway |
| `FrameDecoder` | `encode_frame`, `FrameDecoder.feed` | the bytes in flight, the buffer, and whether `feed` is in its loop: the peer sends (`SendFrame`), a `recv` cuts the stream anywhere (`Feed`), each turn of the loop is a step (`DecodeOne`) until it breaks (`FeedReturns`); bytes are numbers below `Base`; it is why `Tunnel` may speak of whole frames |
| `Session` | `session.py`, `cli.py` | one program counter, the loop counters, the outcome and the exit code; a request and its answer are one step, and an answer that comes too late stays in the connection (`late`) |
| `ResolvConf` | `vnic.py` 137-188, 218-240 | one step per system call on `resolv.conf` or its backup; `Killed` between any two. Its specification is `FilesSpec`, so that `BackendProofs` can extend it beside `Session` |
| `Dot1xProtocol` | `Dot1xProtocol.cpp`, `WlanProtocol.cpp`, `IpConfigurator.cpp`, `Dhcp.cpp`, `scripts/inode-ipcfg-helper` | one object from construction to destruction; `at` is the wait it is in, `link` the interface and `resolv.conf`. `script` is the program counter of the root script, one action per command (`AddAddress`, `Grep`, `Backup`, `Write`, `Look`, `Restore`, …): it may fail at each, and another program may write `resolv.conf` before each. The handler that started it, and with it the whole program, waits for its end; `Resume` is the rest of the handler |
| `ProfileStore` | `ProfileStore.cpp`, `Profile.h` | operators on the list and the file |
| `ProfileEditor` | `ui/ProfileEditor.cpp` | operators: what the dialog shows, what the user may touch, what OK makes of it |
| `CredentialStore` | `CredentialStore.cpp`, `SecretServiceStore.cpp` | operators on the three backends |
| `Profiles` | the profile handlers of `MainWindow.cpp` 297-370 over the three modules above, and `CustomXmlImporter` | a handler leaves its calls in `todo`, `Step` makes the next; `End` may come between any two |
| `ProfileBook` | what the profile store promises | the abstract specification `Profiles` implements |
| `…Proofs` | | section 5 |

`MainWindow` is checked against `Protocol`'s outcomes, and `EadProtocol`,
`PortalProtocol`, `SslVpnProtocol` and `Dot1xProtocol` (802.1X and WLAN) are shown
to produce no others (`KeepsContract`): the composition is by refinement and not by
a product of state spaces. L2TP is only an outcome of `Protocol`: its work is one
blocking call of a helper.

A definition preceded by *Faulty variant* is what a plausible bug would make of the
definition behind it. No specification uses it: replacing the one by the other
makes the property it was written for fail, which shows that the property depends
on that code. The pairs are listed in `PROJECT.json` under `mutants`.

## 3. The runs

    tlc -config <cfg> <module>

| Run | Instance | What it shows |
|---|---|---|
| `main_window` | `MainWindow.cfg`, `MCMainWindow` | the six invariants of the connection manager, and that a scheduled retry is made, with one reconnecting profile of each kind and one edited to fewer tries |
| `ead` | `EadProtocol.cfg` | giving up, being online and failing mean what they say; the handshake and a disconnect end; the contract is kept |
| `portal` | `PortalProtocol.cfg` | online means accepted and kept alive; a disconnect ends; the contract is kept |
| `sslvpn` | `SslVpnProtocol.cfg` | *ended* in the window means that the backend does not run; the pidfile names it while no two helpers of a profile overlap; a stop that finds it ends the connection; the contract is kept |
| `tunnel` | `Tunnel.cfg` | frames are written in order, none twice; those in front of the configuration all arrive, and behind it one run at most is passed over; one writer, no false alarm; a dead link and a stop end the pump, its end the heartbeat thread |
| `frames` | `FrameDecoder.cfg` | every short stream, cut in every way, gives its frames, in order, as soon as they are complete |
| `session` | `Session.cfg` | loops end, no needless repetition of the password, right exit codes, clean-up of a tunnel that was up, also after the documented Ctrl-C |
| `resolv` | `ResolvConf.cfg` | the user's `resolv.conf` is in one of its two places after any number of killed backends |
| `profiles` | `Profiles.cfg`, `MCProfiles` | wherever the process ends and whatever fails, the file is a whole book; no password is left without a profile; the last password is the one used; a dialog leaves the host, the port and *store password* alone unless they were touched on the profile's own page, also when pages of other protocols were filled in between |
| `dot1x` | `Dot1xProtocol.cfg` | without a client nothing of ours is on the interface; the last foreign `resolv.conf` is in one of its two places after every command of the script, unless it was written between a test and its `mv`; a disconnect ends; the contract is kept |
| `sslvpn_graceful` | `SslVpnGraceful.cfg` | refuted: a stop lets the backend clean up |
| `tunnel_coalesced` | `TunnelCoalesced.cfg`, `Tunnel` | refuted: no frame seen while the configuration was awaited is dropped |

**Bounds.** Each is named where it is declared.

* `MaxPosted = 2`: no new handler starts with two resets queued. A plugin posts one
  for each end it announces, and at most two of its announcements in a row are ends;
  two queued resets already give the own one and a stale one in each order. The theorems hold for every bound.
* `tries = 2`, `backoff = 40` in `EveryKind`: the first retry, the last one and the
  giving up, a delay below and one at the cap; one profile has a second version with a try less, as after an edit between two attempts.
* `MaxRetries = 3` is the code's; `MaxDups = 1` (EAD) and `2` (portal) duplicates and
  one re-check give a late verdict after each state. The network holds a set of
  opcodes, so that any number of losses and every order are covered.
* `MaxSessions = 2`, `MaxLines = 2`: an old helper against a new connection, and a
  line overtaken by the next.
* `MaxMiss = 2`, `MaxData = 3`, `MaxControl = 1`, `MaxFlight = 3`: a count that is
  reset halfway, an acknowledgement or a log-off, and frames in front of the configuration, behind it in
  the same `recv`, and after that one. The theorems hold for every bound.
* `Base = 3`, payloads up to 3 bytes of two values, two frames: with a base of 3 a payload of 3 uses both
  bytes of the length, as 256 does in the code. The theorem holds for every base and length.
* `MaxHops = MaxGuard = Retries = 3` for 10, 10 and the option: the loops only
  compare with them. Ctrl-C may come anywhere, any number of
  times; `interrupted` remembers where.
* Two backends in `ResolvConf`: one after the other, each killed anywhere and started again, without limit.
* `MaxHandlers = 2`, two ids, two passwords, `MaxImported = 2`: a profile that is added and then edited, removed
  or duplicated, in one life of the process or in two, with every fault between the calls. Three kinds (the two
  with a server page, and one with the interface), two hosts and two ports: a value of the page that is shown, and
  another one on a page that is left again. The theorems hold for every bound.
* `Dot1xProtocol` has no counters; another program writes one of two versions of `resolv.conf` (`Files`), any
  number of times, at any moment, also between two commands of the script.

`CHECK_DEADLOCK FALSE` stands where the modelled object ends: a deleted plugin, a
process that has exited, a stream that is read.

## 4. Fairness

Only what the code's schedulers owe is assumed. Qt's event loop dispatches elapsed
timers and posted calls: weak fairness of `Deliver`, `ContinueConnect`, `Retry`,
`OnRetry`, `Teardown`, `Destroy`. `PostedReset` is strongly fair, because it may only
run between two handlers, and the loop serves its sources in turn. In `Tunnel` both
threads run; acquiring the send lock is strongly fair, because its holder goes back to
a wait after each frame. In `SslVpnProtocol` the scripts proceed and pkexec's dialogs
are answered or time out; in `Session` a request is answered or times out after its
30 s. In `Dot1xProtocol` the three waits (for the client to end after a signal, in the destructor, and for the
script) are timed, and the kernel ends a process that was killed; the ends of the first two waits and of the
killed process are strongly fair, because a line of the client may run the script in between. A client that was
only asked to end may go on for ever. `Profiles` states nothing
that must happen. Users, gateways, servers and the network owe nothing: a packet may never come, a
login may never succeed and a tunnel may never end.

`HandshakeEnds` names two exceptions (the history variable
`untimed`): a name that does not resolve, and a packet that asks for nothing. After
either of them the code has no timer left, and the client may wait for ever.

## 5. The theorems

Proved by TLAPS, for all values of the constants that satisfy the modules' assumptions.

| Module | Shows | Argument |
|---|---|---|
| `MainWindowProofs` | what each kind's outcomes are made of (well-formed announcements; a connect announces something, and first of all a new state; the null plugin is silent), one case per kind; that delays never shrink and stay within 1..60 s (`BackoffGrows`, `DelayRange`); types and the six safety invariants of the run, for any set of profiles and any `MaxPosted` | below |
| `EadProtocolProofs` | types, `GivesUpOnlyUnanswered`, `WaitingIsTimed`, `ConnectedWasAccepted`, `FailureIsFinal`, and that the client implements `PluginContract` | the count never runs ahead of what was sent (`CountsAreSent`), a failed session has no open socket, a verdict in flight was given; for the refinement, one outcome per handler |
| `PortalProtocolProofs` | `ConnectedWasAccepted`, `ConnectedIsKeptAlive`, and the refinement | a verdict in flight was given, and whatever announces Connected starts the keep-alive, also during a disconnect |
| `TunnelProofs` | types, `OneWriter`, `OfflineOnlyUnanswered` and `LossesAreBehindConfig`, for any gateway | the misses are covered by heartbeats sent (`MissesAreSent`); a step sends one more frame, leaves what is pending, drops the rest of a batch that is behind the configuration, or delivers the first that is pending (`Effect`: `OneIsSent`, `NoneIsLost`, `RestIsLost`, `FirstIsDelivered`), so that the queues stay in order behind what was delivered (`QueuesInOrder`, `PendingIsBehind`); the configuration is awaited once (`CfgInPlace`), so that all that is ever missing is the rest of one batch (`MissingIsRest`) |
| | of the decoder: types, and `FramesSurvive` for every width of a byte and every length of the stream | the buffer followed by the bytes in flight are the encodings of the frames sent and not yet decoded, each at its position (`Framed`): two neighbouring positions lie the size of their frame apart, so that no sum and no induction is needed |
| `SslVpnProtocolProofs` | types and the refinement of `PluginContract`, for every client; for a client that is not root `EndedMeansDown` and `StopFindsBackend` | below |
| `BackendProofs` | of `Session`: types, `ExitCodesAreRight`, `TunnelIsCleanedUp`, `PasswordIsNotRetried`, for any limits of the loops | where the session and the device are at each point of `main` (`AuthMatches`, `DeviceMatches`, `ExitIsLast`), what the last answer was (`ResultMatches`), and that each login uses up a try (`TriesMatch`) |
| | of `ResolvConf`: types, whatever overlaps and fails; with one backend at a time and restorations that succeed, `OriginalIsKept` and `BackupOutlivesOurs` | for each program point, which of the two files holds the user's content (`BackendOK`) |
| `Dot1xProtocolProofs` | types, `LinkFollowsClient`, `ResolverIsKept`, and that the 802.1X and the WLAN plugin implement `PluginContract` | what a run of the script knows from its tests and commands until it ends, as long as nobody writes in between (`Tested`, `TestedLast`, `Cleared`), that there is a backup behind a file of ours (`Backed`, `BackedLast`), and that `clear` undoes what `apply` did, because the profile is the same (`Asked`); nothing of ours is there before a client was started and after `clear` has run to its end (`NotProgrammed`) |
| `ProfilesProofs` | types, `PasswordHasProfile`, `LatestPasswordIsUsed`, `OnlyTouchedFieldsChange`, and that the store implements `ProfileBook` | what a handler has still to do has one of a few shapes (`TodoShape`), so that a store follows the upsert of its profile and a removal the forget; without a fault of a backend an entry is only where the process can still reach it (`SecretsInOrder`); for the dialogs, what the widgets show of an untouched field through two choices of the protocol (`Shown`); the ids of the list and of the file are distinct (`OneEach`), so that upsert and remove change one entry of the book |

The invariants of `MainWindow` are not inductive. That a retry finds no session holds
because a pending retry is always followed by the reset of the plugin that failed
(`RetryAfterReset`), and because only one plugin speaks at a time, the live one or a
dying one (`OneSpeaker`); that the attempts are bounded, because each automatic attempt
used up one count of the scheduler (`AttemptsAreCounted`, `CallIsCounted`); that the
window is right between two handlers, because within one it is right or about to be
(`WindowFollows`). `IInv` is the conjunction of these parts. Each part is proved to be
preserved by `Deliver` and by each handler, whose announcements the lemmas at the start
of the module describe.

`EndedMeansDown` speaks of the plugin's process and of the backend two processes further down.
It holds because a backend runs only below a running helper (`BackendHasHelper`), the
helper of the current connection is gone when its process has ended (`EndedIsGone`), and a connection not
made yet has neither (`UnusedHasNone`). The first of these is what a client that is root breaks: it
can kill the helper, and `SslVpnAsRoot.cfg` shows the orphan. That is why the two theorems assume
`~AsRoot`; the types and the refinement rest on `SafeInv`, which holds for every client. For `StopFindsBackend` one more
fact is needed, while no two helpers of a profile overlap: there is one helper at most (`OneHelper`),
and its pidfile has been written by it and removed by nobody else since (`PidIsCurrent`).

Only model-checked: all liveness (`RetryHappens`, `HandshakeEnds`, `DisconnectEnds`,
`FoundIsStopped`, `PumpEnds`, `HeartbeatEnds`, `AuthenticationEnds`), which is beyond the prover
here; and that the library's `remove_if` computes `Removed` although its argument is a reference into
the list (`RemoveLoop` in `MCProfiles`, for lists up to four), an induction over data. Every
invariant, action property and refinement of the passing runs is also a theorem.

## 6. Where the code and its documents part

Two disagreements have a run (`findings` in `PROJECT.json`):

* `sslvpn_graceful`: `inode-svpn-helper:22-23` promises a graceful stop by SIGINT.
  The backend is a background job of a script and ignores SIGINT, so that each stop kills
  it after 5 s: no logout, and `resolv.conf` is restored only by the next backend.
* `tunnel_coalesced`: frames that arrive while the configuration is awaited *are never dropped*
  (`tunnel.py:264-266`). `wait_netconfig` returns from inside its loop over the decoded frames (`:289`):
  those behind the netconfig frame in the same `recv` are lost, and later ones are delivered. Nothing makes a
  gateway end its TLS record there. `LossesAreBehindConfig` says how much of the promise is kept.

The others are stated in the modules and refuted by configurations that are not in
the list of runs, with the command of section 3; each checks one property, but for
`Dot1xLeftBehind.cfg`, which checks two (with `-continue` TLC refutes both):

| Configuration | Module and property | What the trace shows |
|---|---|---|
| `MainWindowGiveUp.cfg` | `MCMainWindow`, `GivingUpIsFinal` | *giving up after %1 attempts* (`AutoReconnect.cpp:35`): an attempt that fails twice has by then started its timer, and another attempt follows; `RetriesAreBounded` shows that it is one at most |
| `MainWindowButton.cfg` | `MCMainWindow`, `ButtonDoesWhatItSays` | between two plugins, or after a reset posted by another one, the button carries the label of a plugin that is gone (`MainWindow.cpp:517`) |
| `MainWindowDrops.cfg` | `MCMainWindow`, `OnlyDropsAreRetried` | an attempt that never worked is retried (`CHANGELOG.md:154`) |
| `MainWindowAfresh.cfg` | `MCMainWindow`, `UserConnectStartsAfresh` | the user's connect inherits the exhausted counter (`AutoReconnect.cpp:15-16`) |
| `PortalProtocolDropped.cfg` | `PortalProtocol`, `DroppedServerIsDetected` | the keep-alive's answer is never awaited (`PortalProtocol.cpp:321-322`) |
| `SslVpnTooEarly.cfg` | `SslVpnProtocol`, `DisconnectEnds` | a stop before the pidfile is written stops nothing (`inode-svpn-helper:9-10`) |
| `SslVpnAsRoot.cfg` | `SslVpnProtocol`, `EndedMeansDown` | a client that is root kills the helper and orphans the backend |
| `SessionLogsOut.cfg` | `Session`, `LogsOut` | Ctrl-C before the TUN device is opened ends without a logout (`docs/USAGE.md:47-48`) |
| `SessionDrop.cfg` | `Session`, `DropIsAFailure` | a forced log-off ends with 0, which the plugin takes for a disconnect (`CHANGELOG.md:154`) |
| `SessionHeader.cfg` | `Session`, `HeaderConfigIsRead` | a configuration in the HTTP headers is not read (`CHANGELOG.md:155-159`) |
| `SessionDomains.cfg` | `Session`, `DomainListIsBestEffort` | the late domain list is read as the answer to the next request (`session.py:154`) |
| `ResolvConfOverlap.cfg` | `ResolvConf`, `NeverCapturesItself` | a second backend keeps the first one's file as the user's (`vnic.py:141-142`); with `Overlap = FALSE` and `RestoreFails = TRUE` a failed restoration does the same |
| `ResolvConfMode.cfg` | `ResolvConf`, `EverythingIsRestored` | afterwards only root can read `resolv.conf` (`vnic.py:8`) |
| `ProfilesInterface.cfg` | `MCProfiles`, `InterfaceIsKept` | `ProfileEditor.cpp:163-164` sends the user of a WLAN profile to the 802.1X page to edit its interface, and `:493` prefers the item's data over the text. The box is editable: setting or typing a text leaves the current item, whose data OK writes. Every accepted dialog replaces the interface by the first one listed, unless the user picked one |
| `ProfilesLeftBehind.cfg` | `MCProfiles`, `NothingIsLeftBehind` | *make sure nothing is left behind in the credential store* (`MainWindow.cpp:333-334`): the entry of a wallet that does not open at that moment is |
| `Dot1xLeftBehind.cfg` | `Dot1xProtocol`, `NothingIsLeft` | the destructor's 2 s end before the client does, and nothing undoes the static address (`Dot1xProtocol.cpp:205`) |
| | `Dot1xProtocol`, `ResolverIsNeverLost` | a `resolv.conf` that another program writes behind the test or the copy is overwritten by the `mv` (`inode-ipcfg-helper:64-75`, `:85-86`) |
| `Dot1xAsRoot.cfg` | `Dot1xProtocol`, `DisconnectEnds` | a client started by pkexec takes no signal from the program, and a disconnect leaves it running |
| `Dot1xRoute.cfg` | `Dot1xProtocol`, `RouteIsPutBack` | *drop the default route we added* (`inode-ipcfg-helper:13`): the one it replaced is not put back |

Steps of the models that no property is about: a profile with an SPA key crashes the client, which
uses `m_proc` before it is built (`SslVpnProtocol.cpp:182`, against `cli.py:157`); the backend does not
know `--split-tunnel`, which `docs/PROTOCOLS.md:104` promises, and ends with a usage error.

Beyond the models: the netmask `24` becomes `/2` (`vnic.py:36`, against
`CHANGELOG.md:160-162`); the portal client sends each request once, without a timer; the
EAD client, once online, never counts unanswered heartbeats; an nmcli that cannot be started leaves a
WLAN session Connecting (`WlanProtocol.cpp:61-71`); a portal profile's port of 0, which
means 2000 to the plugin, is shown as 2000 and becomes 2000 with any OK, likewise an `eadPort` of 0 becomes 9019 on
the EAD page (`ProfileEditor.cpp:443`, `:459`); `userCertPin` is read and nothing stores it
(`ProfileStore.cpp:51`); nothing starts `inode-dot1x-helper`.

## 7. What is not modelled

* Contents: packet bodies, XML, ciphers, captchas, statistics, log lines. They decide
  which outcome happens, and every outcome is allowed.
* The modal error box MainWindow opens without a tray, whose nested event loop would
  let posted resets run inside a handler (it needs a stack of handlers, and the outcome
  is the destruction of an object whose function is running); a dialog that is open while
  a retry fires, which works on a copy of the profile.
* Fields of a profile other than those the properties tell apart: the store copies them, and a dialog moves them
  through widgets of their own, which trim texts and turn an `eadPort` of 0 into 9019 (`ProfileEditor.cpp:459`, `:534`).
* `inode-l2tp-helper`: one blocking call, whose result is a choice; a script that was started through pkexec and goes
  on after the 32 s the program waits for `inode-ipcfg-helper`.
* A TLS record that arrives in parts, during which `recv` blocks with `select`
  satisfied; writers of `resolv.conf` other than the backend (in `ResolvConf`; `Dot1xProtocol` has one).
* Windows and themes; settings and logs; the netmask and route conversions of `vnic.py`.

## 8. What could follow

1. `NetConfig`, pure: masks, routes and the netconfig block, against `CHANGELOG.md:160-162`;
   then routes and addresses of `vnic.py`, with the failure of one step of several.
2. A stack of handlers in `MainWindow`, for the modal error box.
3. `inode-l2tp-helper`'s `up` against its `down`.
