------------------------------ MODULE Protocol ------------------------------
(***************************************************************************)
(* What MainWindow can see of a protocol plugin (core/Protocol.h): the     *)
(* states a handler of each plugin may announce, in order, and what is     *)
(* left of the plugin's process, socket or tunnel when the handler         *)
(* returns.  One operator per entry point: connectWith, disconnect, the    *)
(* destructor, and the plugin's own sockets, timers and processes.         *)
(*                                                                         *)
(* A plugin's wire protocol is abstracted here to the choice between its   *)
(* outcomes; the modules named after the plugins give it in detail.        *)
(***************************************************************************)
EXTENDS Sequences

ConnectionState == {"Disconnected", "Connecting", "Authenticating",
                    "Connected", "Disconnecting", "Failed"}

\* Sdp is built as SslVpn (ProtocolFactory.cpp).
Kinds == {"SslVpn", "Portal", "Ead", "Dot1x", "L2tp", "Wlan"}

\* A state with work behind it: the condition of onPrimaryAction and of the
\* label of the primary button.
Busy(s) == s \notin {"Disconnected", "Failed"}

(***************************************************************************)
(* An announcement: errorOccurred with a message MainWindow classifies as  *)
(* permanent or transient ("none": not emitted), then setState(to).        *)
(***************************************************************************)
ErrorClass == {"none", "permanent", "transient"}
Announcement == [err : ErrorClass, to : ConnectionState]
Say(s) == [err |-> "none", to |-> s]
Fail(c) == [err |-> c, to |-> "Failed"]

(***************************************************************************)
(* A plugin object.  phase is the life of what it owns:                    *)
(*   idle   nothing: no process, socket or connection name yet, or no more *)
(*   assoc  WLAN only: nmcli associates, 802.1X has not been started       *)
(*   open   process running, socket bound, tunnel named                    *)
(*   shut   the process has ended or the socket is closed, but the member  *)
(*          that disconnect() tests is still set                           *)
(* stop: disconnect() was called (SslVpn's m_userDisconnect, the teardown  *)
(* singleShot of Portal and Ead).                                          *)
(***************************************************************************)
Phases == {"idle", "assoc", "open", "shut"}
Instance == [kind : Kinds \cup {"none"}, state : ConnectionState,
             phase : Phases, stop : BOOLEAN]
Plugin(k) == [kind |-> k, state |-> "Disconnected", phase |-> "idle", stop |-> FALSE]
NoPlugin == Plugin("none")

\* How a handler ends: what it announced and the phase it leaves.
Ends(say, phase) == [say |-> say, phase |-> phase]

When(condition, outcomes) == IF condition THEN outcomes ELSE {}

\* A check of connectWith fails, or the process ends with an error: the wording
\* of the message decides its class.
Rejected(phase) == {Ends(<<Fail(c)>>, phase) : c \in {"permanent", "transient"}}

\* No privilege launcher, or the UDP socket does not bind.
NoResource == Ends(<<Fail("transient")>>, "shut")

\* connectWith of each kind.  SslVpn: the helper starts, or does not within 8 s.
SslVpnConnect ==
  Rejected("idle") \cup
  {NoResource,
   Ends(<<Say("Connecting")>>, "open"),
   Ends(<<Say("Connecting"), Fail("transient")>>, "shut")}

DatagramConnect ==
  Rejected("idle") \cup
  {NoResource, Ends(<<Say("Connecting"), Say("Authenticating")>>, "open")}

Dot1xConnect ==
  Rejected("idle") \cup {Ends(<<Say("Connecting")>>, "open")}

\* runHelper of L2tp: no launcher, no start and a timeout are reported, a helper
\* that ends with an error is not.
HelperFailure == {"none", "transient"}

\* L2tp waits for its helper: the tunnel is up, or not, when connectWith returns.
L2tpConnect ==
  Rejected("idle") \cup
  {Ends(<<Say("Connecting"), Say("Authenticating"), a>>, "open") :
     a \in {Say("Connected")} \cup {Fail(c) : c \in HelperFailure}}

\* Wlan without an SSID is 802.1X at once.
WlanConnect ==
  Dot1xConnect \cup
  {Ends(<<Fail("transient")>>, "idle"), Ends(<<Say("Connecting")>>, "assoc")}

ConnectOutcomes(k) ==
  CASE k = "SslVpn" -> SslVpnConnect
    [] k \in {"Portal", "Ead"} -> DatagramConnect
    [] k = "Dot1x" -> Dot1xConnect
    [] k = "L2tp" -> L2tpConnect
    [] k = "Wlan" -> WlanConnect

(***************************************************************************)
(* The 802.1X client process ends.  A crash reports errorOccurred(Crashed) *)
(* before finished(), and finished() then finds the state already Failed.  *)
(***************************************************************************)
Dot1xFinished(s) ==
  {<<Say("Disconnected")>>,
   <<Say(IF s = "Failed" THEN "Disconnected" ELSE "Failed")>>,
   <<Fail("transient"), Say("Disconnected")>>}

\* The states its lines announce; every line is obeyed in every state.
Dot1xLines == {"Connected", "Failed", "Authenticating"}

Dot1xEvents(s) ==
  {Ends(<<a>>, "open") : a \in {Say(t) : t \in Dot1xLines} \cup {Fail("transient")}}
  \cup {Ends(<<Fail("transient")>>, "shut")}
  \cup {Ends(f, "shut") : f \in Dot1xFinished(s)}

SslVpnEvents(s, stop) ==
  {Ends(<<Say("Connected")>>, "open"), Ends(<<Say("Disconnected")>>, "shut")}
  \cup When(s # "Connected", {Ends(<<Say("Authenticating")>>, "open")})
  \cup When(s \notin {"Connected", "Authenticating"}, {Ends(<<Say("Connecting")>>, "open")})
  \cup When(~stop, Rejected("shut"))

\* The singleShot disconnect() of Portal and Ead left behind.
Teardown(stop) == When(stop, {Ends(<<Say("Disconnected")>>, "idle")})

PortalEvents(stop) ==
  Teardown(stop) \cup
  {Ends(<<a>>, "open") : a \in {Say("Connected"), Fail("transient"), Say("Disconnected")}}

EadEvents(stop) ==
  Teardown(stop) \cup {Ends(<<Say("Connected")>>, "open"), Ends(<<Fail("transient")>>, "shut")}

\* nmcli is done: 802.1X starts, or the association failed.
WlanAssociated == {Ends(<<Say("Failed")>>, "idle")} \cup Dot1xConnect

\* What plugin i may do on its own, from its process, socket and timers.
Events(i) ==
  CASE i.kind = "SslVpn" /\ i.phase = "open" -> SslVpnEvents(i.state, i.stop)
    [] i.kind = "Portal" /\ i.phase = "open" -> PortalEvents(i.stop)
    [] i.kind = "Ead" /\ i.phase = "open" -> EadEvents(i.stop)
    [] i.kind \in {"Portal", "Ead"} /\ i.phase = "shut" -> Teardown(i.stop)
    [] i.kind \in {"Dot1x", "Wlan"} /\ i.phase = "open" -> Dot1xEvents(i.state)
    [] i.kind = "Wlan" /\ i.phase = "assoc" -> WlanAssociated
    [] OTHER -> {}

L2tpDown ==
  {Ends(<<Say("Disconnecting"), [err |-> c, to |-> "Disconnected"]>>, "idle") :
     c \in HelperFailure}

\* disconnect(): the process ends while it is waited for, or has ended before, or
\* is still there when the wait is over.
SslVpnDisconnect(phase) ==
  {Ends(<<Say("Disconnecting"), Say("Disconnected")>>, "shut")} \cup
  When(phase = "open", {Ends(<<Say("Disconnecting")>>, "open")})

\* 802.1X obeys its lines and the end of its process while it waits.
Dot1xDisconnect ==
  {Ends(<<Say("Disconnecting")>>, "open")} \cup
  {Ends(<<Say("Disconnecting"), Say(t)>>, "open") : t \in Dot1xLines} \cup
  {Ends(<<Say("Disconnecting")>> \o f, "shut") : f \in Dot1xFinished("Disconnecting")} \cup
  UNION {{Ends(<<Say("Disconnecting"), Say(t)>> \o f, "shut") : f \in Dot1xFinished(t)} :
           t \in Dot1xLines}

\* An early return announces nothing and changes nothing.
DisconnectOutcomes(i) ==
  CASE i.phase \in {"idle", "assoc"} -> {Ends(<<>>, i.phase)}
    [] i.kind = "L2tp" -> L2tpDown
    [] i.kind = "SslVpn" -> SslVpnDisconnect(i.phase)
    [] i.kind \in {"Dot1x", "Wlan"} /\ i.phase = "open" -> Dot1xDisconnect
    [] OTHER -> {Ends(<<Say("Disconnecting")>>, i.phase)}

\* ~Dot1xProtocol waits for its process with readyRead() and finished() connected:
\* a last line is obeyed, and the process may end.
Dot1xDestroyed(i) ==
  {<<>>} \cup Dot1xFinished(i.state)
  \cup UNION {{<<Say(t)>>} \cup {<<Say(t)>> \o f : f \in Dot1xFinished(t)} : t \in Dot1xLines}

\* What the destructor still announces: L2TP calls disconnect(); all but the two are
\* silent.
DestroyAnnouncements(i) ==
  CASE i.kind = "Dot1x" /\ i.phase = "open" -> Dot1xDestroyed(i)
    [] i.kind = "L2tp" /\ i.phase # "idle"  -> {o.say : o \in L2tpDown}
    [] OTHER -> {<<>>}
=============================================================================
