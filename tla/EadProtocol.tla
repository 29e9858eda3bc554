---------------------------- MODULE EadProtocol ----------------------------
(***************************************************************************)
(* One EadProtocol object, from connectWith to its destruction, against a  *)
(* posture server behind UDP: datagrams are lost, duplicated and           *)
(* reordered.  A datagram is its opcode; the posture report in its body is *)
(* not modelled, nor are short packets and foreign head ids, which         *)
(* onDatagram skips without touching its state.                            *)
(***************************************************************************)
EXTENDS Naturals

CONSTANTS
  MaxRetries,  \* retransmissions before the client gives up (3 in onRetry)
  MaxDups,     \* bound: duplicates the network makes of the server's datagrams
  MaxRechecks  \* bound: posture re-checks the server starts on its own

ASSUME BoundsAssumption ==
  MaxRetries \in Nat /\ MaxDups \in Nat /\ MaxRechecks \in Nat

Requests == {"START", "CHECK_RESULT", "HEARTBEAT", "OFFLINE"}
\* INFO: a SEC_HEARTBEAT_RESP, a SEC_ACL_REQUEST or an unknown opcode.
Replies  == {"CHECK_LIST", "SUCCESS", "FAIL", "INFO"}
NoPacket == "none"
Enough == MaxRetries + 2
OneMore(n) == IF n < Enough THEN n + 1 ELSE n

VARIABLES
  state,      \* IProtocol::m_state
  step,       \* m_step
  sock,       \* m_sock: "none" (null), "bound" or "closed"
  retries,    \* m_retries
  lastPkt,    \* opcode of m_lastPkt
  retryOn,    \* the single-shot m_retry is running
  beatOn,     \* m_heartbeat is running
  stopping,   \* disconnect() was called: its 800 ms singleShot is or was pending
  alive,      \* the object exists; MainWindow deletes it after it ended
  toServer, toClient,  \* opcodes in flight
  dups, rechecks,      \* used up of the two bounds
  accepted, refused,   \* history: the server sent SUCCESS / FAIL
  unanswered,          \* history: datagrams sent since the last one received,
                       \* counted up to Enough
  untimed              \* history: a packet was not sent for want of an address, or
                       \* one came that asks for nothing

client  == <<state, step, sock, retries, lastPkt, retryOn, beatOn, stopping>>
network == <<toServer, toClient, dups>>
server  == <<rechecks, accepted, refused>>
sent    == <<unanswered, untimed>>
vars    == <<client, alive, network, server, sent>>

Init ==
  /\ state = "Disconnected" /\ step = "Idle" /\ sock = "none"
  /\ retries = 0 /\ lastPkt = NoPacket
  /\ retryOn = FALSE /\ beatOn = FALSE /\ stopping = FALSE /\ alive = TRUE
  /\ toServer = {} /\ toClient = {}
  /\ dups = 0 /\ rechecks = 0
  /\ accepted = FALSE /\ refused = FALSE
  /\ unanswered = 0 /\ untimed = FALSE

-----------------------------------------------------------------------------

\* MainWindow calls connectWith once, on the object it has just built.
Fresh == state = "Disconnected" /\ step = "Idle" /\ ~stopping

\* Faulty variant: the retransmission timer is not started.
TransmitUntimed(pkt, on, n) ==
  /\ lastPkt' = pkt
  /\ toServer' = toServer \cup {pkt}
  /\ retryOn' = on
  /\ unanswered' = OneMore(n)
  /\ UNCHANGED untimed

\* transmit(), with the retransmission timer in state on and n datagrams
\* unanswered: remembers the packet even when the name does not resolve, but
\* starts the timer only when the packet was written.
TransmitFrom(pkt, on, n) ==
  /\ lastPkt' = pkt
  /\ \/ /\ toServer' = toServer \cup {pkt}
        /\ retryOn' = TRUE
        /\ unanswered' = OneMore(n)
        /\ UNCHANGED untimed
     \/ /\ UNCHANGED toServer
        /\ retryOn' = on
        /\ unanswered' = n
        /\ untimed' = TRUE

\* connectWith, rejected by a check (no socket yet) or by bind().
ConnectFails ==
  /\ alive /\ Fresh
  /\ state' = "Failed"
  /\ sock' \in {"none", "closed"}
  /\ UNCHANGED <<step, retries, lastPkt, retryOn, beatOn, stopping, alive,
                 network, server, sent>>

\* connectWith, and sendStart at its end.
Connect ==
  /\ alive /\ Fresh
  /\ sock' = "bound"
  /\ retries' = 0
  /\ step' = "Start"
  /\ TransmitFrom("START", retryOn, unanswered)
  /\ state' = "Authenticating"
  /\ UNCHANGED <<beatOn, stopping, alive, toClient, dups, server>>

\* Faulty variant: one attempt short.
ExhaustedEarly == retries + 1 >= MaxRetries

Exhausted == retries >= MaxRetries

\* onRetry.  The timer is single-shot: it is off while its slot runs.  It waits
\* 3 s; disconnect() stops it, and when a check list restarts it after that, the
\* 800 ms teardown and the object's destruction come first.
OnRetry ==
  /\ alive /\ retryOn /\ ~stopping
  /\ CASE step = "Online" ->
            /\ retryOn' = FALSE
            /\ UNCHANGED <<state, sock, retries, lastPkt, toServer, sent>>
       [] step # "Online" /\ Exhausted ->
            /\ retries' = retries + 1
            /\ state' = "Failed"
            /\ sock' = "closed"
            /\ retryOn' = FALSE
            /\ UNCHANGED <<lastPkt, toServer, sent>>
       [] OTHER ->
            /\ retries' = retries + 1
            /\ TransmitFrom(lastPkt, FALSE, unanswered)
            /\ UNCHANGED <<state, sock>>
  /\ UNCHANGED <<step, beatOn, stopping, alive, toClient, dups, server>>

\* The datagram leaves the network, or a duplicate of it stays behind.
Take(pkt) ==
  /\ pkt \in toClient
  /\ \/ toClient' = toClient \ {pkt} /\ UNCHANGED dups
     \/ dups < MaxDups /\ dups' = dups + 1 /\ UNCHANGED toClient

(***************************************************************************)
(* One turn of onDatagram's loop.  Every accepted datagram, whatever its   *)
(* opcode, stops the retransmission timer and clears the count.            *)
(***************************************************************************)
OnCheckList ==
  /\ step' = "AwaitVerdict"
  /\ TransmitFrom("CHECK_RESULT", FALSE, 0)
  /\ UNCHANGED <<state, sock, beatOn>>

Quiet == retryOn' = FALSE /\ unanswered' = 0 /\ UNCHANGED <<lastPkt, toServer>>

OnSuccess ==
  /\ Quiet
  /\ step' = "Online" /\ state' = "Connected" /\ beatOn' = TRUE
  /\ UNCHANGED <<sock, untimed>>

\* Faulty variant: a rejected client goes on listening.
OnFailListens == Quiet /\ state' = "Failed" /\ UNCHANGED <<step, sock, beatOn, untimed>>

OnFail ==
  /\ Quiet
  /\ state' = "Failed" /\ sock' = "closed"
  /\ UNCHANGED <<step, beatOn, untimed>>

\* Faulty variant: the informational case falls through to the next one.
OnOtherFallsThrough == OnSuccess

OnOther == Quiet /\ untimed' = TRUE /\ UNCHANGED <<state, step, sock, beatOn>>

OnDatagram(pkt) ==
  /\ alive /\ sock = "bound"
  /\ Take(pkt)
  /\ retries' = 0
  /\ CASE pkt = "CHECK_LIST" -> OnCheckList
       [] pkt = "SUCCESS"    -> OnSuccess
       [] pkt = "FAIL"       -> OnFail
       [] OTHER              -> OnOther
  /\ UNCHANGED <<stopping, alive, server>>

\* onHeartbeat, once a minute: long after the 800 ms of a disconnect() and the
\* posted reset that follows a Failed or Disconnected.
OnHeartbeat ==
  /\ alive /\ beatOn /\ ~stopping /\ state \notin {"Failed", "Disconnected"}
  /\ TransmitFrom("HEARTBEAT", retryOn, unanswered)
  /\ UNCHANGED <<state, step, sock, retries, beatOn, stopping, alive, toClient, dups, server>>

\* SEC_OFFLINE is written without the retransmission timer.
SendOffline == toServer' = toServer \cup {"OFFLINE"}

Disconnect ==
  /\ alive /\ sock # "none"
  /\ state' = "Disconnecting"
  /\ beatOn' = FALSE /\ retryOn' = FALSE
  /\ SendOffline
  /\ stopping' = TRUE
  /\ UNCHANGED <<step, sock, retries, lastPkt, alive, toClient, dups, server, sent>>

\* Faulty variants: only from Disconnecting; without the announcement.
TeardownIfDisconnecting ==
  /\ alive /\ stopping /\ sock # "none" /\ state = "Disconnecting"
  /\ sock' = "none" /\ state' = "Disconnected"
  /\ UNCHANGED <<step, retries, lastPkt, retryOn, beatOn, stopping, alive,
                 network, server, sent>>
TeardownSilent ==
  /\ alive /\ stopping /\ sock # "none"
  /\ sock' = "none"
  /\ UNCHANGED <<state, step, retries, lastPkt, retryOn, beatOn, stopping, alive,
                 network, server, sent>>

\* ... and 800 ms later, whatever was received in between.
Teardown ==
  /\ alive /\ stopping /\ sock # "none"
  /\ sock' = "none"
  /\ state' = "Disconnected"
  /\ UNCHANGED <<step, retries, lastPkt, retryOn, beatOn, stopping, alive,
                 network, server, sent>>

\* MainWindow's posted reset deletes the object: its timers die with it.
Destroy ==
  /\ alive
  /\ state = "Failed" \/ (state = "Disconnected" /\ ~Fresh)
  /\ alive' = FALSE
  /\ UNCHANGED <<client, network, server, sent>>

-----------------------------------------------------------------------------

Lose == /\ alive
        /\ \/ \E pkt \in toServer : toServer' = toServer \ {pkt} /\ UNCHANGED toClient
           \/ \E pkt \in toClient : toClient' = toClient \ {pkt} /\ UNCHANGED toServer
        /\ UNCHANGED <<client, alive, dups, server, sent>>

Answer(request, reply) ==
  /\ request \in toServer
  /\ toServer' = toServer \ {request}
  /\ toClient' = toClient \cup {reply}
  /\ accepted' = (accepted \/ reply = "SUCCESS")
  /\ refused' = (refused \/ reply = "FAIL")

(***************************************************************************)
(* The posture server, external to the repository: the client expects it   *)
(* to answer SEC_START with a check list or at once with a verdict, and a  *)
(* check result with a verdict.  What it and the network do when the       *)
(* client is gone is left out.                                             *)
(***************************************************************************)
ServerAnswers ==
  /\ alive
  /\ \/ \E r \in {"CHECK_LIST", "SUCCESS", "FAIL"} : Answer("START", r)
     \/ \E r \in {"SUCCESS", "FAIL"} : Answer("CHECK_RESULT", r)
     \/ Answer("HEARTBEAT", "INFO")
  /\ UNCHANGED <<client, alive, dups, rechecks, sent>>

ServerSpeaks ==
  /\ alive
  /\ \/ /\ toClient' = toClient \cup {"INFO"}
        /\ UNCHANGED rechecks
     \/ /\ accepted /\ rechecks < MaxRechecks
        /\ toClient' = toClient \cup {"CHECK_LIST"}
        /\ rechecks' = rechecks + 1
  /\ UNCHANGED <<client, alive, toServer, dups, accepted, refused, sent>>

Client ==
  \/ ConnectFails \/ Connect
  \/ OnRetry
  \/ \E pkt \in Replies : OnDatagram(pkt)
  \/ OnHeartbeat
  \/ Disconnect \/ Teardown
  \/ Destroy

Next == Client \/ Lose \/ ServerAnswers \/ ServerSpeaks

Spec == Init /\ [][Next]_vars

\* Qt's timers elapse; the network, the server and the user owe nothing.
FairSpec == Spec /\ WF_vars(OnRetry) /\ WF_vars(Teardown) /\ WF_vars(Destroy)

-----------------------------------------------------------------------------

TypeOK ==
  /\ state \in {"Disconnected", "Authenticating", "Connected", "Disconnecting", "Failed"}
  /\ step \in {"Idle", "Start", "AwaitVerdict", "Online"}
  /\ sock \in {"none", "bound", "closed"}
  /\ retries \in 0..(MaxRetries + 1)
  /\ lastPkt \in Requests \cup {NoPacket}
  /\ retryOn \in BOOLEAN /\ beatOn \in BOOLEAN /\ stopping \in BOOLEAN /\ alive \in BOOLEAN
  /\ toServer \subseteq Requests /\ toClient \subseteq Replies
  /\ dups \in 0..MaxDups /\ rechecks \in 0..MaxRechecks
  /\ accepted \in BOOLEAN /\ refused \in BOOLEAN
  /\ unanswered \in 0..Enough /\ untimed \in BOOLEAN

\* "EAD: no response from posture server after N attempts" is true when it is
\* said: the client gives up only after MaxRetries + 1 datagrams in a row went
\* unanswered, although a heartbeat may replace the packet being retransmitted
\* and restart its timer (onRetry, transmit; :199-210).
GivesUpOnlyUnanswered ==
  state = "Failed" /\ step # "Idle" /\ ~refused => unanswered > MaxRetries

\* The retransmission count never runs ahead of what was sent: the inductive
\* core of GivesUpOnlyUnanswered.
CountsAreSent == retries + (IF retryOn THEN 1 ELSE 0) <= unanswered

\* A verdict that arrives after the client gave up, or a duplicate of an older
\* one, does not bring a failed session back (every Failed closes the socket).
FailureIsFinal == [][state = "Failed" => state' \notin {"Authenticating", "Connected"}]_vars

\* Online means that a verdict arrived: no check list, no late duplicate and no
\* other opcode is taken for one.
ConnectedWasAccepted == state = "Connected" => accepted

\* EadProtocol.cpp:193 "we tear down regardless of the response": a disconnect
\* ends the session even when a late verdict has moved it back to Connected.
DisconnectEnds == stopping ~> (state = "Disconnected" \/ ~alive)

\* The handshake never waits without a timer, with two exceptions: a packet that was
\* not sent because the name did not resolve starts none (:117), and one that asks for
\* nothing - :260 "SEC_ACL_REQUEST (informational)" - stops the one that runs (:227).
WaitingIsTimed == alive /\ state = "Authenticating" => retryOn \/ untimed

\* The handshake never hangs on lost datagrams: it is answered or given up, but for
\* the two exceptions, after which the client may wait for ever.
HandshakeEnds == state = "Authenticating" ~> (state # "Authenticating" \/ untimed)

\* The client as PluginContract sees it.
Phase == CASE sock = "none" -> "idle" [] sock = "bound" -> "open" [] OTHER -> "shut"
Contract == INSTANCE PluginContract WITH
  Kind <- "Ead",
  inst <- [kind |-> "Ead", state |-> state, phase |-> Phase, stop |-> stopping]

\* Whatever the network does, MainWindow sees only what it was checked against.
KeepsContract == Contract!Spec
=============================================================================
