--------------------------- MODULE PortalProtocol ---------------------------
(***************************************************************************)
(* One PortalProtocol object, in either of its dialects, from connectWith  *)
(* to its destruction, against a portal server behind UDP: datagrams are   *)
(* lost, duplicated and reordered, and the server may go away.  A datagram *)
(* is its type and verdict; its attributes, digests and serial numbers are *)
(* not modelled, nor m_step and m_retries, which no code reads.            *)
(***************************************************************************)
EXTENDS Naturals

CONSTANTS
  Dialects,  \* values of the profile's portalDialect: "v2", "h3c"
  MaxDups    \* bound: duplicates the network makes of the server's datagrams

ASSUME ConstantsAssumption == Dialects \subseteq {"v2", "h3c"} /\ MaxDups \in Nat

Requests == {"REQ_CHALLENGE", "REQ_AUTH", "AFF_ACK_AUTH", "REQ_LOGOUT",
             "LOGIN", "HASH_RESPONSE", "HANDSHAKE", "LOGOUT"}
\* NO_...: the same reply with an error code, or without its challenge.
Replies == {"ACK_CHALLENGE", "NO_CHALLENGE", "ACK_AUTH", "NO_AUTH", "ACK_LOGOUT",
            "LOGIN_OK", "LOGIN_NO", "HASH_REQUEST"}

VARIABLES
  dialect,   \* m_dialect
  state,     \* IProtocol::m_state
  sock,      \* m_sock: "none" (null), "bound" or "unbound" (bind failed)
  beatOn,    \* m_keepAlive is running
  stopping,  \* disconnect() was called: its 1500 ms singleShot is or was pending
  alive,     \* the object exists; MainWindow deletes it after it ended
  toServer, toClient,  \* datagrams in flight
  dups,      \* used up of MaxDups
  up,        \* the server is there
  accepted   \* history: the server accepted the credentials

client  == <<dialect, state, sock, beatOn, stopping>>
network == <<toServer, toClient, dups>>
server  == <<up, accepted>>
vars    == <<client, alive, network, server>>

Init ==
  /\ dialect \in Dialects
  /\ state = "Disconnected" /\ sock = "none"
  /\ beatOn = FALSE /\ stopping = FALSE /\ alive = TRUE
  /\ toServer = {} /\ toClient = {} /\ dups = 0
  /\ up = TRUE /\ accepted = FALSE

-----------------------------------------------------------------------------

\* writeDatagram, to wherever the name resolves just now.
Send(pkt) == toServer' = toServer \cup {pkt}

\* The senders, one for each request but the two answers to a challenge; what a
\* packet holds beside its type is left out.
SendChallenge    == Send("REQ_CHALLENGE")
SendAffirm       == Send("AFF_ACK_AUTH")
SendLogout       == Send("REQ_LOGOUT")
SendH3cLogin     == Send("LOGIN")
SendH3cHeartbeat == Send("HANDSHAKE")
SendH3cLogout    == Send("LOGOUT")

\* MainWindow calls connectWith once, on the object it has just built.
Fresh == state = "Disconnected" /\ sock = "none" /\ ~stopping

\* connectWith, rejected by a check (no socket yet) or by bind().
ConnectFails ==
  /\ alive /\ Fresh
  /\ state' = "Failed"
  /\ sock' \in {"none", "unbound"}
  /\ UNCHANGED <<dialect, beatOn, stopping, alive, network, server>>

\* connectWith, and sendChallenge or sendH3cLogin at its end.
Connect ==
  /\ alive /\ Fresh
  /\ sock' = "bound"
  /\ IF dialect = "v2" THEN SendChallenge ELSE SendH3cLogin
  /\ state' = "Authenticating"
  /\ UNCHANGED <<dialect, beatOn, stopping, alive, toClient, dups, server>>

\* The replies one pass of onDatagram's loop acts on, by what it does.  None of
\* them looks at the state the client is in.
\* Faulty variants: the keep-alive timer is not started while a disconnect is
\* under way; the error code of an ACK_AUTH is not read.
GoOnlineQuietly == state' = "Connected" /\ beatOn' = ~stopping
HandleV2Unread(pkt) ==
  \/ pkt = "ACK_CHALLENGE" /\ Send("REQ_AUTH") /\ UNCHANGED <<state, beatOn>>
  \/ pkt \in {"ACK_AUTH", "NO_AUTH"} /\ SendAffirm /\ state' = "Connected" /\ beatOn' = TRUE
  \/ pkt = "ACK_LOGOUT" /\ state' = "Disconnected" /\ beatOn' = FALSE /\ UNCHANGED toServer

AnswerWith(pkt) == Send(pkt) /\ UNCHANGED <<state, beatOn>>

GoOnline == state' = "Connected" /\ beatOn' = TRUE

Reject == state' = "Failed" /\ UNCHANGED <<toServer, beatOn>>

LoggedOut == state' = "Disconnected" /\ beatOn' = FALSE /\ UNCHANGED toServer

HandleV2(pkt) ==
  \/ pkt = "ACK_CHALLENGE" /\ AnswerWith("REQ_AUTH")
  \/ pkt \in {"NO_CHALLENGE", "NO_AUTH"} /\ Reject
  \/ pkt = "ACK_AUTH" /\ SendAffirm /\ GoOnline
  \/ pkt = "ACK_LOGOUT" /\ LoggedOut

HandleH3c(pkt) ==
  \/ pkt = "HASH_REQUEST" /\ AnswerWith("HASH_RESPONSE")
  \/ pkt = "LOGIN_NO" /\ Reject
  \/ pkt = "LOGIN_OK" /\ GoOnline /\ UNCHANGED toServer

OnDatagram(pkt) ==
  /\ alive /\ sock = "bound"
  /\ pkt \in toClient
  /\ \/ toClient' = toClient \ {pkt} /\ UNCHANGED dups
     \/ dups < MaxDups /\ dups' = dups + 1 /\ UNCHANGED toClient
  /\ IF dialect = "v2" THEN HandleV2(pkt) ELSE HandleH3c(pkt)
  /\ UNCHANGED <<dialect, sock, stopping, alive, server>>

\* onKeepAlive, every 45 s: long after the 1500 ms of a disconnect() and the
\* posted reset that follows a Failed or Disconnected.
OnKeepAlive ==
  /\ alive /\ beatOn /\ ~stopping /\ state \notin {"Failed", "Disconnected"}
  /\ IF dialect = "v2" THEN SendAffirm ELSE SendH3cHeartbeat
  /\ UNCHANGED <<client, alive, toClient, dups, server>>

Disconnect ==
  /\ alive /\ sock # "none"
  /\ state' = "Disconnecting"
  /\ beatOn' = FALSE
  /\ IF dialect = "v2" THEN SendLogout ELSE SendH3cLogout
  /\ stopping' = TRUE
  /\ UNCHANGED <<dialect, sock, alive, toClient, dups, server>>

\* Faulty variants: only from Disconnecting; without the announcement.
TeardownIfDisconnecting ==
  /\ alive /\ stopping /\ sock # "none" /\ state = "Disconnecting"
  /\ sock' = "none" /\ state' = "Disconnected"
  /\ UNCHANGED <<dialect, beatOn, stopping, alive, network, server>>
TeardownSilent ==
  /\ alive /\ stopping /\ sock # "none"
  /\ sock' = "none"
  /\ UNCHANGED <<dialect, state, beatOn, stopping, alive, network, server>>

\* ... and 1500 ms later, whatever was received in between.
Teardown ==
  /\ alive /\ stopping /\ sock # "none"
  /\ sock' = "none"
  /\ state' = "Disconnected"
  /\ UNCHANGED <<dialect, beatOn, stopping, alive, network, server>>

\* MainWindow's posted reset deletes the object: its timers die with it.
Destroy ==
  /\ alive
  /\ state = "Failed" \/ (state = "Disconnected" /\ ~Fresh)
  /\ alive' = FALSE
  /\ UNCHANGED <<client, network, server>>

-----------------------------------------------------------------------------

Lose == /\ \/ \E pkt \in toServer : toServer' = toServer \ {pkt} /\ UNCHANGED toClient
           \/ \E pkt \in toClient : toClient' = toClient \ {pkt} /\ UNCHANGED toServer
        /\ UNCHANGED <<client, alive, dups, server>>

\* The portal server, external to the repository; what a request may bring.
Reaction(request) ==
  CASE request = "REQ_CHALLENGE" -> {"ACK_CHALLENGE", "NO_CHALLENGE"}
    [] request = "REQ_AUTH"      -> {"ACK_AUTH", "NO_AUTH"}
    [] request = "REQ_LOGOUT"    -> {"ACK_LOGOUT"}
    [] request = "LOGIN"         -> {"LOGIN_OK", "LOGIN_NO", "HASH_REQUEST"}
    [] request = "HASH_RESPONSE" -> {"LOGIN_OK", "LOGIN_NO"}
    [] OTHER                     -> {}

ServerAnswers ==
  /\ up
  /\ \E request \in toServer : \E reply \in Reaction(request) :
       /\ toServer' = toServer \ {request}
       /\ toClient' = toClient \cup {reply}
       /\ accepted' = (accepted \/ reply \in {"ACK_AUTH", "LOGIN_OK"})
  /\ UNCHANGED <<client, alive, dups, up>>

ServerGoes == /\ up /\ up' = FALSE
              /\ UNCHANGED <<client, alive, network, accepted>>

Next ==
  \/ ConnectFails \/ Connect
  \/ \E pkt \in Replies : OnDatagram(pkt)
  \/ OnKeepAlive
  \/ Disconnect \/ Teardown
  \/ Destroy
  \/ Lose \/ ServerAnswers \/ ServerGoes

Spec == Init /\ [][Next]_vars

\* Qt's timers elapse, and the network keeps no datagram for ever: it is taken
\* or lost.  The server and the user owe nothing.
FairSpec == /\ Spec
            /\ WF_vars(OnKeepAlive) /\ WF_vars(Teardown) /\ WF_vars(Destroy)
            /\ WF_vars(Lose \/ ServerAnswers)

-----------------------------------------------------------------------------

TypeOK ==
  /\ dialect \in Dialects
  /\ state \in {"Disconnected", "Authenticating", "Connected", "Disconnecting", "Failed"}
  /\ sock \in {"none", "bound", "unbound"}
  /\ beatOn \in BOOLEAN /\ stopping \in BOOLEAN /\ alive \in BOOLEAN
  /\ toServer \subseteq Requests /\ toClient \subseteq Replies
  /\ dups \in 0..MaxDups
  /\ up \in BOOLEAN /\ accepted \in BOOLEAN

\* Online means that the server accepted the credentials, whatever is lost,
\* duplicated or late (onDatagram obeys every reply in every state).
ConnectedWasAccepted == state = "Connected" => accepted

\* A session is kept alive for as long as it is shown as connected: no late or
\* duplicated reply leaves the client online without its timer (:299-306).
ConnectedIsKeptAlive == alive /\ state = "Connected" => beatOn

\* PortalProtocol.cpp:470 "tear down regardless": a disconnect ends the session
\* even when a late ACK_AUTH has moved it back to Connected.
DisconnectEnds == stopping ~> (state = "Disconnected" \/ ~alive)

\* PortalProtocol.cpp:321-322 "re-sending the affirm keeps NAT mappings open and
\* lets us detect a dropped server".
DroppedServerIsDetected == (~up /\ toClient = {} /\ state = "Connected") ~> state # "Connected"

\* The client as PluginContract sees it.
Phase == CASE sock = "none" -> "idle" [] sock = "bound" -> "open" [] OTHER -> "shut"
Contract == INSTANCE PluginContract WITH
  Kind <- "Portal",
  inst <- [kind |-> "Portal", state |-> state, phase |-> Phase, stop |-> stopping]

\* Whatever the network does, MainWindow sees only what it was checked against.
KeepsContract == Contract!Spec
=============================================================================
