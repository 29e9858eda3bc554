------------------------- MODULE EadProtocolProofs -------------------------
(***************************************************************************)
(* EadProtocol for every number of retransmissions and every behaviour of  *)
(* the network.                                                            *)
(***************************************************************************)
EXTENDS EadProtocol, TLAPS

\* A verdict in flight is one the server gave.
VerdictsAreGiven == /\ "SUCCESS" \in toClient => accepted
                    /\ "FAIL" \in toClient => refused

\* A failed session has no socket that could still receive.
FailedIsDeaf == state = "Failed" => sock # "bound"

\* Having given up, the client never starts its timer again.
GaveUpIsSilent == retries > MaxRetries => /\ ~retryOn /\ sock # "bound"
                                          /\ state = "Failed" \/ stopping

\* A running retransmission timer has a packet to send again.
TimerHasPacket == retryOn => lastPkt # NoPacket

\* Before disconnect(), a socket exists exactly as long as something may use it.
SocketMatches ==
  ~stopping => /\ retryOn \/ state \notin {"Disconnected", "Failed"} => sock = "bound"
               /\ state = "Disconnected" /\ step = "Idle" => sock = "none"

\* The handshake is over when the step is Online.
OnlineIsNotWaiting == state = "Authenticating" => step # "Online"

\* TypeOK in the four parts the proofs take it in.
TypeClient ==
  /\ state \in {"Disconnected", "Authenticating", "Connected", "Disconnecting", "Failed"}
  /\ step \in {"Idle", "Start", "AwaitVerdict", "Online"}
  /\ sock \in {"none", "bound", "closed"}
  /\ lastPkt \in Requests \cup {NoPacket}
TypeFlags ==
  /\ retryOn \in BOOLEAN /\ beatOn \in BOOLEAN /\ stopping \in BOOLEAN /\ alive \in BOOLEAN
  /\ accepted \in BOOLEAN /\ refused \in BOOLEAN /\ untimed \in BOOLEAN
TypeNetwork ==
  /\ toServer \subseteq Requests /\ toClient \subseteq Replies
TypeCounts ==
  /\ retries \in 0..(MaxRetries + 1)
  /\ dups \in 0..MaxDups /\ rechecks \in 0..MaxRechecks
  /\ unanswered \in 0..Enough

(***************************************************************************)
(* The inductive invariant.  GivesUpOnlyUnanswered needs the count of what *)
(* was sent (CountsAreSent) at the moment the timer gives up, the socket   *)
(* closed after it (FailedIsDeaf) and FAIL packets that are real           *)
(* (VerdictsAreGiven); the types of the counts need GaveUpIsSilent, and    *)
(* the refinement below needs SocketMatches.                               *)
(***************************************************************************)
IInv ==
  /\ TypeOK
  /\ VerdictsAreGiven
  /\ FailedIsDeaf
  /\ GaveUpIsSilent
  /\ TimerHasPacket
  /\ SocketMatches
  /\ CountsAreSent
  /\ GivesUpOnlyUnanswered
  /\ ConnectedWasAccepted
  /\ OnlineIsNotWaiting
  /\ WaitingIsTimed

LEMMA TypeParts == TypeOK <=> TypeClient /\ TypeFlags /\ TypeNetwork /\ TypeCounts
  BY DEF TypeOK, TypeClient, TypeFlags, TypeNetwork, TypeCounts

LEMMA InitIInv == Init => IInv
<1> SUFFICES ASSUME Init PROVE IInv
  OBVIOUS
<1> USE BoundsAssumption DEF Init, NoPacket, Enough
<1>1. TypeClient /\ TypeNetwork
  BY DEF TypeClient, TypeNetwork
<1>2. TypeFlags
  BY DEF TypeFlags
<1>3. TypeCounts
  BY DEF TypeCounts
<1>4. VerdictsAreGiven /\ FailedIsDeaf /\ TimerHasPacket /\ SocketMatches
  BY DEF VerdictsAreGiven, FailedIsDeaf, TimerHasPacket, SocketMatches
<1>5. GaveUpIsSilent /\ CountsAreSent
  BY DEF GaveUpIsSilent, CountsAreSent
<1>6. GivesUpOnlyUnanswered /\ ConnectedWasAccepted /\ WaitingIsTimed /\ OnlineIsNotWaiting
  BY DEF GivesUpOnlyUnanswered, ConnectedWasAccepted, WaitingIsTimed, OnlineIsNotWaiting
<1> QED
  BY <1>1, <1>2, <1>3, <1>4, <1>5, <1>6, TypeParts DEF IInv

(***************************************************************************)
(* Each conjunct is preserved by every step; a step of the proof names the *)
(* conjuncts it rests on.                                                  *)
(***************************************************************************)
LEMMA StepIInv == IInv /\ [Next]_vars => IInv'
<1> SUFFICES ASSUME IInv, [Next]_vars PROVE IInv'
  OBVIOUS
<1>0. /\ TypeOK /\ TypeClient /\ TypeFlags /\ TypeNetwork /\ TypeCounts
      /\ VerdictsAreGiven /\ FailedIsDeaf /\ GaveUpIsSilent /\ TimerHasPacket
      /\ SocketMatches /\ CountsAreSent /\ GivesUpOnlyUnanswered /\ ConnectedWasAccepted
      /\ WaitingIsTimed /\ OnlineIsNotWaiting
  BY TypeParts DEF IInv
<1> USE BoundsAssumption
    DEF Next, Client, ConnectFails, Connect, Fresh, OnRetry, Exhausted, TransmitFrom, OneMore, Enough,
        OnDatagram, Take, OnCheckList, OnSuccess, OnFail, OnOther, Quiet, OnHeartbeat,
        Disconnect, SendOffline, Teardown, Destroy, Lose, ServerAnswers, Answer, ServerSpeaks,
        client, network, server, sent, vars, Requests, Replies, NoPacket
<1>1. TypeClient'
  BY <1>0 DEF TypeClient
<1>2. TypeFlags'
  BY <1>0, ZenonT(60) DEF TypeFlags
<1>3. TypeNetwork'
  BY <1>0 DEF TypeNetwork, TypeClient, TimerHasPacket
<1>4. TypeCounts'
  BY <1>0 DEF TypeCounts, GaveUpIsSilent
<1>5. TypeOK'
  BY <1>1, <1>2, <1>3, <1>4 DEF TypeOK, TypeClient, TypeFlags, TypeNetwork, TypeCounts
<1>6. VerdictsAreGiven'
  BY <1>0 DEF TypeFlags, VerdictsAreGiven
<1>7. FailedIsDeaf'
  BY <1>0 DEF FailedIsDeaf
<1>8. GaveUpIsSilent'
  BY <1>0 DEF TypeCounts, GaveUpIsSilent, FailedIsDeaf
<1>9. TimerHasPacket'
  BY <1>0 DEF TimerHasPacket
<1>10. CountsAreSent'
  BY <1>0 DEF TypeCounts, CountsAreSent, GaveUpIsSilent
<1>11. GivesUpOnlyUnanswered'
  BY <1>0 DEF TypeCounts, TypeFlags, GivesUpOnlyUnanswered, CountsAreSent, FailedIsDeaf,
              VerdictsAreGiven
<1>12. ConnectedWasAccepted'
  BY <1>0 DEF ConnectedWasAccepted, VerdictsAreGiven
<1>13. SocketMatches'
  BY <1>0 DEF TypeFlags, SocketMatches
<1>14. OnlineIsNotWaiting'
  BY <1>0 DEF OnlineIsNotWaiting
<1>15. WaitingIsTimed'
  BY <1>0 DEF TypeFlags, WaitingIsTimed, OnlineIsNotWaiting
<1> QED
  BY <1>5, <1>6, <1>7, <1>8, <1>9, <1>10, <1>11, <1>12, <1>13, <1>14, <1>15 DEF IInv

\* EadProtocol's state is well-formed, for every number of retransmissions.
THEOREM TypeCorrect == Spec => []TypeOK
<1>1. IInv => TypeOK
  BY DEF IInv
<1> QED
  BY InitIInv, StepIInv, <1>1, PTL DEF Spec

\* The client gives up only after MaxRetries + 1 unanswered datagrams in a row,
\* whatever the network loses, duplicates or delays.
THEOREM GivesUpCorrect == Spec => []GivesUpOnlyUnanswered
<1>1. IInv => GivesUpOnlyUnanswered
  BY DEF IInv
<1> QED
  BY InitIInv, StepIInv, <1>1, PTL DEF Spec

\* The client waits for an answer only with the timer running, or after one of the two
\* events that end the retransmission.
THEOREM WaitingTimed == Spec => []WaitingIsTimed
<1>1. IInv => WaitingIsTimed
  BY DEF IInv
<1> QED
  BY InitIInv, StepIInv, <1>1, PTL DEF Spec

\* Online means that the server accepted the posture.
THEOREM ConnectedCorrect == Spec => []ConnectedWasAccepted
<1>1. IInv => ConnectedWasAccepted
  BY DEF IInv
<1> QED
  BY InitIInv, StepIInv, <1>1, PTL DEF Spec

\* A failed session is not revived by a late verdict.
THEOREM FailureFinal == Spec => FailureIsFinal
<1>1. IInv /\ [Next]_vars => [state = "Failed" => state' \notin {"Authenticating", "Connected"}]_vars
  <2> SUFFICES ASSUME IInv, Next, state = "Failed"
               PROVE  state' \notin {"Authenticating", "Connected"}
    OBVIOUS
  <2>1. sock # "bound"
    BY DEF IInv, FailedIsDeaf
  <2> QED
    BY <2>1 DEF Next, Client, ConnectFails, Connect, Fresh, OnRetry, Exhausted, OnDatagram, OnHeartbeat,
                Disconnect, Teardown, Destroy, Lose, ServerAnswers, ServerSpeaks, client
<1> QED
  BY InitIInv, StepIInv, <1>1, PTL DEF Spec, FailureIsFinal
-----------------------------------------------------------------------------

(***************************************************************************)
(* EadProtocol implements PluginContract.  The client's state, socket and  *)
(* stop flag are the contract's plugin; each handler maps to one outcome   *)
(* of its kind, the network and the server to a stutter.                   *)
(***************************************************************************)
inst == [kind |-> "Ead", state |-> state, phase |-> Phase, stop |-> stopping]

\* What a handler leaves, given the announcements it makes.
LEMMA AfterOne ==
  ASSUME NEW s, NEW a
  PROVE  Contract!After(s, <<a>>) = a.to
  BY DEF Contract!After

LEMMA AfterTwo ==
  ASSUME NEW s, NEW a, NEW b
  PROVE  Contract!After(s, <<a, b>>) = b.to
  BY DEF Contract!After

\* A step of the client that leaves state and phase as the outcome says.
LEMMA StepBecomes ==
  ASSUME NEW say, NEW phase, state' = Contract!After(state, say), Phase' = phase
  PROVE  Contract!Becomes(Contract!Ends(say, phase), stopping')
<1>1. Contract!Ends(say, phase).say = say /\ Contract!Ends(say, phase).phase = phase
  BY DEF Contract!Ends
<1> QED
  BY <1>1 DEF Contract!Becomes

LEMMA InitContract == Init => Contract!Init
  BY DEF Init, Phase, Contract!Init, Contract!Plugin

\* One outcome per handler: what it announces, and the phase it leaves.
LEMMA ConnectFailsContract ==
  ASSUME TypeFlags, ConnectFails
  PROVE  sock = "none" => Contract!ConnectWith
<1> SUFFICES ASSUME sock = "none" PROVE Contract!ConnectWith
  OBVIOUS
<1>1. inst = Contract!Plugin("Ead")
  BY DEF inst, Phase, ConnectFails, Fresh, Contract!Plugin, TypeFlags
<1>2. Contract!Ends(<<Contract!Fail("transient")>>, Phase') \in Contract!ConnectOutcomes("Ead")
  BY DEF Contract!ConnectOutcomes, Contract!DatagramConnect, Contract!Rejected, Contract!NoResource, ConnectFails, Phase
<1>3. state' = Contract!After(state, <<Contract!Fail("transient")>>)
  BY AfterOne DEF Contract!Fail, ConnectFails
<1>4. Contract!Becomes(Contract!Ends(<<Contract!Fail("transient")>>, Phase'), stopping)
  BY <1>3, StepBecomes DEF ConnectFails
<1> QED
  BY <1>1, <1>2, <1>4 DEF Contract!ConnectWith, inst

LEMMA ConnectContract ==
  ASSUME TypeFlags, Connect
  PROVE  sock = "none" => Contract!ConnectWith
<1> SUFFICES ASSUME sock = "none" PROVE Contract!ConnectWith
  OBVIOUS
<1>1. inst = Contract!Plugin("Ead")
  BY DEF inst, Phase, Connect, Fresh, Contract!Plugin, TypeFlags
<1>2. Contract!Ends(<<Contract!Say("Connecting"), Contract!Say("Authenticating")>>, Phase')
        \in Contract!ConnectOutcomes("Ead")
  BY DEF Contract!ConnectOutcomes, Contract!DatagramConnect, Connect, Phase
<1>3. state' = Contract!After(state, <<Contract!Say("Connecting"), Contract!Say("Authenticating")>>)
  BY AfterTwo DEF Contract!Say, Connect
<1>4. Contract!Becomes(Contract!Ends(<<Contract!Say("Connecting"), Contract!Say("Authenticating")>>,
                                     Phase'), stopping)
  BY <1>3, StepBecomes DEF Connect
<1> QED
  BY <1>1, <1>2, <1>4 DEF Contract!ConnectWith, inst

\* A handler that announces one state a.to, from an open socket.
LEMMA EventContract ==
  ASSUME NEW a, NEW phase, Contract!Ends(<<a>>, phase) \in Contract!Events(inst),
         state' = a.to, Phase' = phase, stopping' = stopping
  PROVE  Contract!Event
<1>1. Contract!Becomes(Contract!Ends(<<a>>, phase), stopping)
  BY AfterOne, StepBecomes
<1> QED
  BY <1>1 DEF Contract!Event, inst

LEMMA OnRetryContract ==
  ASSUME OnRetry, sock = "bound"
  PROVE  Contract!Event \/ UNCHANGED inst
<1>1. CASE UNCHANGED <<state, sock>>
  BY <1>1 DEF OnRetry, Exhausted, inst, Phase
<1>2. CASE state' = "Failed" /\ sock' = "closed" /\ stopping' = stopping
  <2>1. Contract!Ends(<<Contract!Fail("transient")>>, "shut") \in Contract!Events(inst)
    BY <1>2 DEF Contract!Events, Contract!EadEvents, inst, Phase
  <2> QED
    BY <1>2, <2>1, EventContract DEF Contract!Fail, Phase
<1> QED
  BY <1>1, <1>2 DEF OnRetry, Exhausted

LEMMA OnDatagramContract ==
  ASSUME NEW pkt \in Replies, OnDatagram(pkt)
  PROVE  Contract!Event \/ UNCHANGED inst
<1>1. CASE pkt = "SUCCESS"
  <2>1. Contract!Ends(<<Contract!Say("Connected")>>, "open") \in Contract!Events(inst)
    BY DEF Contract!Events, Contract!EadEvents, inst, Phase, OnDatagram
  <2> QED
    BY <1>1, <2>1, EventContract DEF OnDatagram, OnSuccess, Contract!Say, Phase
<1>2. CASE pkt = "FAIL"
  <2>1. Contract!Ends(<<Contract!Fail("transient")>>, "shut") \in Contract!Events(inst)
    BY DEF Contract!Events, Contract!EadEvents, inst, Phase, OnDatagram
  <2> QED
    BY <1>2, <2>1, EventContract DEF OnDatagram, OnFail, Contract!Fail, Phase
<1>3. CASE pkt \notin {"SUCCESS", "FAIL"}
  BY <1>3 DEF OnDatagram, OnCheckList, OnOther, Quiet, inst, Phase
<1> QED
  BY <1>1, <1>2, <1>3

LEMMA DisconnectContract ==
  ASSUME TypeClient, Disconnect
  PROVE  Contract!Disconnect
<1>1. Contract!Ends(<<Contract!Say("Disconnecting")>>, Phase) \in Contract!DisconnectOutcomes(inst)
  BY DEF Contract!DisconnectOutcomes, inst, Phase, Disconnect, TypeClient
<1>2. state' = Contract!After(state, <<Contract!Say("Disconnecting")>>)
  BY AfterOne DEF Contract!Say, Disconnect
<1>3. Contract!Becomes(Contract!Ends(<<Contract!Say("Disconnecting")>>, Phase), TRUE)
  BY <1>2, StepBecomes DEF Disconnect, Phase
<1>4. inst.stop \/ inst.phase \notin {"idle", "assoc"}
  BY DEF inst, Phase, Disconnect, TypeClient
<1> QED
  BY <1>1, <1>3, <1>4 DEF Contract!Disconnect, inst

LEMMA TeardownContract ==
  ASSUME TypeClient, Teardown
  PROVE  Contract!Event
<1>1. Contract!Ends(<<Contract!Say("Disconnected")>>, "idle") \in Contract!Events(inst)
  BY DEF Contract!Events, Contract!EadEvents, Contract!Teardown, Contract!When, inst, Phase, Teardown, TypeClient
<1> QED
  BY <1>1, EventContract DEF Teardown, Contract!Say, Phase

\* EadProtocol keeps the contract MainWindow is checked against, whatever the
\* network and the server do and however often it retransmits.
THEOREM Refinement == Spec => KeepsContract
<1>1. IInv /\ [Next]_vars => [Contract!Next]_Contract!vars
  <2> SUFFICES ASSUME IInv, [Next]_vars
               PROVE  Contract!Next \/ UNCHANGED inst
    BY DEF Contract!vars, inst
  <2>1. TypeClient /\ TypeFlags /\ SocketMatches
    BY TypeParts DEF IInv
  <2>2. CASE ConnectFails \/ Connect
    <3>1. sock = "none"
      BY <2>1, <2>2 DEF SocketMatches, ConnectFails, Connect, Fresh
    <3> QED
      BY <2>1, <2>2, <3>1, ConnectFailsContract, ConnectContract DEF Contract!Next
  <2>3. CASE OnRetry
    <3>1. sock = "bound"
      BY <2>1, <2>3 DEF SocketMatches, OnRetry
    <3> QED
      BY <2>3, <3>1, OnRetryContract DEF Contract!Next
  <2>4. ASSUME NEW pkt \in Replies, OnDatagram(pkt) PROVE Contract!Next \/ UNCHANGED inst
    BY <2>4, OnDatagramContract DEF Contract!Next
  <2>5. CASE Disconnect
    BY <2>1, <2>5, DisconnectContract DEF Contract!Next
  <2>6. CASE Teardown
    BY <2>1, <2>6, TeardownContract DEF Contract!Next
  <2>7. CASE OnHeartbeat \/ Destroy \/ Lose \/ ServerAnswers \/ ServerSpeaks \/ UNCHANGED vars
    BY <2>7 DEF OnHeartbeat, Destroy, Lose, ServerAnswers, ServerSpeaks, vars, client, inst, Phase
  <2> QED
    BY <2>2, <2>3, <2>4, <2>5, <2>6, <2>7 DEF Next, Client
<1> QED
  BY InitContract, InitIInv, StepIInv, <1>1, PTL DEF Spec, KeepsContract, Contract!Spec
=============================================================================
