------------------------ MODULE PortalProtocolProofs ------------------------
(***************************************************************************)
(* PortalProtocol in both dialects, for every behaviour of the network.    *)
(***************************************************************************)
EXTENDS PortalProtocol, TLAPS

\* A verdict in flight is one the server gave.
VerdictsAreGiven == "ACK_AUTH" \in toClient \/ "LOGIN_OK" \in toClient => accepted

TypeFlags ==
  /\ dialect \in Dialects
  /\ beatOn \in BOOLEAN /\ stopping \in BOOLEAN /\ alive \in BOOLEAN
  /\ up \in BOOLEAN /\ accepted \in BOOLEAN
TypeRest ==
  /\ state \in {"Disconnected", "Authenticating", "Connected", "Disconnecting", "Failed"}
  /\ sock \in {"none", "bound", "unbound"}
  /\ toServer \subseteq Requests /\ toClient \subseteq Replies
  /\ dups \in 0..MaxDups

\* The inductive invariant: the verdict behind a Connected is followed from the
\* server through the network (VerdictsAreGiven).
IInv ==
  /\ TypeOK
  /\ VerdictsAreGiven
  /\ ConnectedWasAccepted
  /\ ConnectedIsKeptAlive

LEMMA InitIInv == Init => IInv
<1> SUFFICES ASSUME Init PROVE IInv
  OBVIOUS
<1>1. TypeFlags
  BY DEF Init, TypeFlags
<1>2. TypeRest
  BY ConstantsAssumption DEF Init, TypeRest
<1>3. VerdictsAreGiven /\ ConnectedWasAccepted /\ ConnectedIsKeptAlive
  BY DEF Init, VerdictsAreGiven, ConnectedWasAccepted, ConnectedIsKeptAlive
<1> QED
  BY <1>1, <1>2, <1>3 DEF IInv, TypeOK, TypeFlags, TypeRest

LEMMA StepIInv == IInv /\ [Next]_vars => IInv'
<1> SUFFICES ASSUME IInv, [Next]_vars PROVE IInv'
  OBVIOUS
<1>0. /\ TypeFlags /\ TypeRest /\ VerdictsAreGiven
      /\ ConnectedWasAccepted /\ ConnectedIsKeptAlive
  BY DEF IInv, TypeOK, TypeFlags, TypeRest
<1> USE ConstantsAssumption
    DEF Next, ConnectFails, Connect, Fresh, Send, SendChallenge, SendAffirm,
        SendLogout, SendH3cLogin, SendH3cHeartbeat, SendH3cLogout, OnDatagram, HandleV2, HandleH3c, AnswerWith,
        GoOnline, Reject, LoggedOut, OnKeepAlive, Disconnect, Teardown, Destroy, Lose,
        ServerAnswers, ServerGoes, Reaction, client, network, server, vars, Requests, Replies
<1>1. TypeFlags'
  BY <1>0 DEF TypeFlags
<1>2. TypeRest'
  BY <1>0 DEF TypeRest
<1>3. VerdictsAreGiven'
  BY <1>0 DEF VerdictsAreGiven, TypeFlags
<1>4. ConnectedWasAccepted'
  BY <1>0 DEF ConnectedWasAccepted, VerdictsAreGiven, TypeFlags
<1>5. ConnectedIsKeptAlive'
  BY <1>0 DEF ConnectedIsKeptAlive, TypeFlags
<1> QED
  BY <1>1, <1>2, <1>3, <1>4, <1>5 DEF IInv, TypeOK, TypeFlags, TypeRest

\* Online means that the server accepted the credentials, in both dialects.
THEOREM ConnectedCorrect == Spec => []ConnectedWasAccepted
<1>1. IInv => ConnectedWasAccepted
  BY DEF IInv
<1> QED
  BY InitIInv, StepIInv, <1>1, PTL DEF Spec

\* No late or duplicated reply leaves a connected client without its timer.
THEOREM KeptAlive == Spec => []ConnectedIsKeptAlive
<1>1. IInv => ConnectedIsKeptAlive
  BY DEF IInv
<1> QED
  BY InitIInv, StepIInv, <1>1, PTL DEF Spec

-----------------------------------------------------------------------------

(***************************************************************************)
(* PortalProtocol implements PluginContract.                               *)
(***************************************************************************)
inst == [kind |-> "Portal", state |-> state, phase |-> Phase, stop |-> stopping]

LEMMA AfterOne ==
  ASSUME NEW s, NEW a
  PROVE  Contract!After(s, <<a>>) = a.to
  BY DEF Contract!After

LEMMA AfterTwo ==
  ASSUME NEW s, NEW a, NEW b
  PROVE  Contract!After(s, <<a, b>>) = b.to
  BY DEF Contract!After

\* A step of the client that leaves state and phase as the outcome says.
LEMMA StepBecomes ==
  ASSUME NEW say, NEW phase, state' = Contract!After(state, say), Phase' = phase
  PROVE  Contract!Becomes(Contract!Ends(say, phase), stopping')
<1>1. Contract!Ends(say, phase).say = say /\ Contract!Ends(say, phase).phase = phase
  BY DEF Contract!Ends
<1> QED
  BY <1>1 DEF Contract!Becomes

LEMMA InitContract == Init => Contract!Init
  BY DEF Init, Phase, Contract!Init, Contract!Plugin

LEMMA ConnectFailsContract ==
  ASSUME TypeFlags, ConnectFails
  PROVE  Contract!ConnectWith
<1>1. inst = Contract!Plugin("Portal")
  BY DEF inst, Phase, ConnectFails, Fresh, Contract!Plugin, TypeFlags
<1>2. Contract!Ends(<<Contract!Fail("transient")>>, Phase') \in Contract!ConnectOutcomes("Portal")
  BY DEF Contract!ConnectOutcomes, Contract!DatagramConnect, Contract!Rejected, Contract!NoResource, ConnectFails, Phase
<1>3. state' = Contract!After(state, <<Contract!Fail("transient")>>)
  BY AfterOne DEF Contract!Fail, ConnectFails
<1>4. Contract!Becomes(Contract!Ends(<<Contract!Fail("transient")>>, Phase'), stopping)
  BY <1>3, StepBecomes DEF ConnectFails
<1> QED
  BY <1>1, <1>2, <1>4 DEF Contract!ConnectWith, inst

LEMMA ConnectContract ==
  ASSUME TypeFlags, Connect
  PROVE  Contract!ConnectWith
<1>1. inst = Contract!Plugin("Portal")
  BY DEF inst, Phase, Connect, Fresh, Contract!Plugin, TypeFlags
<1>2. Contract!Ends(<<Contract!Say("Connecting"), Contract!Say("Authenticating")>>, Phase')
        \in Contract!ConnectOutcomes("Portal")
  BY DEF Contract!ConnectOutcomes, Contract!DatagramConnect, Connect, Phase
<1>3. state' = Contract!After(state, <<Contract!Say("Connecting"), Contract!Say("Authenticating")>>)
  BY AfterTwo DEF Contract!Say, Connect
<1>4. Contract!Becomes(Contract!Ends(<<Contract!Say("Connecting"), Contract!Say("Authenticating")>>,
                                     Phase'), stopping)
  BY <1>3, StepBecomes DEF Connect
<1> QED
  BY <1>1, <1>2, <1>4 DEF Contract!ConnectWith, inst

\* A handler that announces one state a.to, from a socket.
LEMMA EventContract ==
  ASSUME NEW a, NEW phase, Contract!Ends(<<a>>, phase) \in Contract!Events(inst),
         state' = a.to, Phase' = phase, stopping' = stopping
  PROVE  Contract!Event
<1>1. Contract!Becomes(Contract!Ends(<<a>>, phase), stopping)
  BY AfterOne, StepBecomes
<1> QED
  BY <1>1 DEF Contract!Event, inst

LEMMA OnDatagramContract ==
  ASSUME NEW pkt \in Replies, OnDatagram(pkt)
  PROVE  Contract!Event \/ UNCHANGED inst
<1>1. Phase = "open" /\ Phase' = "open" /\ stopping' = stopping
  BY DEF OnDatagram, Phase
<1>2. \A a \in {Contract!Say("Connected"), Contract!Fail("transient"), Contract!Say("Disconnected")} :
        Contract!Ends(<<a>>, "open") \in Contract!Events(inst)
  BY <1>1 DEF Contract!Events, Contract!PortalEvents, inst
<1>3. CASE GoOnline
  BY <1>1, <1>2, <1>3, EventContract DEF GoOnline, Contract!Say
<1>4. CASE Reject
  BY <1>1, <1>2, <1>4, EventContract DEF Reject, Contract!Fail
<1>5. CASE LoggedOut
  BY <1>1, <1>2, <1>5, EventContract DEF LoggedOut, Contract!Say
<1>6. CASE state' = state
  BY <1>1, <1>6 DEF inst
<1> QED
  BY <1>3, <1>4, <1>5, <1>6 DEF OnDatagram, HandleV2, HandleH3c, AnswerWith

LEMMA DisconnectContract ==
  ASSUME TypeRest, Disconnect
  PROVE  Contract!Disconnect
<1>1. Contract!Ends(<<Contract!Say("Disconnecting")>>, Phase) \in Contract!DisconnectOutcomes(inst)
  BY DEF Contract!DisconnectOutcomes, inst, Phase, Disconnect, TypeRest
<1>2. state' = Contract!After(state, <<Contract!Say("Disconnecting")>>)
  BY AfterOne DEF Contract!Say, Disconnect
<1>3. Contract!Becomes(Contract!Ends(<<Contract!Say("Disconnecting")>>, Phase), TRUE)
  BY <1>2, StepBecomes DEF Disconnect, Phase
<1>4. inst.stop \/ inst.phase \notin {"idle", "assoc"}
  BY DEF inst, Phase, Disconnect, TypeRest
<1> QED
  BY <1>1, <1>3, <1>4 DEF Contract!Disconnect, inst

LEMMA TeardownContract ==
  ASSUME TypeRest, Teardown
  PROVE  Contract!Event
<1>1. Contract!Ends(<<Contract!Say("Disconnected")>>, "idle") \in Contract!Events(inst)
  BY DEF Contract!Events, Contract!PortalEvents, Contract!Teardown, Contract!When, inst, Phase, Teardown, TypeRest
<1> QED
  BY <1>1, EventContract DEF Teardown, Contract!Say, Phase

\* PortalProtocol keeps the contract MainWindow is checked against, whatever the
\* network and the server do.
THEOREM Refinement == Spec => KeepsContract
<1>1. IInv /\ [Next]_vars => [Contract!Next]_Contract!vars
  <2> SUFFICES ASSUME IInv, [Next]_vars
               PROVE  Contract!Next \/ UNCHANGED inst
    BY DEF Contract!vars, inst
  <2>1. TypeFlags /\ TypeRest
    BY DEF IInv, TypeOK, TypeFlags, TypeRest
  <2>2. CASE ConnectFails \/ Connect
    BY <2>1, <2>2, ConnectFailsContract, ConnectContract DEF Contract!Next
  <2>3. ASSUME NEW pkt \in Replies, OnDatagram(pkt) PROVE Contract!Next \/ UNCHANGED inst
    BY <2>3, OnDatagramContract DEF Contract!Next
  <2>4. CASE Disconnect
    BY <2>1, <2>4, DisconnectContract DEF Contract!Next
  <2>5. CASE Teardown
    BY <2>1, <2>5, TeardownContract DEF Contract!Next
  <2>6. CASE OnKeepAlive \/ Destroy \/ Lose \/ ServerAnswers \/ ServerGoes \/ UNCHANGED vars
    BY <2>6 DEF OnKeepAlive, Destroy, Lose, ServerAnswers, ServerGoes, vars, client, inst, Phase
  <2> QED
    BY <2>2, <2>3, <2>4, <2>5, <2>6 DEF Next
<1> QED
  BY InitContract, InitIInv, StepIInv, <1>1, PTL DEF Spec, KeepsContract, Contract!Spec
=============================================================================
