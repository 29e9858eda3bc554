------------------------ MODULE Dot1xProtocolProofs ------------------------
(***************************************************************************)
(* The 802.1X and WLAN plugins for every choice of kind, IP modes and      *)
(* launcher: types, the interface, resolv.conf, and the contract.          *)
(***************************************************************************)
EXTENDS Dot1xProtocol, TLAPS

Link == [addr : {"none", "lease", "ours"}, route : {"none", "theirs", "ours"},
         resolv : Files \cup {"ours"}, backup : Files \cup {"none"}]

(***************************************************************************)
(* The inductive invariant.  A run of the script knows from its tests and  *)
(* commands what holds until it ends, unless another program writes into   *)
(* that (Tested, TestedLast); clear undoes what apply did because the      *)
(* profile is the same (Asked); and behind a resolv.conf of ours there is  *)
(* always a backup (Backed), the last foreign one unless that one fell     *)
(* between a test and its mv (BackedLast).                                 *)
(***************************************************************************)
Waiting == /\ script \in Applying => proc \in {"running", "killed"}
           /\ script \in Clearing => proc = "ended"
           /\ script = "done" => proc \in {"running", "killed", "ended"}

Asked == /\ link.route = "ours" => profile.gw
         /\ profile.mode # "Static" => OursIsNot(link) /\ script \in {"none", "done"}

Tested == /\ script = "cp" => link.resolv # "ours"
          /\ script \in {"mv", "restore"} => link.backup # "none"
TestedLast == script \in {"mv", "restore"} => link.backup = others

Backed == link.resolv = "ours" => link.backup # "none"
BackedLast == /\ link.resolv \in {"ours", others}
              /\ link.resolv = "ours" => link.backup = others

Cleared == /\ script \in {"unaddress", "look", "restore"} => link.route # "ours"
           /\ script \in {"look", "restore"} => link.addr # "ours"
NotProgrammed ==
  /\ proc \in {"none", "assoc", "starting"} => OursIsNot(link)
  /\ proc = "ended" /\ script \in {"none", "done"} /\ ~failed => OursIsNot(link)

Kept == Tested /\ Backed /\ (~raced => TestedLast /\ BackedLast)
Undone == Waiting /\ Asked /\ Cleared /\ NotProgrammed

IInv == TypeOK /\ Kept /\ Undone

LEMMA InitIInv == Init => IInv
  BY Dot1xAssumption
  DEF Init, IInv, TypeOK, Kept, Tested, TestedLast, Backed, BackedLast, Undone, Waiting, Asked,
      Cleared, NotProgrammed, OursIsNot, ConnectionState, Applying, Clearing

-----------------------------------------------------------------------------
\* What the types say of the interface and the script.
LEMMA LinkType ==
  ASSUME TypeOK
  PROVE  /\ link \in Link /\ profile \in [mode : Modes, gw : BOOLEAN, dns : BOOLEAN]
         /\ others \in Files /\ failed \in BOOLEAN /\ raced \in BOOLEAN
         /\ "ours" \notin Files /\ "none" \notin Files
  BY Dot1xAssumption DEF TypeOK, Link

\* A command of the script, or its failure, touches nothing else.
Scripted ==
  /\ UNCHANGED <<state, stop, proc, at, profile, others, raced>>
  /\ script # "none" /\ script' \in {"done"} \cup Applying \cup Clearing

LEMMA ScriptType ==
  ASSUME TypeOK, Scripted, link' \in Link, failed' \in BOOLEAN
  PROVE  TypeOK'
  BY DEF TypeOK, Scripted, Link

LEMMA ApplyStep ==
  ASSUME IInv, AddAddress \/ AddRoute \/ Grep \/ Backup \/ Write
  PROVE  IInv'
<1> USE LinkType DEF IInv
<1>1. CASE AddAddress
  <2>1. Scripted /\ link' = [link EXCEPT !.addr = "ours"] /\ failed' = failed
        /\ script = "address" /\ script' = "route"
    BY <1>1 DEF AddAddress, Command, Scripted, Applying
  <2>2. TypeOK'
    BY <2>1, ScriptType DEF Link
  <2>3. Kept'
    BY <2>1 DEF Kept, Tested, TestedLast, Backed, BackedLast, Link, Scripted
  <2>4. Undone'
    BY <2>1 DEF Undone, Waiting, Asked, Cleared, NotProgrammed, Link, Scripted, Applying, Clearing
  <2> QED
    BY <2>2, <2>3, <2>4
<1>2. CASE AddRoute
  <2>1. Scripted /\ failed' = failed /\ script = "route" /\ script' \in {"grep", "done"}
        /\ link' = IF profile.gw THEN [link EXCEPT !.route = "ours"] ELSE link
    BY <1>2 DEF AddRoute, Command, Scripted, Applying
  <2>2. TypeOK'
    BY <2>1, ScriptType DEF Link
  <2>3. Kept'
    BY <2>1 DEF Kept, Tested, TestedLast, Backed, BackedLast, Link, Scripted
  <2>4. Undone'
    BY <2>1 DEF Undone, Waiting, Asked, Cleared, NotProgrammed, Link, Scripted, Applying, Clearing
  <2> QED
    BY <2>2, <2>3, <2>4
<1>3. CASE Grep
  <2>1. Scripted /\ link' = link /\ failed' = failed /\ script = "grep"
        /\ script' = IF link.resolv = "ours" THEN "mv" ELSE "cp"
    BY <1>3 DEF Grep, Command, Scripted, Applying
  <2>2. TypeOK'
    BY <2>1, ScriptType
  <2>3. Kept'
    BY <2>1 DEF Kept, Tested, TestedLast, Backed, BackedLast, Link, Scripted
  <2>4. Undone'
    BY <2>1 DEF Undone, Waiting, Asked, Cleared, NotProgrammed, Link, Scripted, Applying, Clearing
  <2> QED
    BY <2>2, <2>3, <2>4
<1>4. CASE Backup
  <2>1. Scripted /\ link' = [link EXCEPT !.backup = link.resolv] /\ failed' = failed
        /\ script = "cp" /\ script' = "mv"
    BY <1>4 DEF Backup, Command, Scripted, Applying
  <2>2. link.resolv \in Files
    BY <2>1 DEF Kept, Tested, Link
  <2>3. TypeOK'
    BY <2>1, <2>2, ScriptType DEF Link
  <2>4. Kept'
    BY <2>1, <2>2 DEF Kept, Tested, TestedLast, Backed, BackedLast, Link, Scripted
  <2>5. Undone'
    BY <2>1 DEF Undone, Waiting, Asked, Cleared, NotProgrammed, OursIsNot, Link, Scripted, Applying,
                Clearing
  <2> QED
    BY <2>3, <2>4, <2>5
<1>5. CASE Write
  <2>1. Scripted /\ link' = [link EXCEPT !.resolv = "ours"] /\ failed' = failed
        /\ script = "mv" /\ script' = "done"
    BY <1>5 DEF Write, Command, Scripted, Applying
  <2>2. TypeOK'
    BY <2>1, ScriptType DEF Link
  <2>3. Kept'
    BY <2>1 DEF Kept, Tested, TestedLast, Backed, BackedLast, Link, Scripted
  <2>4. Undone'
    BY <2>1 DEF Undone, Waiting, Asked, Cleared, NotProgrammed, Link, Scripted, Applying, Clearing
  <2> QED
    BY <2>2, <2>3, <2>4
<1> QED
  BY <1>1, <1>2, <1>3, <1>4, <1>5

LEMMA ClearStep ==
  ASSUME IInv, DropRoute \/ DropAddress \/ Look \/ Restore \/ ScriptFails
  PROVE  IInv'
<1> USE LinkType DEF IInv
<1>1. CASE DropRoute
  <2>1. Scripted /\ failed' = failed /\ script = "unroute" /\ script' = "unaddress"
        /\ link' = IF profile.gw /\ link.route = "ours" THEN [link EXCEPT !.route = "none"]
                                                        ELSE link
    BY <1>1 DEF DropRoute, Command, Scripted, Clearing
  <2>2. TypeOK'
    BY <2>1, ScriptType DEF Link
  <2>3. Kept'
    BY <2>1 DEF Kept, Tested, TestedLast, Backed, BackedLast, Link, Scripted
  <2>4. Undone'
    BY <2>1 DEF Undone, Waiting, Asked, Cleared, NotProgrammed, Link, Scripted, Applying, Clearing
  <2> QED
    BY <2>2, <2>3, <2>4
<1>2. CASE DropAddress
  <2>1. Scripted /\ failed' = failed /\ script = "unaddress" /\ script' = "look"
        /\ link' = IF link.addr = "ours" THEN [link EXCEPT !.addr = "none"] ELSE link
    BY <1>2 DEF DropAddress, Command, Scripted, Clearing
  <2>2. TypeOK'
    BY <2>1, ScriptType DEF Link
  <2>3. Kept'
    BY <2>1 DEF Kept, Tested, TestedLast, Backed, BackedLast, Link, Scripted
  <2>4. Undone'
    BY <2>1 DEF Undone, Waiting, Asked, Cleared, NotProgrammed, Link, Scripted, Applying, Clearing
  <2> QED
    BY <2>2, <2>3, <2>4
<1>3. CASE Look
  <2>1. Scripted /\ link' = link /\ failed' = failed /\ script = "look"
        /\ script' = IF link.resolv = "ours" /\ link.backup # "none" THEN "restore" ELSE "done"
    BY <1>3 DEF Look, Command, Scripted, Clearing
  <2>2. TypeOK'
    BY <2>1, ScriptType
  <2>3. Kept'
    BY <2>1 DEF Kept, Tested, TestedLast, Backed, BackedLast, Link, Scripted
  <2>4. script' = "done" => OursIsNot(link)
    BY <2>1 DEF Kept, Backed, Undone, Cleared, OursIsNot
  <2>5. Undone'
    BY <2>1, <2>4 DEF Undone, Waiting, Asked, Cleared, NotProgrammed, OursIsNot, Link, Scripted,
                      Applying, Clearing
  <2> QED
    BY <2>2, <2>3, <2>5
<1>4. CASE Restore
  <2>1. Scripted /\ link' = [link EXCEPT !.resolv = link.backup, !.backup = "none"]
        /\ failed' = failed /\ script = "restore" /\ script' = "done"
    BY <1>4 DEF Restore, Command, Scripted, Clearing
  <2>2. link.backup \in Files
    BY <2>1 DEF Kept, Tested, Link
  <2>3. TypeOK'
    BY <2>1, <2>2, ScriptType DEF Link
  <2>4. Kept'
    BY <2>1, <2>2 DEF Kept, Tested, TestedLast, Backed, BackedLast, Link, Scripted
  <2>5. OursIsNot(link')
    BY <2>1, <2>2 DEF Undone, Cleared, OursIsNot, Link
  <2>6. Undone'
    BY <2>1, <2>5 DEF Undone, Waiting, Asked, Cleared, NotProgrammed, OursIsNot, Link, Scripted,
                      Applying, Clearing
  <2> QED
    BY <2>3, <2>4, <2>6
<1>5. CASE ScriptFails
  <2>1. Scripted /\ link' = link /\ failed' = TRUE /\ script \notin {"none", "done"}
        /\ script' = "done"
    BY <1>5 DEF ScriptFails, Scripted
  <2>2. TypeOK'
    BY <2>1, ScriptType
  <2>3. Kept'
    BY <2>1 DEF Kept, Tested, TestedLast, Backed, BackedLast, Link, Scripted
  <2>4. Undone'
    BY <2>1 DEF TypeOK, Undone, Waiting, Asked, Cleared, NotProgrammed, OursIsNot, Link, Scripted,
                Applying, Clearing
  <2> QED
    BY <2>2, <2>3, <2>4
<1> QED
  BY <1>1, <1>2, <1>3, <1>4, <1>5

\* A step that leaves the interface alone and does not end the client.
LEMMA LinkUntouched ==
  ASSUME IInv, UNCHANGED unlinked,
         \/ proc' = proc
         \/ proc \in {"none", "assoc", "starting"}
         \/ proc' \in {"running", "killed"} /\ script = "none"
  PROVE  Kept' /\ Undone'
<1>1. Kept'
  BY DEF IInv, unlinked, Kept, Tested, TestedLast, Backed, BackedLast
<1>2. Undone'
  BY DEF IInv, unlinked, Undone, Waiting, Asked, Cleared, NotProgrammed, OursIsNot, Applying,
         Clearing
<1> QED
  BY <1>1, <1>2

LEMMA StepIInv == IInv /\ [Next]_vars => IInv'
<1> SUFFICES ASSUME IInv, [Next]_vars
             PROVE  IInv'
  OBVIOUS
<1> USE DEF IInv
<1>1. CASE ConnectWith \/ Associated
  <2>1. TypeOK' /\ UNCHANGED unlinked /\ proc \in {"none", "assoc"}
    BY <1>1 DEF ConnectWith, Associated, StartClient, Associate, TypeOK, unlinked, ConnectionState
  <2> QED
    BY <2>1, LinkUntouched
<1>2. CASE Starts \/ StartFails
  <2>1. TypeOK' /\ UNCHANGED unlinked /\ proc = "starting"
    BY <1>2 DEF Starts, StartFails, Waited, TypeOK, unlinked, ConnectionState
  <2> QED
    BY <2>1, LinkUntouched
<1>3. CASE WriteFails \/ Disconnect \/ Destroy
  <2>1. TypeOK' /\ UNCHANGED unlinked /\ proc' = proc
    BY <1>3, ZenonT(60) DEF WriteFails, Disconnect, Destroy, TypeOK, unlinked, ConnectionState
  <2> QED
    BY <2>1, LinkUntouched
<1>4. CASE KillIt \/ Abandon
  <2>1. TypeOK' /\ UNCHANGED unlinked /\ script = "none" /\ proc' \in {"running", "killed"}
    BY <1>4 DEF KillIt, Abandon, Killed, TypeOK, unlinked
  <2> QED
    BY <2>1, LinkUntouched
<1>5. CASE OnReadyRead
  <2>1. /\ script = "none" /\ proc \in {"running", "killed"} /\ state' \in ConnectionState
        /\ UNCHANGED <<stop, proc, at, profile, others, failed, raced>>
        /\ \/ Apply
           \/ UNCHANGED <<link, script>>
    BY <1>5 DEF OnReadyRead, Free, Dot1xLines, ConnectionState, TypeOK
  <2>2. CASE UNCHANGED <<link, script>>
    <3>1. TypeOK' /\ UNCHANGED unlinked /\ proc' = proc
      BY <2>1, <2>2 DEF TypeOK, unlinked
    <3> QED
      BY <3>1, LinkUntouched
  <2>3. CASE Apply
    <3>1. /\ script' = IF profile.mode = "Static" THEN "address" ELSE "done"
          /\ link' \in Link
          /\ UNCHANGED <<link.route, link.resolv, link.backup>>
          /\ link'.addr = link.addr \/ link'.addr # "ours"
      BY <2>3, LinkType DEF Apply, Renew, Link
    <3>2. TypeOK'
      BY <2>1, <3>1 DEF TypeOK, Link, Applying
    <3>3. Kept'
      BY <2>1, <3>1 DEF Kept, Tested, TestedLast, Backed, BackedLast
    <3>4. Undone'
      BY <2>1, <3>1
      DEF Undone, Waiting, Asked, Cleared, NotProgrammed, OursIsNot, Applying, Clearing
    <3> QED
      BY <3>2, <3>3, <3>4
  <2> QED
    BY <2>1, <2>2, <2>3
<1>6. CASE OnFinished
  <2>1. /\ script = "none" /\ proc' = "ended"
        /\ script' = IF profile.mode = "Static" THEN "unroute" ELSE "done"
        /\ UNCHANGED <<state, stop, at, profile, link, others, failed, raced>>
    BY <1>6 DEF OnFinished, Free, Clear
  <2>2. TypeOK'
    BY <2>1 DEF TypeOK, Clearing
  <2>3. Kept'
    BY <2>1 DEF Kept, Tested, TestedLast, Backed, BackedLast
  <2>4. Undone'
    BY <2>1 DEF Undone, Waiting, Asked, Cleared, NotProgrammed, OursIsNot, Applying, Clearing
  <2> QED
    BY <2>2, <2>3, <2>4
<1>7. CASE Resume
  <2>1. /\ script = "done" /\ script' = "none"
        /\ UNCHANGED <<stop, proc, profile, link, others, failed, raced>>
        /\ at' \in {"loop", "dead", at}
    BY <1>7 DEF Resume, Waited
  <2>2. \A f \in Dot1xFinished(state) : f[Len(f)].to \in ConnectionState
    BY DEF Dot1xFinished, Say, Fail, ConnectionState
  <2>3. state' \in ConnectionState
    BY <1>7, <2>2 DEF Resume, ConnectionState
  <2>4. TypeOK'
    BY <2>1, <2>3 DEF TypeOK
  <2>5. Kept'
    BY <2>1 DEF Kept, Tested, TestedLast, Backed, BackedLast
  <2>6. Undone'
    BY <2>1 DEF Undone, Waiting, Asked, Cleared, NotProgrammed, OursIsNot, Applying, Clearing
  <2> QED
    BY <2>4, <2>5, <2>6
<1>8. CASE Script
  BY <1>8, ApplyStep, ClearStep DEF Script
<1>9. CASE OthersWrite
  <2>1. /\ others' \in Files /\ link' = [link EXCEPT !.resolv = others'] /\ link \in Link
        /\ others' # "ours" /\ raced' = (script \in {"mv", "restore"})
        /\ UNCHANGED <<state, stop, proc, at, profile, script, failed>>
    BY <1>9, LinkType DEF OthersWrite
  <2>2. TypeOK'
    BY <2>1 DEF TypeOK, Link
  <2>3. Kept'
    BY <2>1 DEF Kept, Tested, TestedLast, Backed, BackedLast, Link
  <2>4. OursIsNot(link) => OursIsNot(link')
    BY <2>1 DEF OursIsNot, Link
  <2>5. Undone'
    BY <2>1, <2>4 DEF Undone, Waiting, Asked, Cleared, NotProgrammed, Link
  <2> QED
    BY <2>2, <2>3, <2>5
<1>10. CASE UNCHANGED vars
  <2>1. TypeOK' /\ UNCHANGED unlinked /\ proc' = proc
    BY <1>10 DEF vars, unlinked, TypeOK
  <2> QED
    BY <2>1, LinkUntouched
<1> QED
  BY <1>1, <1>2, <1>3, <1>4, <1>5, <1>6, <1>7, <1>8, <1>9, <1>10 DEF Next

\* The variables of the 802.1X plugin keep their types.
THEOREM TypeCorrect == Spec => []TypeOK
  BY InitIInv, StepIInv, PTL DEF Spec, IInv

\* Without a client process, outside the handler of its end and unless the root
\* script failed, nothing the plugin programmed is left on the interface.
THEOREM LinkIsUndone == Spec => []LinkFollowsClient
<1>1. IInv => LinkFollowsClient
  BY DEF IInv, Undone, NotProgrammed, LinkFollowsClient
<1> QED
  BY InitIInv, StepIInv, <1>1, PTL DEF Spec

\* What another program last wrote to resolv.conf is in it or in the backup, between
\* any two commands of the root script, unless it fell between a test and its mv.
THEOREM ResolverKept == Spec => []ResolverIsKept
<1>1. IInv => ResolverIsKept
  BY DEF IInv, Kept, BackedLast, ResolverIsKept
<1> QED
  BY InitIInv, StepIInv, <1>1, PTL DEF Spec

-----------------------------------------------------------------------------
(***************************************************************************)
(* Dot1xProtocol implements PluginContract: the lines and the end that a   *)
(* waiting disconnect() or destructor handles are events of the contract.  *)
(***************************************************************************)
LEMMA AfterOne ==
  ASSUME NEW s, NEW a
  PROVE  Contract!After(s, <<a>>) = a.to
  BY DEF Contract!After

\* A handler with outcome o.
LEMMA StepBecomes ==
  ASSUME NEW say, NEW phase, state' = Contract!After(state, say), Phase' = phase
  PROVE  Contract!Becomes(Contract!Ends(say, phase), stop')
<1>1. Contract!Ends(say, phase).say = say /\ Contract!Ends(say, phase).phase = phase
  BY DEF Contract!Ends
<1> QED
  BY <1>1 DEF Contract!Becomes, inst

LEMMA InitContract == Init => Contract!Init
  BY DEF Init, inst, Phase, Contract!Init, Contract!Plugin

\* Starting the client, or the association, is an outcome of connectWith.
LEMMA StartsWithin ==
  ASSUME StartClient \/ (Kind = "Wlan" /\ Associate)
  PROVE  \E a : /\ state' = a.to
                /\ Contract!Ends(<<a>>, Phase') \in Contract!ConnectOutcomes(Kind)
<1>1. Kind \in {"Dot1x", "Wlan"}
  BY Dot1xAssumption
<1>2. CASE state' = "Failed" /\ proc' = "none"
  <2>1. Phase' = "idle"
    BY <1>2 DEF Phase
  <2>2. Contract!Fail("transient").to = "Failed"
    BY DEF Contract!Fail
  <2>3. Contract!Ends(<<Contract!Fail("transient")>>, "idle") \in Contract!ConnectOutcomes(Kind)
    BY <1>1 DEF Contract!ConnectOutcomes, Contract!Dot1xConnect, Contract!WlanConnect,
                Contract!Rejected
  <2> QED
    BY <1>2, <2>1, <2>2, <2>3
<1>3. CASE state' = "Connecting" /\ proc' = "starting"
  <2>1. Phase' = "open"
    BY <1>3 DEF Phase
  <2>2. Contract!Say("Connecting").to = "Connecting"
    BY DEF Contract!Say
  <2>3. Contract!Ends(<<Contract!Say("Connecting")>>, "open") \in Contract!ConnectOutcomes(Kind)
    BY <1>1 DEF Contract!ConnectOutcomes, Contract!Dot1xConnect, Contract!WlanConnect
  <2> QED
    BY <1>3, <2>1, <2>2, <2>3
<1>4. CASE Kind = "Wlan" /\ state' = "Connecting" /\ proc' = "assoc"
  <2>1. Phase' = "assoc"
    BY <1>4 DEF Phase
  <2>2. Contract!Say("Connecting").to = "Connecting"
    BY DEF Contract!Say
  <2>3. Contract!Ends(<<Contract!Say("Connecting")>>, "assoc") \in Contract!ConnectOutcomes(Kind)
    BY <1>4 DEF Contract!ConnectOutcomes, Contract!WlanConnect
  <2> QED
    BY <1>4, <2>1, <2>2, <2>3
<1> QED
  BY <1>2, <1>3, <1>4 DEF StartClient, Associate

LEMMA ConnectContract ==
  ASSUME TypeOK, ConnectWith, stop = FALSE
  PROVE  Contract!ConnectWith
<1>1. inst = Contract!Plugin(Kind)
  BY DEF inst, Phase, ConnectWith, Contract!Plugin
<1>2. PICK a : /\ state' = a.to
               /\ Contract!Ends(<<a>>, Phase') \in Contract!ConnectOutcomes(Kind)
  BY StartsWithin DEF ConnectWith
<1>3. Contract!Becomes(Contract!Ends(<<a>>, Phase'), stop)
  BY <1>2, AfterOne, StepBecomes DEF ConnectWith
<1> QED
  BY <1>1, <1>2, <1>3 DEF Contract!ConnectWith, inst

\* A handler that announces one state a.to.
LEMMA EventContract ==
  ASSUME NEW a, NEW phase, Contract!Ends(<<a>>, phase) \in Contract!Events(inst),
         state' = a.to, Phase' = phase, stop' = stop
  PROVE  Contract!Event
<1>1. Contract!Becomes(Contract!Ends(<<a>>, phase), stop)
  BY AfterOne, StepBecomes
<1> QED
  BY <1>1 DEF Contract!Event, inst

LEMMA AssociatedContract ==
  ASSUME TypeOK, Kind = "Wlan", Associated
  PROVE  Contract!Event
<1>1. Contract!Events(inst) =
        {Contract!Ends(<<Contract!Say("Failed")>>, "idle")} \cup Contract!Dot1xConnect
  BY DEF Contract!Events, Contract!WlanAssociated, inst, Phase, Associated
<1>2. CASE state' = "Failed" /\ proc' = "none"
  BY <1>1, <1>2, EventContract DEF Contract!Say, Phase, Associated
<1>3. CASE state' = "Connecting" /\ proc' = "starting"
  <2>1. Contract!Ends(<<Contract!Say("Connecting")>>, "open") \in Contract!Events(inst)
    BY <1>1 DEF Contract!Dot1xConnect
  <2>2. Contract!Say("Connecting").to = "Connecting" /\ Phase' = "open"
    BY <1>3 DEF Contract!Say, Phase
  <2> QED
    BY <1>3, <2>1, <2>2, EventContract DEF Associated
<1> QED
  BY <1>2, <1>3 DEF Associated, StartClient

\* While the client runs, the plugin has the events of an open 802.1X session.
LEMMA OpenEvents ==
  ASSUME TypeOK, Alive \/ script = "done", Waiting
  PROVE  Phase = "open" /\ Contract!Events(inst) = Contract!Dot1xEvents(state)
<1>1. Phase = "open"
  BY DEF Phase, Alive, Waiting
<1>2. Kind \in {"Dot1x", "Wlan"}
  BY Dot1xAssumption
<1> QED
  BY <1>1, <1>2 DEF Contract!Events, inst

LEMMA ErrorContract ==
  ASSUME TypeOK, Waiting, StartFails \/ WriteFails
  PROVE  Contract!Event
<1>1. Alive /\ state' = "Failed" /\ stop' = stop /\ Phase' \in {"open", "shut"}
  BY DEF StartFails, WriteFails, Free, Alive, Phase, unlinked
<1>2. Contract!Ends(<<Contract!Fail("transient")>>, Phase') \in Contract!Events(inst)
  BY <1>1, OpenEvents DEF Contract!Dot1xEvents
<1> QED
  BY <1>1, <1>2, EventContract DEF Contract!Fail

\* A line is announced at once, or when the script has ended.
LEMMA LineContract ==
  ASSUME TypeOK, Waiting, Alive, state' \in Dot1xLines, UNCHANGED <<stop, proc>>
  PROVE  Contract!Event
<1>1. state' \in Contract!Dot1xLines /\ Phase' = "open"
  BY DEF Alive, Phase, Dot1xLines, Contract!Dot1xLines
<1>2. Contract!Ends(<<Contract!Say(state')>>, "open") \in Contract!Events(inst)
  BY <1>1, OpenEvents DEF Contract!Dot1xEvents
<1> QED
  BY <1>1, <1>2, EventContract DEF Contract!Say

\* Reading a line either announces its state or starts the script, unseen.
LEMMA ReadyContract ==
  ASSUME TypeOK, Waiting, OnReadyRead
  PROVE  Contract!Event \/ UNCHANGED inst
<1>1. proc \in {"running", "killed"} /\ UNCHANGED <<stop, proc>>
      /\ (state' = state \/ state' \in Dot1xLines)
  BY DEF OnReadyRead
<1>2. CASE state' \in Dot1xLines
  BY <1>1, <1>2, LineContract DEF Alive
<1>3. CASE state' = state
  BY <1>1, <1>3 DEF inst, Phase
<1> QED
  BY <1>1, <1>2, <1>3

\* The end of the client is announced when the script has ended, with the phase.
LEMMA ResumeContract ==
  ASSUME TypeOK, Waiting, Resume
  PROVE  Contract!Event
<1>1. CASE proc # "ended"
  BY <1>1, LineContract DEF Resume, Waiting, Alive, Dot1xLines
<1>2. CASE proc = "ended"
  <2>1. stop' = stop /\ Phase' = "shut" /\ script = "done"
    BY <1>2 DEF Resume, Phase
  <2>2. PICK f \in Contract!Dot1xFinished(state) : state' = f[Len(f)].to
    BY <1>2 DEF Resume, Dot1xFinished, Contract!Dot1xFinished, Say, Contract!Say, Fail,
                Contract!Fail
  <2>3. f # <<>>
    BY <2>2 DEF Contract!Dot1xFinished
  <2>4. state' = Contract!After(state, f)
    BY <2>2, <2>3 DEF Contract!After
  <2>5. Contract!Becomes(Contract!Ends(f, "shut"), stop)
    BY <2>1, <2>4, StepBecomes
  <2>6. Contract!Ends(f, "shut") \in Contract!Events(inst)
    BY <2>1, <2>2, OpenEvents DEF Contract!Dot1xEvents
  <2> QED
    BY <2>5, <2>6 DEF Contract!Event, inst
<1> QED
  BY <1>1, <1>2

LEMMA DisconnectContract ==
  ASSUME TypeOK, Disconnect
  PROVE  Contract!Disconnect
<1>1. Phase \in {"open", "shut"} /\ Phase' = Phase
  BY DEF Disconnect, Phase, TypeOK, unlinked
<1>2. Kind \in {"Dot1x", "Wlan"}
  BY Dot1xAssumption
<1>3. Contract!Ends(<<Contract!Say("Disconnecting")>>, Phase) \in Contract!DisconnectOutcomes(inst)
  BY <1>1, <1>2 DEF Contract!DisconnectOutcomes, Contract!Dot1xDisconnect, inst
<1>4. state' = Contract!After(state, <<Contract!Say("Disconnecting")>>)
  BY AfterOne DEF Contract!Say, Disconnect
<1>5. Contract!Becomes(Contract!Ends(<<Contract!Say("Disconnecting")>>, Phase), TRUE)
  BY <1>1, <1>4, StepBecomes DEF Disconnect
<1>6. inst.stop \/ inst.phase \notin {"idle", "assoc"}
  BY <1>1 DEF inst
<1> QED
  BY <1>3, <1>5, <1>6 DEF Contract!Disconnect, inst

\* Only WLAN associates; nothing is stopped before there is a process, and what is
\* waited for is one.
Orderly == /\ proc = "assoc" => Kind = "Wlan"
           /\ proc \in {"none", "assoc"} => stop = FALSE
           /\ at \in {"stopping", "dying"} => Alive \/ script # "none"

LEMMA StepOrderly == IInv /\ Orderly /\ [Next]_vars => Orderly'
<1> SUFFICES ASSUME IInv, Orderly, [Next]_vars
             PROVE  Orderly'
  OBVIOUS
<1> USE DEF IInv, TypeOK, Undone, Waiting, Orderly, Alive
<1>1. CASE ConnectWith \/ Associated \/ Starts \/ StartFails \/ WriteFails
  BY <1>1 DEF ConnectWith, StartClient, Associate, Associated, Starts, StartFails, WriteFails, Free,
              Waited, unlinked
<1>2. CASE OnReadyRead \/ OnFinished \/ Resume
  BY <1>2 DEF OnReadyRead, OnFinished, Clear, Resume, Free, Waited
<1>3. CASE Disconnect \/ KillIt \/ Destroy \/ Abandon
  BY <1>3 DEF Disconnect, KillIt, Killed, Destroy, Abandon, unlinked
<1>4. CASE Script \/ OthersWrite \/ UNCHANGED vars
  <2>1. UNCHANGED <<stop, proc, at>> /\ (script # "none" => script' # "none")
    BY <1>4 DEF Script, AddAddress, AddRoute, Grep, Backup, Write, DropRoute, DropAddress, Look,
                Restore, ScriptFails, Command, OthersWrite, vars
  <2> QED
    BY <2>1
<1> QED
  BY <1>1, <1>2, <1>3, <1>4 DEF Next

\* The 802.1X and WLAN plugins keep the contract MainWindow is checked against, also
\* where their handlers wait for the client.
THEOREM Refinement == Spec => KeepsContract
<1>1. Init => Orderly
  BY DEF Init, Orderly
<1>2. IInv /\ Orderly /\ [Next]_vars => [Contract!Next]_Contract!vars
  <2> SUFFICES ASSUME IInv, Orderly, [Next]_vars
               PROVE  Contract!Next \/ UNCHANGED inst
    BY DEF Contract!vars
  <2>1. TypeOK /\ Waiting
    BY DEF IInv, Undone
  <2>2. CASE ConnectWith
    <3>1. stop = FALSE
      BY <2>2 DEF Orderly, ConnectWith
    <3> QED
      BY <2>1, <2>2, <3>1, ConnectContract DEF Contract!Next
  <2>3. CASE Associated
    <3>1. Kind = "Wlan"
      BY <2>3 DEF Orderly, Associated
    <3> QED
      BY <2>1, <2>3, <3>1, AssociatedContract DEF Contract!Next
  <2>4. CASE StartFails \/ WriteFails
    BY <2>1, <2>4, ErrorContract DEF Contract!Next
  <2>5. CASE OnReadyRead
    BY <2>1, <2>5, ReadyContract DEF Contract!Next
  <2>6. CASE Resume
    BY <2>1, <2>6, ResumeContract DEF Contract!Next
  <2>7. CASE Disconnect
    BY <2>1, <2>7, DisconnectContract DEF Contract!Next
  <2>8. CASE OnFinished
    <3>1. UNCHANGED <<state, stop>> /\ Alive /\ proc' = "ended" /\ script' # "none"
      BY <2>8 DEF OnFinished, Clear
    <3> QED
      BY <3>1 DEF inst, Phase, Alive
  <2>9. CASE Starts \/ KillIt \/ Destroy \/ Abandon
    <3>1. /\ state' = state /\ stop' = stop /\ script = "none" /\ script' = script
          /\ \/ proc' = proc
             \/ Alive /\ proc' \in {"running", "killed"}
      BY <2>9 DEF Orderly, Alive, Starts, Free, KillIt, Killed, Destroy, Abandon, unlinked
    <3> QED
      BY <3>1 DEF inst, Phase, Alive
  <2>10. CASE Script \/ OthersWrite \/ UNCHANGED vars
    <3>1. UNCHANGED <<state, stop, proc>> /\ (script = "none" <=> script' = "none")
      BY <2>10 DEF Script, AddAddress, AddRoute, Grep, Backup, Write, DropRoute, DropAddress, Look,
                   Restore, ScriptFails, Command, OthersWrite, vars
    <3> QED
      BY <3>1 DEF inst, Phase
  <2> QED
    BY <2>2, <2>3, <2>4, <2>5, <2>6, <2>7, <2>8, <2>9, <2>10 DEF Next
<1> QED
  BY InitContract, InitIInv, StepIInv, StepOrderly, <1>1, <1>2, PTL
  DEF Spec, KeepsContract, Contract!Spec
=============================================================================
