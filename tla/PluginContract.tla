--------------------------- MODULE PluginContract ---------------------------
(***************************************************************************)
(* The promise a plugin makes to MainWindow, as a specification: whatever  *)
(* happens on the wire, each of its handlers has one of the outcomes that  *)
(* Protocol lists for its kind.  MainWindow is checked against exactly     *)
(* these outcomes; a detailed plugin module implements this one.           *)
(***************************************************************************)
EXTENDS Protocol, Naturals

CONSTANT Kind

VARIABLE inst
vars == inst

\* The state a handler that announces say leaves.
After(s, say) == IF say = <<>> THEN s ELSE say[Len(say)].to

Init == inst = Plugin(Kind)

Becomes(o, stop) ==
  inst' = [kind  |-> inst.kind,
           state |-> After(inst.state, o.say),
           phase |-> o.phase,
           stop  |-> stop]

ConnectWith == /\ inst = Plugin(Kind)
               /\ \E o \in ConnectOutcomes(Kind) : Becomes(o, inst.stop)

Disconnect == \E o \in DisconnectOutcomes(inst) :
                Becomes(o, inst.stop \/ inst.phase \notin {"idle", "assoc"})

Event == \E o \in Events(inst) : Becomes(o, inst.stop)

Next == ConnectWith \/ Disconnect \/ Event

Spec == Init /\ [][Next]_vars
=============================================================================
