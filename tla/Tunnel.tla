------------------------------- MODULE Tunnel -------------------------------
(***************************************************************************)
(* The data plane of the SSL VPN backend (h3csvpn/tunnel.py): one Tunnel   *)
(* object from the answer to NET_EXTEND to its end.  Two threads share it: *)
(* the pump (wait_netconfig, then run) and the heartbeat.  They meet in    *)
(* _stop, _miss, the send lock and the TLS socket.                         *)
(*                                                                         *)
(* recv delivers whole frames here; how FrameDecoder makes them of a byte  *)
(* stream is in module FrameDecoder.  The payload of a data frame is its   *)
(* serial number.                                                          *)
(***************************************************************************)
EXTENDS Naturals, Sequences

CONSTANTS
  MaxMiss,        \* keepalive_max_miss
  MaxData,        \* bound: data frames the gateway sends
  MaxControl,     \* bound: acknowledgements and log-offs the gateway sends
  MaxFlight       \* bound: frames in the socket buffer

ASSUME ConstantsAssumption ==
  /\ MaxMiss \in Nat \ {0} /\ MaxData \in Nat /\ MaxControl \in Nat /\ MaxFlight \in Nat \ {0}

Frame == [type : {"data", "ack", "cfg", "logoff"}, id : 0..MaxData]
Control(type) == [type |-> type, id |-> 0]
Data(n) == [type |-> "data", id |-> n]

VARIABLES
  inbox,      \* frames of the gateway not yet received
  gone,       \* the gateway: "no", "silent" (unreachable) or "closed" (FIN, RST)
  cfgSent,    \* the gateway has sent its network configuration
  produced,   \* data frames the gateway has sent
  controls,   \* used up of MaxControl
  early,      \* _early
  pump,       \* main thread: "preamble", "wait" (wait_netconfig), "nic",
              \* "batch" (_dispatch), "loop", "lock", "send", "ended"
  batch,      \* frames _dispatch has still to handle
  ready,      \* what select returned and the loop has not handled
  beat,       \* heartbeat thread: "off", "wait", "tick", "lock", "send", "done"
  lock,       \* _send_lock: "free" or the thread that holds it
  stop,       \* _stop
  miss,       \* _miss
  sock,       \* "open" or "shut" (shutdown by the heartbeat thread)
  result,     \* how the pump ended: "none", "clean" (run returned), "nocfg",
              \* "closed" (TunnelClosed), "broken" (OSError), "interrupted"
  delivered,  \* history: data frames written to the TUN device
  cfgAt,      \* history: data frames the gateway had sent when it sent its netconfig
              \* frame; MaxData until then, and if no such frame is sent
  unheard,    \* history: heartbeats sent since a frame was last dispatched,
              \* counted up to MaxMiss
  offline     \* history: the heartbeat thread has declared the link dead

gateway == <<gone, cfgSent, produced, controls>>
shared  == <<lock, stop, miss, sock>>
ghosts  == <<delivered, cfgAt, unheard, offline>>
vars == <<inbox, gateway, early, pump, batch, ready, beat, shared, result, ghosts>>

Init ==
  /\ inbox = <<>> /\ gone = "no" /\ cfgSent = FALSE /\ produced = 0 /\ controls = 0
  /\ early = <<>> /\ pump = "preamble" /\ batch = <<>> /\ ready = {}
  /\ beat = "off" /\ lock = "free" /\ stop = FALSE /\ miss = 0 /\ sock = "open"
  /\ result = "none"
  /\ delivered = <<>> /\ cfgAt = MaxData /\ unheard = 0 /\ offline = FALSE

-----------------------------------------------------------------------------
(* The gateway, external to the repository. *)

\* It acknowledges nothing before the heartbeats start.
Frames == (IF produced < MaxData THEN {Data(produced + 1)} ELSE {})
          \cup (IF cfgSent THEN {} ELSE {Control("cfg")})
          \cup (IF controls < MaxControl THEN {Control("logoff")} ELSE {})
          \cup (IF controls < MaxControl /\ beat # "off" THEN {Control("ack")} ELSE {})

GatewaySends ==
  /\ gone = "no" /\ pump # "ended" /\ Len(inbox) < MaxFlight
  /\ \E f \in Frames :
       /\ inbox' = Append(inbox, f)
       /\ produced' = IF f.type = "data" THEN produced + 1 ELSE produced
       /\ controls' = IF f.type \in {"ack", "logoff"} THEN controls + 1 ELSE controls
       /\ cfgSent' = (cfgSent \/ f.type = "cfg")
       /\ cfgAt' = IF f.type = "cfg" THEN produced ELSE cfgAt
  /\ UNCHANGED <<gone, early, pump, batch, ready, beat, shared, result, delivered, unheard,
                 offline>>

GatewayGoes ==
  /\ gone = "no" /\ gone' \in {"silent", "closed"}
  /\ UNCHANGED <<inbox, cfgSent, produced, controls, early, pump, batch, ready, beat, shared,
                 result, ghosts>>

-----------------------------------------------------------------------------
(* The main thread, up to run(). *)

Take(n) == SubSeq(inbox, 1, n)
Leave(n) == inbox' = SubSeq(inbox, n + 1, Len(inbox))

IsCfg(f) == f.type = "cfg"
HasCfg(s) == \E n \in 1..Len(s) : IsCfg(s[n])
IsFirstCfg(s, n) == IsCfg(s[n]) /\ \A k \in 1..(n - 1) : ~IsCfg(s[k])

EndAs(how) == pump' = "ended" /\ result' = how

\* _read_tunnel_preamble: the bytes that came with the HTTP head are decoded into
\* _early; the configuration may have been the body of that response.
Preamble ==
  /\ pump = "preamble"
  /\ \E n \in 0..Len(inbox) : early' = Take(n) /\ Leave(n)
  /\ \/ pump' = "wait" /\ UNCHANGED cfgSent
     \/ ~cfgSent /\ pump' = "nic" /\ cfgSent' = TRUE
  /\ UNCHANGED <<gone, produced, controls, batch, ready, beat, shared, result, ghosts>>

\* wait_netconfig, part 1: among the frames already decoded.
FoundEarly ==
  /\ pump = "wait"
  /\ \E n \in 1..Len(early) :
       /\ IsFirstCfg(early, n)
       /\ early' = SubSeq(early, 1, n - 1) \o SubSeq(early, n + 1, Len(early))
  /\ pump' = "nic"
  /\ UNCHANGED <<inbox, gateway, batch, ready, beat, shared, result, ghosts>>

\* Faulty variant: the frames before the netconfig frame are not retained.
WaitRecvForgets(got) ==
  \/ ~HasCfg(got) /\ early' = early \o got /\ pump' = "wait"
  \/ HasCfg(got) /\ pump' = "nic" /\ UNCHANGED early

\* Part 2, one turn: frames in front of the netconfig frame are retained; the
\* return inside the loop leaves those behind it.
WaitRecv(got) ==
  \/ ~HasCfg(got) /\ early' = early \o got /\ pump' = "wait"
  \/ \E k \in 1..Len(got) :
       IsFirstCfg(got, k) /\ early' = early \o SubSeq(got, 1, k - 1) /\ pump' = "nic"

WaitMore ==
  /\ pump = "wait" /\ ~HasCfg(early)
  /\ \E n \in 1..Len(inbox) : WaitRecv(Take(n)) /\ Leave(n)
  /\ UNCHANGED <<gateway, batch, ready, beat, shared, result, ghosts>>

\* The deadline passes, or the gateway closes the connection.
WaitFails ==
  /\ pump = "wait" /\ ~HasCfg(early)
  /\ \/ EndAs("nocfg")
     \/ inbox = <<>> /\ gone = "closed" /\ EndAs("closed")
  /\ UNCHANGED <<inbox, gateway, early, batch, ready, beat, shared, ghosts>>

\* cli.main opens and configures the device, which may fail.
NicFails ==
  /\ pump = "nic"
  /\ EndAs("broken") /\ stop' = TRUE
  /\ UNCHANGED <<inbox, gateway, early, batch, ready, beat, lock, miss, sock, ghosts>>

-----------------------------------------------------------------------------
(* run() and _dispatch(). *)

\* The thread that was interrupted or failed gives back the lock it holds.
Released == lock' = IF lock = "pump" THEN "free" ELSE lock

\* Faulty variant: send_frame acquires and releases without a with statement, so a
\* sendall that raises leaves the lock taken.
LeavesLocked(how) ==
  /\ EndAs(how) /\ stop' = TRUE
  /\ UNCHANGED <<inbox, gateway, early, batch, ready, beat, lock, miss, sock, ghosts>>

\* run() is left: its finally clause calls stop().
Leaves(how) ==
  /\ EndAs(how) /\ stop' = TRUE /\ Released
  /\ UNCHANGED <<inbox, gateway, early, batch, ready, beat, miss, sock, ghosts>>

Run ==
  /\ pump = "nic"
  /\ beat' = "wait"
  /\ batch' = early /\ early' = <<>>
  /\ pump' = IF early = <<>> THEN "loop" ELSE "batch"
  /\ UNCHANGED <<inbox, gateway, ready, shared, result, ghosts>>

\* One frame of _dispatch.  The loop over the batch does not look at _stop.
Dispatch ==
  /\ pump = "batch"
  /\ LET f == Head(batch)
     IN /\ delivered' = IF f.type = "data" THEN Append(delivered, f.id) ELSE delivered
        /\ stop' = (stop \/ f.type = "logoff")
  /\ miss' = 0 /\ unheard' = 0
  /\ batch' = Tail(batch)
  /\ pump' = IF Len(batch) = 1 THEN "loop" ELSE "batch"
  /\ UNCHANGED <<inbox, gateway, early, ready, beat, lock, sock, result, cfgAt, offline>>

\* os.write to the TUN device raises.
WriteFails == pump = "batch" /\ Head(batch).type = "data" /\ Leaves("broken")

Readable == inbox # <<>> \/ gone = "closed" \/ sock = "shut"

\* The loop condition, then select: the socket if it is readable, the TUN device
\* when the host has a packet to send.
Stopped == pump = "loop" /\ ready = {} /\ stop /\ Leaves("clean")

Select ==
  /\ pump = "loop" /\ ready = {} /\ ~stop
  /\ \E tun \in {{}, {"tun"}} : ready' = tun \cup (IF Readable THEN {"sock"} ELSE {})
  /\ ready' # {}
  /\ UNCHANGED <<inbox, gateway, early, pump, batch, beat, shared, result, ghosts>>

Recv ==
  /\ pump = "loop" /\ "sock" \in ready
  /\ \E n \in 1..Len(inbox) : batch' = Take(n) /\ Leave(n)
  /\ pump' = "batch" /\ ready' = ready \ {"sock"}
  /\ UNCHANGED <<gateway, early, beat, shared, result, ghosts>>

RecvEnds ==
  /\ pump = "loop" /\ "sock" \in ready /\ inbox = <<>>
  /\ \E how \in {"closed", "broken"} : Leaves(how)

ReadTun ==
  /\ pump = "loop" /\ ready = {"tun"}
  /\ ready' = {} /\ pump' = "lock"
  /\ UNCHANGED <<inbox, gateway, early, batch, beat, shared, result, ghosts>>

-----------------------------------------------------------------------------
(* send_frame, in either thread. *)

\* Faulty variant: send_frame does not take the lock.
MayWriteAlways == TRUE

MayWrite == lock = "free"

PumpLocks ==
  /\ pump = "lock" /\ MayWrite
  /\ lock' = "pump" /\ pump' = "send"
  /\ UNCHANGED <<inbox, gateway, early, batch, ready, beat, stop, miss, sock, result, ghosts>>

PumpSent ==
  /\ pump = "send" /\ sock = "open"
  /\ Released /\ pump' = "loop"
  /\ UNCHANGED <<inbox, gateway, early, batch, ready, beat, stop, miss, sock, result, ghosts>>

\* sendall raises: reset, shut down, or blocked for the 30 s of the socket timeout.
PumpSendFails == pump = "send" /\ Leaves("broken")

\* Ctrl-C.
Interrupt == pump \in {"batch", "loop", "lock", "send"} /\ Leaves("interrupted")

-----------------------------------------------------------------------------
(* _heartbeat_loop. *)

BeatWakes ==
  /\ beat = "wait"
  /\ beat' = IF stop THEN "done" ELSE "tick"
  /\ UNCHANGED <<inbox, gateway, early, pump, batch, ready, shared, result, ghosts>>

\* Faulty variant: one heartbeat short.
TooManyMissedEarly == miss + 1 >= MaxMiss

TooManyMissed == miss >= MaxMiss

\* Under the miss lock: too many unanswered, or one more.
BeatGivesUp ==
  /\ beat = "tick" /\ TooManyMissed
  /\ stop' = TRUE /\ sock' = "shut" /\ offline' = TRUE /\ beat' = "done"
  /\ UNCHANGED <<inbox, gateway, early, pump, batch, ready, lock, miss, result,
                 delivered, cfgAt, unheard>>

BeatCounts ==
  /\ beat = "tick" /\ ~TooManyMissed
  /\ miss' = miss + 1 /\ beat' = "lock"
  /\ UNCHANGED <<inbox, gateway, early, pump, batch, ready, lock, stop, sock, result, ghosts>>

BeatLocks ==
  /\ beat = "lock" /\ MayWrite
  /\ lock' = "beat" /\ beat' = "send"
  /\ UNCHANGED <<inbox, gateway, early, pump, batch, ready, stop, miss, sock, result, ghosts>>

BeatSent ==
  /\ beat = "send" /\ sock = "open"
  /\ lock' = "free" /\ beat' = "wait"
  /\ unheard' = IF unheard < MaxMiss THEN unheard + 1 ELSE unheard
  /\ UNCHANGED <<inbox, gateway, early, pump, batch, ready, stop, miss, sock, result,
                 delivered, cfgAt, offline>>

\* Faulty variant: a failed heartbeat ends the thread and nothing else.
BeatSendFailsQuietly ==
  /\ beat = "send"
  /\ lock' = "free" /\ beat' = "done"
  /\ UNCHANGED <<inbox, gateway, early, pump, batch, ready, stop, miss, sock, result, ghosts>>

BeatSendFails ==
  /\ beat = "send"
  /\ lock' = "free" /\ beat' = "done" /\ stop' = TRUE
  /\ UNCHANGED <<inbox, gateway, early, pump, batch, ready, miss, sock, result, ghosts>>

-----------------------------------------------------------------------------

Setup == Preamble \/ FoundEarly \/ WaitMore \/ WaitFails \/ NicFails \/ Run
Loop  == Stopped \/ Select \/ Recv \/ RecvEnds \/ ReadTun \/ Dispatch \/ WriteFails
PumpSends == PumpLocks \/ PumpSent \/ PumpSendFails
BeatTicks == BeatWakes \/ BeatGivesUp \/ BeatCounts
BeatSends == BeatSent \/ BeatSendFails

Next == GatewaySends \/ GatewayGoes
        \/ Setup \/ Loop \/ PumpSends \/ Interrupt
        \/ BeatTicks \/ BeatLocks \/ BeatSends

Spec == Init /\ [][Next]_vars

(***************************************************************************)
(* The scheduler runs both threads, and a blocked sendall returns or times *)
(* out.  Strong fairness of the two lock acquisitions: the holder returns  *)
(* to its wait between two frames, so neither thread finds the lock taken  *)
(* for ever.  The gateway and the host owe nothing: no packet need come.   *)
(***************************************************************************)
FairSpec ==
  /\ Spec
  /\ WF_vars(Setup)
  /\ WF_vars(Stopped \/ (Readable /\ Select) \/ Recv \/ RecvEnds \/ ReadTun \/ Dispatch)
  /\ SF_vars(PumpLocks) /\ WF_vars(PumpSent \/ PumpSendFails)
  /\ WF_vars(BeatTicks)
  /\ SF_vars(BeatLocks) /\ WF_vars(BeatSends)

-----------------------------------------------------------------------------

TypeOK ==
  /\ inbox \in Seq(Frame) /\ early \in Seq(Frame) /\ batch \in Seq(Frame)
  /\ Len(inbox) <= MaxFlight
  /\ gone \in {"no", "silent", "closed"} /\ cfgSent \in BOOLEAN /\ produced \in 0..MaxData
  /\ controls \in 0..MaxControl
  /\ pump \in {"preamble", "wait", "nic", "batch", "loop", "lock", "send", "ended"}
  /\ ready \subseteq {"sock", "tun"}
  /\ beat \in {"off", "wait", "tick", "lock", "send", "done"}
  /\ lock \in {"free", "pump", "beat"}
  /\ stop \in BOOLEAN /\ miss \in 0..MaxMiss /\ sock \in {"open", "shut"}
  /\ result \in {"none", "clean", "nocfg", "closed", "broken", "interrupted"}
  /\ delivered \in Seq(0..MaxData) /\ cfgAt \in 0..MaxData
  /\ unheard \in 0..MaxMiss /\ offline \in BOOLEAN
  /\ (pump = "batch" => batch # <<>>)

\* tunnel.py:264-266 "Any other frames seen in the meantime ... are never dropped":
\* the data frames reach the TUN device complete and in order.  False: wait_netconfig
\* returns inside its loop and leaves the frames that came behind the netconfig frame
\* in the same recv (line 289).
FramesArriveInOrder == \A n \in 1..Len(delivered) : delivered[n] = n

\* The data frames that were passed over: a later one has been written.
Written == {delivered[n] : n \in 1..Len(delivered)}
Skipped == {x \in 1..produced : x \notin Written /\ \E y \in Written : x < y}

\* What the tunnel does keep of that promise, however the gateway's frames are cut into
\* records: the frames are written in the order they were sent and none twice; those
\* sent before the netconfig frame all arrive (_early, from the HTTP head and from
\* every recv of the wait); and of those behind it one run at most is passed over, the
\* rest of the one recv that returned the configuration.
LossesAreBehindConfig ==
  /\ \A m, n \in 1..Len(delivered) : m < n => delivered[m] < delivered[n]
  /\ \A x \in Skipped : x > cfgAt
  /\ \A x, z \in Skipped : x..z \subseteq Skipped

\* Frames of the two threads never mix on the socket.
OneWriter == ~(pump = "send" /\ beat = "send")

\* tunnel.py:188 "heartbeat: no response, going offline" is true when it is said:
\* MaxMiss heartbeats in a row were sent and no frame was handled since the first
\* of them, although the reader resets the count at any moment.
OfflineOnlyUnanswered == [][~offline /\ offline' => unheard = MaxMiss]_vars

\* The miss count is covered by heartbeats: the inductive core of the above.
MissesAreSent ==
  beat # "done" => miss <= unheard + (IF beat \in {"lock", "send"} THEN 1 ELSE 0)

\* No thread is left behind: once the pump has ended, the heartbeat thread ends.
HeartbeatEnds == (pump = "ended") ~> (beat \in {"off", "done"})

\* A gateway that stops answering is noticed, although the pump's socket never
\* becomes readable again; and a forced log-off, a failed heartbeat and a dead link
\* all end the pump.
PumpEnds == (gone # "no" \/ stop) ~> (pump = "ended")
=============================================================================
