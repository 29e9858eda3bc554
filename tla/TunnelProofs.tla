---------------------------- MODULE TunnelProofs ----------------------------
(***************************************************************************)
(* The tunnel's two threads, for every number of frames and heartbeats,    *)
(* and the framing of its stream, for every byte and every payload.        *)
(***************************************************************************)
EXTENDS Tunnel, FrameDecoder, SequenceTheorems, TLAPS

TypeQueues ==
  /\ inbox \in Seq(Frame) /\ early \in Seq(Frame) /\ batch \in Seq(Frame)
  /\ Len(inbox) <= MaxFlight
  /\ (pump = "batch" => batch # <<>>)
TypeFlags ==
  /\ gone \in {"no", "silent", "closed"} /\ cfgSent \in BOOLEAN
  /\ pump \in {"preamble", "wait", "nic", "batch", "loop", "lock", "send", "ended"}
  /\ ready \subseteq {"sock", "tun"}
  /\ beat \in {"off", "wait", "tick", "lock", "send", "done"}
  /\ lock \in {"free", "pump", "beat"}
  /\ stop \in BOOLEAN /\ sock \in {"open", "shut"} /\ offline \in BOOLEAN
  /\ result \in {"none", "clean", "nocfg", "closed", "broken", "interrupted"}
TypeCounts ==
  /\ produced \in 0..MaxData /\ controls \in 0..MaxControl
  /\ miss \in 0..MaxMiss /\ unheard \in 0..MaxMiss
  /\ delivered \in Seq(0..MaxData) /\ cfgAt \in 0..MaxData

\* A thread between lock and unlock of _send_lock holds it.
LockIsHeld == /\ (pump = "send" => lock = "pump")
              /\ (beat = "send" => lock = "beat")

\* The frames run() and the heartbeat do not touch: _early is empty once run has
\* taken it, and the batch is empty between two calls of _dispatch.
QueuesInUse == /\ (beat # "off" \/ pump = "preamble" => early = <<>>)
               /\ (beat = "off" => pump \in {"preamble", "wait", "nic", "ended"})
               /\ (pump \in {"preamble", "wait", "nic"} => beat = "off")
               /\ (pump \in {"preamble", "wait", "nic", "loop", "lock", "send"} => batch = <<>>)

-----------------------------------------------------------------------------
(* Lemmas: the data frames of a queue, and what cutting and joining queues *)
(* does to them.                                                           *)

IsData(f) == f.type = "data"
DataIn(s) == {s[n].id : n \in {k \in 1..Len(s) : IsData(s[k])}}
Sorted(s) == \A i, j \in 1..Len(s) : i < j /\ IsData(s[i]) /\ IsData(s[j]) => s[i].id < s[j].id
Below(A, B) == \A a \in A, b \in B : a < b

LEMMA InData ==
  ASSUME NEW s, NEW x
  PROVE  x \in DataIn(s) <=> \E n \in 1..Len(s) : IsData(s[n]) /\ s[n].id = x
BY DEF DataIn

\* A run of consecutive frames of s, from the one after position d on.
IsWindow(t, s, d) ==
  /\ t \in Seq(Frame) /\ d \in 0..Len(s) /\ d + Len(t) <= Len(s)
  /\ \A k \in 1..Len(t) : t[k] = s[d + k]

LEMMA Window ==
  ASSUME NEW s \in Seq(Frame), NEW t, NEW d, IsWindow(t, s, d), Sorted(s)
  PROVE  /\ Sorted(t)
         /\ \A x \in DataIn(t) :
              \E n \in 1..Len(s) : /\ n > d /\ n <= d + Len(t)
                                  /\ IsData(s[n]) /\ s[n].id = x
<1>1. /\ Len(t) \in Nat /\ d \in Nat /\ Len(s) \in Nat
      /\ \A k \in 1..Len(t) : d + k \in 1..Len(s) /\ t[k] = s[d + k]
  BY DEF IsWindow
<1>2. ASSUME NEW i \in 1..Len(t), NEW j \in 1..Len(t), i < j, IsData(t[i]), IsData(t[j])
      PROVE  t[i].id < t[j].id
  <2>1. /\ d + i \in 1..Len(s) /\ d + j \in 1..Len(s) /\ d + i < d + j
        /\ t[i] = s[d + i] /\ t[j] = s[d + j]
    BY <1>1, <1>2
  <2> QED
    BY <1>2, <2>1 DEF Sorted
<1>3. ASSUME NEW x \in DataIn(t)
      PROVE  \E n \in 1..Len(s) : n > d /\ n <= d + Len(t) /\ IsData(s[n]) /\ s[n].id = x
  <2>1. PICK k \in 1..Len(t) : IsData(t[k]) /\ t[k].id = x
    BY <1>3, InData
  <2>2. d + k \in 1..Len(s) /\ t[k] = s[d + k] /\ d + k > d /\ d + k <= d + Len(t)
    BY <1>1
  <2> QED
    BY <2>1, <2>2
<1> QED
  BY <1>2, <1>3 DEF Sorted

\* The positions after lo, up to hi, hold no data.
NoDataIn(s, lo, hi) == \A n \in 1..Len(s) : n > lo /\ n <= hi => ~IsData(s[n])

\* The data of s is that of a and behind it that of b.
Parted(s, a, b) ==
  /\ DataIn(s) = DataIn(a) \cup DataIn(b)
  /\ Sorted(a) /\ Sorted(b) /\ Below(DataIn(a), DataIn(b))

\* A queue is cut in two: with no gap, or where a frame without data is taken out.
LEMMA TwoWindows ==
  ASSUME NEW s \in Seq(Frame), NEW a, NEW b, NEW d \in Nat, Sorted(s),
         IsWindow(a, s, 0), IsWindow(b, s, d), Len(a) <= d, Len(b) = Len(s) - d,
         NoDataIn(s, Len(a), d)
  PROVE  Parted(s, a, b)
<1>1. /\ Sorted(a)
      /\ \A x \in DataIn(a) : \E n \in 1..Len(s) : n <= Len(a) /\ IsData(s[n]) /\ s[n].id = x
  <2>1. \A x \in DataIn(a) : \E n \in 1..Len(s) :
          n > 0 /\ n <= 0 + Len(a) /\ IsData(s[n]) /\ s[n].id = x
    BY Window
  <2>2. 0 + Len(a) = Len(a)
    BY DEF IsWindow
  <2> QED
    BY <2>1, <2>2, Window
<1>2. /\ Sorted(b)
      /\ \A x \in DataIn(b) : \E n \in 1..Len(s) : n > d /\ IsData(s[n]) /\ s[n].id = x
  BY Window
<1>3. ASSUME NEW x \in DataIn(a), NEW y \in DataIn(b)
      PROVE  x < y
  <2>1. PICK i \in 1..Len(s) : i <= Len(a) /\ IsData(s[i]) /\ s[i].id = x
    BY <1>1
  <2>2. PICK j \in 1..Len(s) : j > d /\ IsData(s[j]) /\ s[j].id = y
    BY <1>2
  <2>3. i < j
    BY <2>1, <2>2 DEF IsWindow
  <2> QED
    BY <2>1, <2>2, <2>3 DEF Sorted
<1>4. DataIn(a) \cup DataIn(b) \subseteq DataIn(s)
  BY <1>1, <1>2, InData
<1>5. ASSUME NEW x \in DataIn(s)
      PROVE  x \in DataIn(a) \cup DataIn(b)
  <2>1. PICK n \in 1..Len(s) : IsData(s[n]) /\ s[n].id = x
    BY InData
  <2>2. CASE n <= Len(a)
    <3>1. n \in 1..Len(a) /\ a[n] = s[n]
      BY <2>2 DEF IsWindow
    <3> QED
      BY <2>1, <3>1, InData
  <2>3. CASE n > d
    <3>1. n - d \in 1..Len(b) /\ b[n - d] = s[d + (n - d)] /\ d + (n - d) = n
      BY <2>3 DEF IsWindow
    <3> QED
      BY <2>1, <3>1, InData
  <2> QED
    BY <2>1, <2>2, <2>3 DEF IsWindow, NoDataIn
<1> QED
  BY <1>1, <1>2, <1>3, <1>4, <1>5 DEF Below, Parted

LEMMA Split ==
  ASSUME NEW s \in Seq(Frame), NEW n \in 0..Len(s), Sorted(s),
         NEW a, a = SubSeq(s, 1, n), NEW b, b = SubSeq(s, n + 1, Len(s))
  PROVE  /\ a \in Seq(Frame) /\ b \in Seq(Frame) /\ Len(a) = n /\ Len(b) = Len(s) - n
         /\ Parted(s, a, b)
<1>1. IsWindow(a, s, 0) /\ Len(a) = n
  BY DEF IsWindow
<1>2. IsWindow(b, s, n) /\ Len(b) = Len(s) - n
  BY DEF IsWindow
<1>3. NoDataIn(s, Len(a), n)
  BY <1>1 DEF NoDataIn
<1>4. n \in Nat /\ Len(a) <= n
  BY <1>1
<1>5. Parted(s, a, b)
  BY <1>1, <1>2, <1>3, <1>4, TwoWindows
<1> QED
  BY <1>1, <1>2, <1>5 DEF IsWindow

LEMMA Cut ==
  ASSUME NEW s \in Seq(Frame), NEW n \in 1..Len(s), ~IsData(s[n]), Sorted(s),
         NEW a, a = SubSeq(s, 1, n - 1), NEW b, b = SubSeq(s, n + 1, Len(s))
  PROVE  /\ a \in Seq(Frame) /\ b \in Seq(Frame) /\ Len(b) <= Len(s)
         /\ Parted(s, a, b)
<1>1. IsWindow(a, s, 0) /\ Len(a) = n - 1
  BY DEF IsWindow
<1>2. IsWindow(b, s, n) /\ Len(b) = Len(s) - n
  BY DEF IsWindow
<1>3. NoDataIn(s, Len(a), n)
  BY <1>1 DEF NoDataIn
<1>4. n \in Nat /\ Len(a) <= n
  BY <1>1
<1>5. Parted(s, a, b)
  BY <1>1, <1>2, <1>3, <1>4, TwoWindows
<1> QED
  BY <1>1, <1>2, <1>5 DEF IsWindow

LEMMA Join ==
  ASSUME NEW a \in Seq(Frame), NEW b \in Seq(Frame), NEW s, s = a \o b,
         Sorted(a), Sorted(b), Below(DataIn(a), DataIn(b))
  PROVE  s \in Seq(Frame) /\ DataIn(s) = DataIn(a) \cup DataIn(b) /\ Sorted(s)
<1>1. /\ s \in Seq(Frame) /\ Len(s) = Len(a) + Len(b)
      /\ \A k \in 1..Len(a) : s[k] = a[k]
      /\ \A k \in 1..Len(b) : s[Len(a) + k] = b[k]
      /\ \A k \in 1..Len(s) : k > Len(a) => k - Len(a) \in 1..Len(b) /\ s[k] = b[k - Len(a)]
  OBVIOUS
<1>2. DataIn(s) \subseteq DataIn(a) \cup DataIn(b)
  <2> SUFFICES ASSUME NEW k \in 1..Len(s), IsData(s[k])
               PROVE  s[k].id \in DataIn(a) \cup DataIn(b)
    BY DEF DataIn
  <2>1. CASE k <= Len(a)
    BY <1>1, <2>1 DEF DataIn, IsData
  <2>2. CASE k > Len(a)
    BY <1>1, <2>2 DEF DataIn, IsData
  <2> QED
    BY <1>1, <2>1, <2>2
<1>3. DataIn(a) \subseteq DataIn(s) /\ DataIn(b) \subseteq DataIn(s)
  BY <1>1, SMTT(30) DEF DataIn, IsData
<1>4. ASSUME NEW i \in 1..Len(s), NEW j \in 1..Len(s), i < j, IsData(s[i]), IsData(s[j])
      PROVE  s[i].id < s[j].id
  <2>1. CASE j <= Len(a)
    BY <1>1, <1>4, <2>1 DEF Sorted, IsData
  <2>2. CASE i > Len(a)
    <3> DEFINE p == i - Len(a)
               q == j - Len(a)
    <3>1. /\ p \in 1..Len(b) /\ q \in 1..Len(b) /\ p < q
          /\ s[i] = b[p] /\ s[j] = b[q]
      BY <1>1, <1>4, <2>2
    <3> QED
      BY <1>4, <3>1 DEF Sorted, IsData
  <2>3. CASE i <= Len(a) /\ j > Len(a)
    <3>1. s[i].id \in DataIn(a)
      BY <1>1, <1>4, <2>3 DEF DataIn, IsData
    <3>2. s[j].id \in DataIn(b)
      BY <1>1, <1>4, <2>3 DEF DataIn, IsData
    <3> QED
      BY <3>1, <3>2 DEF Below
  <2> QED
    BY <1>1, <1>4, <2>1, <2>2, <2>3
<1> QED
  BY <1>1, <1>2, <1>3, <1>4 DEF Sorted

LEMMA HeadAndTail ==
  ASSUME NEW s \in Seq(Frame), s # <<>>, Sorted(s), NEW f, f = Head(s), NEW t, t = Tail(s)
  PROVE  /\ f \in Frame /\ t \in Seq(Frame) /\ Sorted(t)
         /\ (Len(s) # 1 => t # <<>>) /\ (Len(s) = 1 => t = <<>>)
         /\ DataIn(s) = DataIn(t) \cup (IF IsData(f) THEN {f.id} ELSE {})
         /\ (IsData(f) => \A x \in DataIn(t) : f.id < x)
<1>1. Len(s) \in Nat \ {0} /\ f = s[1] /\ f \in Frame
  OBVIOUS
<1>2. IsWindow(t, s, 1) /\ Len(t) = Len(s) - 1
  BY DEF IsWindow
<1>3. (Len(s) # 1 => t # <<>>) /\ (Len(s) = 1 => t = <<>>)
  <2>1. Len(s) = 1 <=> Len(t) = 0
    BY <1>1, <1>2
  <2> QED
    BY <1>2, <2>1, EmptySeq DEF IsWindow
<1>4. /\ Sorted(t)
      /\ \A x \in DataIn(t) : \E n \in 1..Len(s) : n > 1 /\ IsData(s[n]) /\ s[n].id = x
  BY <1>2, Window
<1>5. IsData(f) => \A x \in DataIn(t) : f.id < x
  BY <1>1, <1>4 DEF Sorted
<1>6. ASSUME NEW x \in DataIn(s)
      PROVE  x \in DataIn(t) \cup (IF IsData(f) THEN {f.id} ELSE {})
  <2>1. PICK n \in 1..Len(s) : IsData(s[n]) /\ s[n].id = x
    BY InData
  <2>2. CASE n = 1
    BY <1>1, <2>1, <2>2
  <2>3. CASE n # 1
    <3>1. n - 1 \in 1..Len(t) /\ t[n - 1] = s[1 + (n - 1)] /\ 1 + (n - 1) = n
      BY <1>1, <1>2, <2>3 DEF IsWindow
    <3> QED
      BY <2>1, <3>1, InData
  <2> QED
    BY <2>2, <2>3
<1>7. DataIn(t) \subseteq DataIn(s) /\ (IsData(f) => f.id \in DataIn(s))
  BY <1>1, <1>4, InData
<1> QED
  BY <1>1, <1>2, <1>3, <1>4, <1>5, <1>6, <1>7 DEF IsWindow

LEMMA Single ==
  ASSUME NEW f \in Frame
  PROVE  /\ <<f>> \in Seq(Frame) /\ Sorted(<<f>>)
         /\ DataIn(<<f>>) = IF IsData(f) THEN {f.id} ELSE {}
BY DEF Sorted, DataIn, IsData

LEMMA Empty == Sorted(<<>>) /\ DataIn(<<>>) = {}
BY DEF Sorted, DataIn

-----------------------------------------------------------------------------
(* Types, the lock and the heartbeats.                                     *)

\* The inductive invariant: the lock is in the hands of the thread that writes,
\* and every missed answer is one heartbeat sent.
IInv == /\ TypeQueues /\ TypeFlags /\ TypeCounts
        /\ LockIsHeld /\ QueuesInUse /\ MissesAreSent

LEMMA InitIInv == Init => IInv
<1> SUFFICES ASSUME Init PROVE IInv
  OBVIOUS
<1> USE ConstantsAssumption DEF Init
<1>1. TypeQueues
  BY DEF TypeQueues
<1>2. TypeFlags
  BY DEF TypeFlags
<1>3. TypeCounts
  BY DEF TypeCounts
<1>4. LockIsHeld /\ QueuesInUse /\ MissesAreSent
  BY DEF LockIsHeld, QueuesInUse, MissesAreSent
<1> QED
  BY <1>1, <1>2, <1>3, <1>4 DEF IInv

LEMMA TakeAndLeave ==
  ASSUME NEW s \in Seq(Frame), NEW n \in 0..Len(s)
  PROVE  /\ SubSeq(s, 1, n) \in Seq(Frame) /\ Len(SubSeq(s, 1, n)) = n
         /\ (n # 0 => SubSeq(s, 1, n) # <<>>)
         /\ SubSeq(s, n + 1, Len(s)) \in Seq(Frame) /\ Len(SubSeq(s, n + 1, Len(s))) <= Len(s)
<1>1. SubSeq(s, 1, n) \in Seq(Frame) /\ Len(SubSeq(s, 1, n)) = n
  OBVIOUS
<1>2. SubSeq(s, n + 1, Len(s)) \in Seq(Frame) /\ Len(SubSeq(s, n + 1, Len(s))) <= Len(s)
  OBVIOUS
<1> QED
  BY <1>1, <1>2, EmptySeq

LEMMA TailIsQueue ==
  ASSUME NEW s \in Seq(Frame), s # <<>>
  PROVE  /\ Head(s) \in Frame /\ Tail(s) \in Seq(Frame) /\ Len(Tail(s)) = Len(s) - 1
         /\ (Tail(s) = <<>> <=> Len(s) = 1)
<1>1. /\ Head(s) \in Frame /\ Tail(s) \in Seq(Frame) /\ Len(Tail(s)) = Len(s) - 1
      /\ Len(s) \in Nat \ {0}
  OBVIOUS
<1>2. Tail(s) = <<>> <=> Len(Tail(s)) = 0
  BY <1>1, EmptySeq
<1> QED
  BY <1>1, <1>2

\* What each action leaves in the queues.
LEMMA QueueSteps ==
  ASSUME TypeQueues, TypeFlags, TypeCounts, Next
  PROVE  TypeQueues'
<1> USE DEF TypeQueues
<1>1. CASE GatewaySends
  BY <1>1, ConstantsAssumption DEF GatewaySends, Frames, Frame, Data, Control, TypeCounts
<1>2. CASE GatewayGoes
  BY <1>2 DEF GatewayGoes
<1>3. CASE Setup
  <2>1. CASE Preamble
    <3>1. PICK n \in 0..Len(inbox) : early' = Take(n) /\ Leave(n)
      BY <2>1 DEF Preamble
    <3>2. early' \in Seq(Frame) /\ inbox' \in Seq(Frame) /\ Len(inbox') <= Len(inbox)
      BY <3>1, TakeAndLeave DEF Take, Leave
    <3>3. UNCHANGED batch /\ pump' # "batch"
      BY <2>1 DEF Preamble
    <3> QED
      BY <3>2, <3>3, ConstantsAssumption
  <2>2. CASE FoundEarly
    BY <2>2 DEF FoundEarly
  <2>3. CASE WaitMore
    <3>1. PICK n \in 1..Len(inbox) : WaitRecv(Take(n)) /\ Leave(n)
      BY <2>3 DEF WaitMore
    <3> DEFINE got == Take(n)
    <3>2. got \in Seq(Frame) /\ inbox' \in Seq(Frame) /\ Len(inbox') <= MaxFlight
      BY <3>1, TakeAndLeave, ConstantsAssumption DEF Take, Leave
    <3>3. early' \in Seq(Frame) /\ pump' \in {"wait", "nic"}
      <4>1. CASE early' = early \o got /\ pump' = "wait"
        BY <3>2, <4>1
      <4>2. CASE \E k \in 1..Len(got) : early' = early \o SubSeq(got, 1, k - 1) /\ pump' = "nic"
        <5>1. PICK k \in 1..Len(got) : early' = early \o SubSeq(got, 1, k - 1) /\ pump' = "nic"
          BY <4>2
        <5>2. k - 1 \in 0..Len(got)
          BY <3>2
        <5>3. SubSeq(got, 1, k - 1) \in Seq(Frame)
          BY <3>2, <5>2, TakeAndLeave
        <5> QED
          BY <5>1, <5>3
      <4> QED
        BY <3>1, <4>1, <4>2 DEF WaitRecv
    <3> QED
      BY <2>3, <3>2, <3>3 DEF WaitMore
  <2>4. CASE WaitFails \/ NicFails
    BY <2>4 DEF WaitFails, NicFails, EndAs
  <2>5. CASE Run
    BY <2>5 DEF Run
  <2> QED
    BY <1>3, <2>1, <2>2, <2>3, <2>4, <2>5 DEF Setup
<1>4. CASE Loop
  <2>1. CASE Stopped \/ RecvEnds \/ WriteFails
    BY <2>1 DEF Stopped, RecvEnds, WriteFails, Leaves, EndAs
  <2>2. CASE Select \/ ReadTun
    BY <2>2 DEF Select, ReadTun
  <2>3. CASE Recv
    <3>1. PICK n \in 1..Len(inbox) : batch' = Take(n) /\ Leave(n)
      BY <2>3 DEF Recv
    <3>2. n \in 0..Len(inbox) /\ n # 0
      OBVIOUS
    <3>3. /\ batch' \in Seq(Frame) /\ batch' # <<>>
          /\ inbox' \in Seq(Frame) /\ Len(inbox') <= Len(inbox)
      BY <3>1, <3>2, TakeAndLeave DEF Take, Leave
    <3>4. UNCHANGED early
      BY <2>3 DEF Recv
    <3> QED
      BY <3>3, <3>4, ConstantsAssumption
  <2>4. CASE Dispatch
    BY <2>4, TailIsQueue DEF Dispatch
  <2> QED
    BY <1>4, <2>1, <2>2, <2>3, <2>4 DEF Loop
<1>5. CASE PumpSends \/ Interrupt
  BY <1>5 DEF PumpSends, PumpLocks, PumpSent, PumpSendFails, Interrupt, Leaves, EndAs
<1>6. CASE BeatTicks \/ BeatLocks \/ BeatSends
  BY <1>6 DEF BeatTicks, BeatSends, BeatWakes, BeatGivesUp, BeatCounts, BeatLocks, BeatSent,
              BeatSendFails
<1> QED
  BY <1>1, <1>2, <1>3, <1>4, <1>5, <1>6 DEF Next

\* What IInv says beside the queues' types.
Rest == TypeFlags /\ TypeCounts /\ LockIsHeld /\ QueuesInUse /\ MissesAreSent

LEMMA SetupSteps ==
  ASSUME TypeQueues, Rest, Setup
  PROVE  Rest'
<1> USE ConstantsAssumption
    DEF Rest, TypeFlags, TypeCounts, LockIsHeld, QueuesInUse, MissesAreSent, gateway, shared, ghosts
<1>1. CASE Preamble
  BY <1>1, ZenonT(60) DEF Preamble
<1>2. CASE FoundEarly
  BY <1>2 DEF FoundEarly
<1>3. CASE WaitMore
  <2>1. pump' \in {"wait", "nic"}
    BY <1>3 DEF WaitMore, WaitRecv
  <2> QED
    BY <1>3, <2>1 DEF WaitMore
<1>4. CASE WaitFails \/ NicFails
  BY <1>4, ZenonT(60) DEF WaitFails, NicFails, EndAs
<1>5. CASE Run
  BY <1>5 DEF Run
<1> QED
  BY <1>1, <1>2, <1>3, <1>4, <1>5 DEF Setup

\* However run() is left, the invariant holds behind it.
LEMMA LeavesKeepsRest ==
  ASSUME Rest, NEW how \in {"clean", "closed", "broken", "interrupted"}, Leaves(how)
  PROVE  Rest'
<1>1. /\ pump' = "ended" /\ result' = how /\ stop' = TRUE
      /\ lock' = IF lock = "pump" THEN "free" ELSE lock
      /\ UNCHANGED <<inbox, early, batch, ready, beat, miss, sock>>
      /\ UNCHANGED <<gone, cfgSent, produced, controls>>
      /\ UNCHANGED <<delivered, cfgAt, unheard, offline>>
  BY DEF Leaves, EndAs, Released, gateway, ghosts
<1>2. TypeFlags'
  BY <1>1 DEF Rest, TypeFlags
<1>3. TypeCounts'
  BY <1>1 DEF Rest, TypeCounts
<1>4. LockIsHeld'
  BY <1>1 DEF Rest, LockIsHeld
<1>5. QueuesInUse'
  BY <1>1 DEF Rest, QueuesInUse
<1>6. MissesAreSent'
  BY <1>1 DEF Rest, MissesAreSent
<1> QED
  BY <1>2, <1>3, <1>4, <1>5, <1>6 DEF Rest

LEMMA LoopSteps ==
  ASSUME TypeQueues, Rest, Loop
  PROVE  Rest'
<1> USE ConstantsAssumption
    DEF Rest, TypeFlags, TypeCounts, LockIsHeld, QueuesInUse, MissesAreSent, gateway, shared, ghosts
<1>1. CASE Stopped \/ RecvEnds \/ WriteFails
  <2>1. PICK how \in {"clean", "closed", "broken"} : Leaves(how)
    BY <1>1 DEF Stopped, RecvEnds, WriteFails
  <2> QED
    BY <2>1, LeavesKeepsRest
<1>2. CASE Select \/ ReadTun
  BY <1>2 DEF Select, ReadTun
<1>3. CASE Recv
  BY <1>3 DEF Recv
<1>4. CASE Dispatch
  <2>1. /\ Head(batch).id \in 0..MaxData
        /\ (Tail(batch) = <<>> <=> Len(batch) = 1)
    BY <1>4, TailIsQueue DEF Dispatch, TypeQueues, Frame
  <2>2. Append(delivered, Head(batch).id) \in Seq(0..MaxData)
    BY <2>1
  <2>3. delivered' \in Seq(0..MaxData)
    BY <1>4, <2>2 DEF Dispatch
  <2> QED
    BY <1>4, <2>1, <2>3 DEF Dispatch
<1> QED
  BY <1>1, <1>2, <1>3, <1>4 DEF Loop

LEMMA GatewaySteps ==
  ASSUME TypeQueues, Rest, GatewaySends \/ GatewayGoes
  PROVE  Rest'
<1> USE ConstantsAssumption
    DEF Rest, TypeFlags, TypeCounts, LockIsHeld, QueuesInUse, MissesAreSent, gateway, shared, ghosts
<1>1. CASE GatewaySends
  BY <1>1 DEF GatewaySends, Frames, Data, Control
<1>2. CASE GatewayGoes
  BY <1>2 DEF GatewayGoes
<1> QED
  BY <1>1, <1>2 DEF PumpSends, BeatTicks, BeatSends

LEMMA SendSteps ==
  ASSUME TypeQueues, Rest, PumpSends \/ Interrupt
  PROVE  Rest'
<1> USE ConstantsAssumption
    DEF Rest, TypeFlags, TypeCounts, LockIsHeld, QueuesInUse, MissesAreSent, gateway, shared, ghosts
<1>1. CASE PumpLocks
  BY <1>1 DEF PumpLocks, MayWrite
<1>2. CASE PumpSent
  BY <1>2 DEF PumpSent, Released
<1>3. CASE PumpSendFails \/ Interrupt
  <2>1. PICK how \in {"broken", "interrupted"} : Leaves(how)
    BY <1>3 DEF PumpSendFails, Interrupt
  <2> QED
    BY <2>1, LeavesKeepsRest
<1> QED
  BY <1>1, <1>2, <1>3 DEF PumpSends, BeatTicks, BeatSends

LEMMA BeatSteps ==
  ASSUME TypeQueues, Rest, BeatTicks \/ BeatLocks \/ BeatSends
  PROVE  Rest'
<1> USE ConstantsAssumption
    DEF Rest, TypeFlags, TypeCounts, LockIsHeld, QueuesInUse, MissesAreSent, gateway, shared, ghosts
<1>1. CASE BeatWakes
  BY <1>1 DEF BeatWakes
<1>2. CASE BeatGivesUp
  BY <1>2 DEF BeatGivesUp
<1>3. CASE BeatCounts
  BY <1>3 DEF BeatCounts, TooManyMissed
<1>4. CASE BeatLocks
  BY <1>4 DEF BeatLocks, MayWrite
<1>5. CASE BeatSent
  BY <1>5 DEF BeatSent
<1>6. CASE BeatSendFails
  BY <1>6 DEF BeatSendFails
<1> QED
  BY <1>1, <1>2, <1>3, <1>4, <1>5, <1>6 DEF PumpSends, BeatTicks, BeatSends

LEMMA StepIInv == IInv /\ [Next]_vars => IInv'
<1> SUFFICES ASSUME IInv, [Next]_vars PROVE IInv'
  OBVIOUS
<1>0. TypeQueues /\ Rest
  BY DEF IInv, Rest
<1>1. CASE UNCHANGED vars
  BY <1>0, <1>1
     DEF vars, gateway, shared, ghosts, IInv, Rest, TypeQueues, TypeFlags, TypeCounts,
         LockIsHeld, QueuesInUse, MissesAreSent
<1>2. CASE Next
  <2>1. TypeQueues'
    BY <1>0, <1>2, QueueSteps DEF Rest
  <2>2. Rest'
    BY <1>0, <1>2, SetupSteps, LoopSteps, GatewaySteps, SendSteps, BeatSteps DEF Next
  <2> QED
    BY <2>1, <2>2 DEF IInv, Rest
<1> QED
  BY <1>1, <1>2

THEOREM Inductive == Spec => []IInv
<1> QED
  BY InitIInv, StepIInv, PTL DEF Spec

\* Every variable keeps its type.
THEOREM TypeCorrect == Spec => []TypeOK
<1>1. IInv => TypeOK
  BY DEF IInv, TypeOK, TypeQueues, TypeFlags, TypeCounts
<1> QED
  BY <1>1, Inductive, PTL

\* The two threads never write to the socket at the same time (send_frame).
THEOREM WritersExclude == Spec => []OneWriter
<1>1. IInv => OneWriter
  BY DEF IInv, OneWriter, LockIsHeld
<1> QED
  BY <1>1, Inductive, PTL

\* The heartbeat thread declares the link dead only after MaxMiss heartbeats in a
\* row that no frame has answered (_heartbeat_loop against _reset_miss).
THEOREM OfflineIsUnanswered == Spec => OfflineOnlyUnanswered
<1>1. IInv /\ [Next]_vars => [~offline /\ offline' => unheard = MaxMiss]_vars
  <2> SUFFICES ASSUME IInv, Next, ~offline, offline' PROVE unheard = MaxMiss
    OBVIOUS
  <2>1. BeatGivesUp
    BY DEF Next, GatewaySends, GatewayGoes, Setup, Preamble, FoundEarly, WaitMore, WaitFails,
           NicFails, Run, Loop, Stopped, Select, Recv, RecvEnds, ReadTun, Dispatch, WriteFails,
           PumpSends, PumpLocks, PumpSent, PumpSendFails, Interrupt, Leaves, BeatTicks,
           BeatWakes, BeatCounts, BeatLocks, BeatSends, BeatSent, BeatSendFails, ghosts
  <2> QED
    BY <2>1, ConstantsAssumption
       DEF BeatGivesUp, TooManyMissed, IInv, MissesAreSent, TypeCounts
<1> QED
  BY <1>1, Inductive, PTL DEF Spec, OfflineOnlyUnanswered

-----------------------------------------------------------------------------
(* The order of the data frames.                                           *)

\* The data frames of the gateway that are still
\* to be delivered wait in the three queues, each once and in order.
QueuesInOrder ==
  /\ Sorted(batch) /\ Sorted(early) /\ Sorted(inbox)
  /\ Below(DataIn(batch), DataIn(early)) /\ Below(DataIn(batch), DataIn(inbox))
  /\ Below(DataIn(early), DataIn(inbox))
Pending == DataIn(batch) \cup DataIn(early) \cup DataIn(inbox)
PendingSent == \A x \in Pending : x \in 1..produced

\* What a step does to the frames: one more is sent, none is lost, a run behind
\* the configuration is lost, or the first of those that are pending is delivered.
OneIsSent ==
  /\ produced' = produced + 1 /\ Pending' = Pending \cup {produced + 1}
  /\ UNCHANGED delivered
NoneIsLost == Pending' = Pending /\ UNCHANGED <<produced, delivered>>
RestIsLost ==
  /\ pump = "wait" /\ pump' = "nic"
  /\ Pending' \subseteq Pending /\ UNCHANGED <<produced, delivered>>
  /\ \A x \in Pending \ Pending' : x > cfgAt
  /\ \A x, z \in Pending \ Pending', y \in Pending' : y < x \/ y > z
FirstIsDelivered ==
  \E x \in Pending :
    /\ delivered' = Append(delivered, x) /\ Pending = Pending' \cup {x}
    /\ \A y \in Pending' : x < y
    /\ UNCHANGED produced
Effect == QueuesInOrder' /\ (OneIsSent \/ NoneIsLost \/ RestIsLost \/ FirstIsDelivered)

\* The configuration on its way: what is behind it in the inbox was sent after it.
CfgInPlace ==
  /\ ~cfgSent => cfgAt = MaxData
  /\ \A k \in 1..Len(inbox) : IsCfg(inbox[k]) =>
       /\ cfgSent /\ cfgAt <= produced
       /\ \A j \in 1..Len(inbox) : k < j /\ IsData(inbox[j]) => inbox[j].id > cfgAt

\* The gateway's next frame is behind all others.
LEMMA OrderSent ==
  ASSUME TypeQueues, TypeCounts, QueuesInOrder, PendingSent, GatewaySends
  PROVE  Effect
<1>1. PICK f \in Frames : /\ inbox' = Append(inbox, f)
                         /\ produced' = IF f.type = "data" THEN produced + 1 ELSE produced
  BY DEF GatewaySends
<1>2. f \in Frame /\ (IsData(f) => f.id = produced + 1 /\ produced' = produced + 1)
      /\ (~IsData(f) => produced' = produced)
  BY <1>1, ConstantsAssumption DEF Frames, Frame, Data, Control, IsData, TypeCounts
<1>3. inbox' = inbox \o <<f>>
  BY <1>1 DEF TypeQueues
<1>4. \A x \in DataIn(inbox) \cup DataIn(early) \cup DataIn(batch) : x \in Int /\ x <= produced
  BY DEF PendingSent, Pending, TypeCounts
<1>5. /\ <<f>> \in Seq(Frame) /\ Sorted(<<f>>)
      /\ DataIn(<<f>>) = IF IsData(f) THEN {produced + 1} ELSE {}
  BY <1>2, Single
<1>6. Below(DataIn(inbox), DataIn(<<f>>))
  BY <1>4, <1>5 DEF Below, TypeCounts
<1>7. /\ Sorted(inbox')
      /\ DataIn(inbox') = DataIn(inbox) \cup (IF IsData(f) THEN {produced + 1} ELSE {})
  <2>1. inbox \in Seq(Frame) /\ Sorted(inbox)
    BY DEF QueuesInOrder, TypeQueues
  <2>2. Sorted(inbox') /\ DataIn(inbox') = DataIn(inbox) \cup DataIn(<<f>>)
    BY <1>3, <1>5, <1>6, <2>1, Join
  <2> QED
    BY <1>5, <2>2
<1>8. UNCHANGED <<early, batch, delivered>>
  BY DEF GatewaySends, ghosts
<1>9. QueuesInOrder'
  BY <1>4, <1>7, <1>8 DEF QueuesInOrder, Below, TypeCounts
<1> QED
  BY <1>2, <1>7, <1>8, <1>9 DEF Effect, OneIsSent, NoneIsLost, Pending

\* Frames move from the front of the inbox to the end of an empty queue or _early.
LEMMA OrderReceived ==
  ASSUME TypeQueues, QueuesInOrder, NEW n \in 0..Len(inbox), Leave(n),
         UNCHANGED <<produced, delivered>>,
         \/ early' = early \o Take(n) /\ UNCHANGED batch
         \/ early = <<>> /\ batch = <<>> /\ batch' = Take(n) /\ UNCHANGED early
  PROVE  Effect
<1> DEFINE a == Take(n)
           b == SubSeq(inbox, n + 1, Len(inbox))
<1>1. inbox' = b
  BY DEF Leave
<1>2. a \in Seq(Frame) /\ b \in Seq(Frame) /\ Parted(inbox, a, b)
  <2>1. inbox \in Seq(Frame) /\ Sorted(inbox)
    BY DEF QueuesInOrder, TypeQueues
  <2>2. /\ SubSeq(inbox, 1, n) \in Seq(Frame) /\ SubSeq(inbox, n + 1, Len(inbox)) \in Seq(Frame)
        /\ Parted(inbox, SubSeq(inbox, 1, n), SubSeq(inbox, n + 1, Len(inbox)))
    BY <2>1, Split, ZenonT(60)
  <2> QED
    BY <2>2 DEF Take
<1> HIDE DEF a, b
<1>3. CASE early' = early \o a /\ UNCHANGED batch
  <2>1. Below(DataIn(early), DataIn(a))
    BY <1>2 DEF QueuesInOrder, Below, Parted
  <2>2. Sorted(early') /\ DataIn(early') = DataIn(early) \cup DataIn(a)
    BY <1>2, <1>3, <2>1, Join DEF TypeQueues, QueuesInOrder, Parted
  <2>3. QueuesInOrder'
    BY <1>1, <1>2, <1>3, <2>2 DEF QueuesInOrder, Below, Parted
  <2> QED
    BY <1>1, <1>2, <1>3, <2>2, <2>3 DEF Effect, NoneIsLost, Pending, Parted
<1>4. CASE early = <<>> /\ batch = <<>> /\ batch' = a /\ UNCHANGED early
  <2>1. QueuesInOrder'
    BY <1>1, <1>2, <1>4, Empty DEF QueuesInOrder, Below, Parted
  <2> QED
    BY <1>1, <1>2, <1>4, <2>1, Empty DEF Effect, NoneIsLost, Pending, Parted
<1> QED
  BY <1>3, <1>4 DEF a

\* wait_netconfig takes the configuration out of _early.
LEMMA OrderFoundEarly ==
  ASSUME TypeQueues, QueuesInOrder, FoundEarly
  PROVE  Effect
<1>1. PICK n \in 1..Len(early) :
        /\ IsFirstCfg(early, n)
        /\ early' = SubSeq(early, 1, n - 1) \o SubSeq(early, n + 1, Len(early))
  BY DEF FoundEarly
<1> DEFINE a == SubSeq(early, 1, n - 1)
           b == SubSeq(early, n + 1, Len(early))
<1>2. early \in Seq(Frame) /\ Sorted(early) /\ ~IsData(early[n])
  BY <1>1 DEF TypeQueues, QueuesInOrder, IsFirstCfg, IsCfg, IsData
<1>3. a \in Seq(Frame) /\ b \in Seq(Frame) /\ Parted(early, a, b)
  BY <1>2, Cut
<1> HIDE DEF a, b
<1>4. early' = a \o b
  BY <1>1 DEF a, b
<1>5. Sorted(early') /\ DataIn(early') = DataIn(a) \cup DataIn(b)
  BY <1>3, <1>4, Join DEF Parted
<1>6. Sorted(early') /\ DataIn(early') = DataIn(early)
  BY <1>3, <1>5 DEF Parted
<1>7. UNCHANGED <<inbox, batch, produced, delivered>>
  BY DEF FoundEarly, gateway, ghosts
<1> QED
  BY <1>6, <1>7 DEF QueuesInOrder, Effect, NoneIsLost, Pending

\* ... or reads until it comes, keeps what is in front of it and drops what recv has
\* returned behind it.
LEMMA OrderWaitMore ==
  ASSUME TypeQueues, TypeCounts, QueuesInOrder, CfgInPlace, PendingSent, WaitMore
  PROVE  Effect
<1>1. PICK n \in 1..Len(inbox) : WaitRecv(Take(n)) /\ Leave(n)
  BY DEF WaitMore
<1>2. UNCHANGED <<batch, produced, delivered>> /\ pump = "wait"
  BY DEF WaitMore, gateway, ghosts
<1>3. CASE early' = early \o Take(n)
  <2>1. n \in 0..Len(inbox) /\ Leave(n)
    BY <1>1
  <2> QED
    BY <1>2, <1>3, <2>1, OrderReceived
<1>4. CASE \E k \in 1..Len(Take(n)) : /\ IsFirstCfg(Take(n), k)
                                     /\ early' = early \o SubSeq(Take(n), 1, k - 1)
                                     /\ pump' = "nic"
  <2>1. PICK k \in 1..Len(Take(n)) : /\ IsFirstCfg(Take(n), k)
                                    /\ early' = early \o SubSeq(Take(n), 1, k - 1)
                                    /\ pump' = "nic"
    BY <1>4
  <2>2. /\ Len(Take(n)) = n /\ \A i \in 1..n : Take(n)[i] = inbox[i]
        /\ SubSeq(Take(n), 1, k - 1) = SubSeq(inbox, 1, k - 1)
    BY <2>1 DEF Take, TypeQueues
  <2> DEFINE a == SubSeq(inbox, 1, k - 1)
             rest == SubSeq(inbox, k + 1, Len(inbox))
             lost == SubSeq(rest, 1, n - k)
             b == SubSeq(inbox, n + 1, Len(inbox))
  <2>3. /\ inbox \in Seq(Frame) /\ Sorted(inbox) /\ IsCfg(inbox[k]) /\ ~IsData(inbox[k])
        /\ k \in 1..Len(inbox) /\ k \in 1..n /\ n \in 1..Len(inbox)
    BY <1>1, <2>1, <2>2 DEF TypeQueues, QueuesInOrder, IsFirstCfg, IsCfg, IsData
  <2>4. a \in Seq(Frame) /\ rest \in Seq(Frame) /\ Parted(inbox, a, rest)
    BY <2>3, Cut
  <2>5. /\ Len(rest) = Len(inbox) - k
        /\ \A i \in 1..Len(rest) : rest[i] = inbox[k + i]
    BY <2>3
  <2>6. b \in Seq(Frame) /\ IsWindow(b, rest, n - k) /\ Len(b) = Len(rest) - (n - k)
    <3>1. /\ b \in Seq(Frame) /\ Len(b) = Len(inbox) - n
          /\ \A i \in 1..Len(b) : b[i] = inbox[n + i]
      BY <2>3
    <3>2. n - k \in 0..Len(rest) /\ (n - k) + Len(b) = Len(rest)
      BY <2>3, <2>5, <3>1
    <3>3. ASSUME NEW i \in 1..Len(b) PROVE b[i] = rest[(n - k) + i]
      <4>1. (n - k) + i \in 1..Len(rest) /\ k + ((n - k) + i) = n + i
        BY <2>3, <2>5, <3>1
      <4> QED
        BY <2>5, <3>1, <4>1
    <3> QED
      BY <3>1, <3>2, <3>3 DEF IsWindow
  <2>7. /\ n - k \in Nat /\ n - k \in 0..Len(rest)
        /\ lost \in Seq(Frame) /\ Len(lost) = n - k /\ IsWindow(lost, rest, 0)
    <3>1. n - k \in Nat /\ n - k \in 0..Len(rest)
      BY <2>3, <2>5
    <3> HIDE DEF rest
    <3> QED
      BY <2>4, <3>1 DEF IsWindow
  <2>8. Parted(rest, lost, b)
    <3>1. NoDataIn(rest, Len(lost), n - k) /\ Len(lost) <= n - k /\ Sorted(rest)
      BY <2>4, <2>7 DEF NoDataIn, Parted
    <3> HIDE DEF rest, lost, b
    <3> QED
      BY <2>4, <2>6, <2>7, <3>1, TwoWindows
  <2>9. \A x \in DataIn(rest) : x > cfgAt
    <3> SUFFICES ASSUME NEW x \in DataIn(rest) PROVE x > cfgAt
      OBVIOUS
    <3>1. PICK i \in 1..Len(rest) : IsData(rest[i]) /\ rest[i].id = x
      BY InData
    <3> HIDE DEF a, rest, lost, b
    <3>2. Len(inbox) \in Nat /\ k \in Nat /\ i \in 1..Len(rest) /\ k \in 1..Len(inbox)
      BY <2>3, LenProperties
    <3>3. k + i \in 1..Len(inbox) /\ k < k + i
      BY <2>5, <3>2
    <3>4. inbox[k + i] = rest[i]
      BY <2>5
    <3> QED
      BY <2>3, <3>1, <3>3, <3>4 DEF CfgInPlace
  <2>10. early' = early \o a /\ inbox' = b
    BY <1>1, <2>1, <2>2 DEF Leave
  <2> HIDE DEF a, rest, lost, b
  <2>11. Below(DataIn(early), DataIn(a))
    BY <2>4 DEF QueuesInOrder, Below, Parted
  <2>12. Sorted(early') /\ DataIn(early') = DataIn(early) \cup DataIn(a)
    BY <2>4, <2>10, <2>11, Join DEF TypeQueues, QueuesInOrder, Parted
  <2>13. QueuesInOrder'
    BY <1>2, <2>4, <2>8, <2>10, <2>12 DEF QueuesInOrder, Below, Parted
  <2>14. /\ Pending = DataIn(batch) \cup DataIn(early) \cup DataIn(a) \cup DataIn(lost) \cup DataIn(b)
         /\ Pending' = DataIn(batch) \cup DataIn(early) \cup DataIn(a) \cup DataIn(b)
    BY <1>2, <2>4, <2>8, <2>10, <2>12 DEF Pending, Parted
  <2>15. /\ \A x \in DataIn(lost) : x > cfgAt
         /\ \A x \in DataIn(lost), y \in DataIn(batch) \cup DataIn(early) \cup DataIn(a) : y < x
         /\ \A x \in DataIn(lost), y \in DataIn(b) : y > x
    <3>1. DataIn(lost) \subseteq DataIn(rest) /\ DataIn(lost) \subseteq DataIn(inbox)
      BY <2>4, <2>8 DEF Parted
    <3>2. \A x \in Pending : x \in Int
      BY DEF PendingSent, TypeCounts
    <3> QED
      BY <2>4, <2>8, <2>9, <2>14, <3>1, <3>2 DEF Parted, Below, QueuesInOrder
  <2>16. RestIsLost
    BY <1>2, <2>1, <2>14, <2>15 DEF RestIsLost
  <2> QED
    BY <2>13, <2>16 DEF Effect
<1> QED
  BY <1>1, <1>3, <1>4 DEF WaitRecv

\* _dispatch writes the first of all frames that are still to come.
LEMMA OrderDispatched ==
  ASSUME TypeQueues, QueuesInOrder, Dispatch
  PROVE  Effect
<1> DEFINE f == Head(batch)
<1>1. /\ batch # <<>> /\ batch' = Tail(batch) /\ UNCHANGED <<inbox, early, produced>>
      /\ delivered' = IF IsData(f) THEN Append(delivered, f.id) ELSE delivered
  BY DEF Dispatch, TypeQueues, gateway, IsData
<1>2. batch \in Seq(Frame) /\ Sorted(batch)
  BY DEF TypeQueues, QueuesInOrder
<1>3. /\ Sorted(batch')
      /\ DataIn(batch) = DataIn(batch') \cup (IF IsData(f) THEN {f.id} ELSE {})
      /\ (IsData(f) => \A x \in DataIn(batch') : f.id < x)
  BY <1>1, <1>2, HeadAndTail
<1> HIDE DEF f
<1>4. QueuesInOrder'
  BY <1>1, <1>3 DEF QueuesInOrder, Below
<1>5. CASE ~IsData(f)
  BY <1>1, <1>3, <1>4, <1>5 DEF Effect, NoneIsLost, Pending
<1>6. CASE IsData(f)
  <2>1. f.id \in Pending /\ Pending = Pending' \cup {f.id} /\ delivered' = Append(delivered, f.id)
    BY <1>1, <1>3, <1>6 DEF Pending
  <2>2. \A y \in Pending' : f.id < y
    BY <1>1, <1>3, <1>6 DEF Pending, QueuesInOrder, Below
  <2> QED
    BY <1>1, <1>4, <2>1, <2>2 DEF Effect, FirstIsDelivered
<1> QED
  BY <1>5, <1>6

LEMMA OrderStep ==
  ASSUME IInv, QueuesInOrder, CfgInPlace, PendingSent, [Next]_vars
  PROVE  Effect
<1>0. TypeQueues /\ TypeCounts /\ Rest
  BY DEF IInv, Rest
<1>1. CASE GatewaySends
  BY <1>0, <1>1, OrderSent
<1>2. CASE Preamble
  <2>1. PICK n \in 0..Len(inbox) : early' = Take(n) /\ Leave(n)
    BY <1>2 DEF Preamble
  <2>2. early = <<>> /\ UNCHANGED <<batch, produced, delivered>>
    BY <1>0, <1>2 DEF Preamble, ghosts, Rest, QueuesInUse
  <2>3. Take(n) \in Seq(Frame)
    BY <1>0, TakeAndLeave DEF Take, TypeQueues
  <2>4. early' = early \o Take(n)
    BY <2>1, <2>2, <2>3
  <2> QED
    BY <1>0, <2>1, <2>2, <2>4, OrderReceived
<1>3. CASE FoundEarly
  BY <1>0, <1>3, OrderFoundEarly
<1>4. CASE WaitMore
  BY <1>0, <1>4, OrderWaitMore
<1>5. CASE Run
  <2>1. batch = <<>> /\ batch' = early /\ early' = <<>> /\ UNCHANGED <<inbox, produced, delivered>>
    BY <1>0, <1>5 DEF Run, gateway, ghosts, Rest, QueuesInUse
  <2> QED
    BY <2>1, Empty DEF Effect, NoneIsLost, Pending, QueuesInOrder, Below
<1>6. CASE Recv
  <2>1. PICK n \in 1..Len(inbox) : batch' = Take(n) /\ Leave(n)
    BY <1>6 DEF Recv
  <2>2. /\ n \in 0..Len(inbox) /\ early = <<>> /\ batch = <<>>
        /\ UNCHANGED <<early, produced, delivered>>
    BY <1>0, <1>6 DEF Recv, gateway, ghosts, Rest, QueuesInUse
  <2> QED
    BY <1>0, <2>1, <2>2, OrderReceived
<1>7. CASE Dispatch
  BY <1>0, <1>7, OrderDispatched
<1>8. CASE UNCHANGED <<inbox, early, batch, produced, delivered>>
  BY <1>8 DEF Effect, NoneIsLost, Pending, QueuesInOrder
<1> QED
  BY <1>1, <1>2, <1>3, <1>4, <1>5, <1>6, <1>7, <1>8
     DEF Next, Setup, Loop, PumpSends, BeatTicks, BeatSends, GatewayGoes, WaitFails, NicFails,
         Stopped, Select, RecvEnds, ReadTun, WriteFails, PumpLocks, PumpSent, PumpSendFails,
         Interrupt, Leaves, EndAs, BeatWakes, BeatGivesUp, BeatCounts, BeatLocks, BeatSent,
         BeatSendFails, vars, gateway, shared, ghosts

\* The inbox loses frames at its front and gains them at its end.
LEMMA CfgStays ==
  ASSUME TypeQueues, CfgInPlace, NEW n \in 0..Len(inbox), Leave(n),
         UNCHANGED <<produced, cfgAt>>, cfgSent => cfgSent', ~cfgSent' => cfgAt = MaxData
  PROVE  CfgInPlace'
<1>1. /\ Len(inbox') = Len(inbox) - n
      /\ \A k \in 1..Len(inbox') : n + k \in 1..Len(inbox) /\ inbox'[k] = inbox[n + k]
  BY DEF Leave, TypeQueues
<1> SUFFICES ASSUME NEW k \in 1..Len(inbox'), IsCfg(inbox'[k])
             PROVE  /\ cfgSent' /\ cfgAt' <= produced'
                    /\ \A j \in 1..Len(inbox') : k < j /\ IsData(inbox'[j]) => inbox'[j].id > cfgAt'
  BY DEF CfgInPlace
<1>2. n + k \in 1..Len(inbox) /\ IsCfg(inbox[n + k])
  BY <1>1
<1>3. ASSUME NEW j \in 1..Len(inbox'), k < j, IsData(inbox'[j])
      PROVE  inbox'[j].id > cfgAt
  <2>1. n + j \in 1..Len(inbox) /\ n + k < n + j /\ IsData(inbox[n + j]) /\ inbox'[j] = inbox[n + j]
    BY <1>1, <1>3
  <2> QED
    BY <1>2, <2>1 DEF CfgInPlace
<1> QED
  BY <1>2, <1>3 DEF CfgInPlace

LEMMA CfgStep ==
  ASSUME IInv, CfgInPlace, [Next]_vars
  PROVE  /\ CfgInPlace'
         /\ cfgAt' = cfgAt \/ cfgAt = MaxData
         /\ pump' \in {"preamble", "wait"} => pump \in {"preamble", "wait"}
<1>0. TypeQueues /\ TypeCounts /\ Rest
  BY DEF IInv, Rest
<1>1. CASE GatewaySends
  <2>1. PICK f \in Frames :
          /\ inbox' = Append(inbox, f)
          /\ produced' = IF f.type = "data" THEN produced + 1 ELSE produced
          /\ cfgSent' = (cfgSent \/ f.type = "cfg")
          /\ cfgAt' = IF f.type = "cfg" THEN produced ELSE cfgAt
    BY <1>1 DEF GatewaySends
  <2>2. /\ f.type = "data" => f.id = produced + 1
        /\ f.type = "cfg" => ~cfgSent
    BY <2>1 DEF Frames, Data, Control
  <2>3. /\ Len(inbox') = Len(inbox) + 1 /\ inbox'[Len(inbox) + 1] = f
        /\ \A k \in 1..Len(inbox) : inbox'[k] = inbox[k]
    BY <1>0, <2>1 DEF TypeQueues
  <2>4. CASE f.type = "cfg"
    <3>1. /\ ~cfgSent /\ cfgAt = MaxData /\ cfgAt' = produced /\ produced' = produced /\ cfgSent'
          /\ \A k \in 1..Len(inbox) : ~IsCfg(inbox[k])
      BY <2>1, <2>2, <2>4 DEF CfgInPlace
    <3>2. \A k \in 1..Len(inbox') : IsCfg(inbox'[k]) => k = Len(inbox')
      BY <2>3, <3>1
    <3> QED
      BY <1>0, <1>1, <2>3, <3>1, <3>2 DEF CfgInPlace, GatewaySends, TypeCounts
  <2>5. CASE f.type # "cfg"
    <3>0. cfgSent' = cfgSent
      BY <1>0, <2>1, <2>5 DEF Rest, TypeFlags
    <3>1. /\ cfgAt' = cfgAt /\ produced <= produced' /\ produced' \in Int
          /\ (IsData(f) => f.id = produced + 1) /\ ~IsCfg(f)
      BY <1>0, <2>1, <2>2, <2>5 DEF TypeCounts, IsData, IsCfg
    <3> SUFFICES ASSUME NEW k \in 1..Len(inbox'), IsCfg(inbox'[k])
                 PROVE  /\ cfgSent /\ cfgAt <= produced'
                        /\ \A j \in 1..Len(inbox') : k < j /\ IsData(inbox'[j])
                                                       => inbox'[j].id > cfgAt
      BY <1>1, <3>0, <3>1 DEF CfgInPlace, GatewaySends
    <3>2. k \in 1..Len(inbox) /\ IsCfg(inbox[k])
      BY <2>3, <3>1
    <3>3. cfgSent /\ cfgAt <= produced
      BY <3>2 DEF CfgInPlace
    <3>4. ASSUME NEW j \in 1..Len(inbox'), k < j, IsData(inbox'[j])
          PROVE  inbox'[j].id > cfgAt
      <4>1. CASE j = Len(inbox) + 1
        BY <1>0, <2>3, <3>1, <3>3, <3>4, <4>1 DEF TypeCounts
      <4>2. CASE j # Len(inbox) + 1
        <5>1. j \in 1..Len(inbox) /\ inbox'[j] = inbox[j]
          BY <2>3, <4>2
        <5> QED
          BY <3>2, <3>4, <5>1 DEF CfgInPlace
      <4> QED
        BY <4>1, <4>2
    <3> QED
      BY <1>0, <3>1, <3>3, <3>4 DEF TypeCounts
  <2> QED
    BY <2>4, <2>5
<1>2. CASE Preamble
  <2>1. PICK n \in 0..Len(inbox) : Leave(n)
    BY <1>2 DEF Preamble
  <2>2. /\ UNCHANGED <<produced, cfgAt>> /\ (cfgSent => cfgSent')
        /\ (~cfgSent' => cfgAt = MaxData) /\ pump = "preamble"
    BY <1>2 DEF Preamble, CfgInPlace, ghosts
  <2> QED
    BY <1>0, <2>1, <2>2, CfgStays
<1>3. CASE WaitMore \/ Recv
  <2>1. PICK n \in 1..Len(inbox) : Leave(n)
    BY <1>3 DEF WaitMore, Recv
  <2>2. /\ UNCHANGED <<produced, cfgAt>> /\ (cfgSent => cfgSent')
        /\ (~cfgSent' => cfgAt = MaxData) /\ n \in 0..Len(inbox)
        /\ (pump' \in {"preamble", "wait"} => pump \in {"preamble", "wait"})
    BY <1>3 DEF WaitMore, Recv, CfgInPlace, gateway, ghosts
  <2> QED
    BY <1>0, <2>1, <2>2, CfgStays
<1>4. CASE /\ UNCHANGED <<inbox, cfgSent, produced, cfgAt>>
           /\ (pump' \in {"preamble", "wait"} => pump \in {"preamble", "wait"})
  BY <1>4 DEF CfgInPlace
<1> QED
  BY <1>1, <1>2, <1>3, <1>4
     DEF Next, Setup, Loop, PumpSends, BeatTicks, BeatSends, GatewayGoes, FoundEarly, WaitFails,
         NicFails, Run, Stopped, Select, RecvEnds, ReadTun, Dispatch, WriteFails, PumpLocks,
         PumpSent, PumpSendFails, Interrupt, Leaves, EndAs, BeatWakes, BeatGivesUp, BeatCounts,
         BeatLocks, BeatSent, BeatSendFails, vars, gateway, shared, ghosts

\* What is pending is behind what was delivered; what is neither is lost.
PendingIsBehind ==
  /\ PendingSent /\ \A n \in 1..Len(delivered) : delivered[n] \in 1..produced
  /\ \A n \in 1..Len(delivered), x \in Pending : delivered[n] < x
Increasing == \A m, n \in 1..Len(delivered) : m < n => delivered[m] < delivered[n]
Missing == (1..produced) \ (Pending \cup Written)

\* Nothing is lost before the configuration is taken; what is then is one run behind it.
MissingIsRest ==
  /\ pump \in {"preamble", "wait"} => Missing = {}
  /\ \A x \in Missing : x > cfgAt
  /\ \A x, z \in Missing : x..z \subseteq Missing

KInv == QueuesInOrder /\ CfgInPlace /\ PendingIsBehind /\ Increasing /\ MissingIsRest

\* A step that loses nothing, whatever it does to the configuration.
LEMMA NothingLost ==
  ASSUME IInv, KInv, [Next]_vars, Missing' = Missing
  PROVE  MissingIsRest'
<1>1. /\ cfgAt' = cfgAt \/ cfgAt = MaxData
      /\ pump' \in {"preamble", "wait"} => pump \in {"preamble", "wait"}
  BY CfgStep DEF KInv
<1>2. cfgAt = MaxData => Missing = {}
  BY DEF IInv, TypeCounts, KInv, MissingIsRest, Missing
<1> QED
  BY <1>1, <1>2 DEF KInv, MissingIsRest

LEMMA KeptStep ==
  ASSUME IInv, KInv, [Next]_vars
  PROVE  KInv'
<1>0. produced \in Nat /\ delivered \in Seq(0..MaxData) /\ Len(delivered) \in Nat
  BY DEF IInv, TypeCounts
<1>1. Effect /\ CfgInPlace'
  BY OrderStep, CfgStep DEF KInv, PendingIsBehind
<1>2. CASE OneIsSent
  <2>1. PendingIsBehind' /\ Increasing'
    BY <1>0, <1>2 DEF OneIsSent, KInv, PendingIsBehind, PendingSent, Increasing
  <2>2. Missing' = Missing
    BY <1>0, <1>2 DEF OneIsSent, Missing, Written
  <2> QED
    BY <1>1, <2>1, <2>2, NothingLost DEF Effect, KInv
<1>3. CASE NoneIsLost
  <2>1. PendingIsBehind' /\ Increasing' /\ Missing' = Missing
    BY <1>3 DEF NoneIsLost, KInv, PendingIsBehind, PendingSent, Increasing, Missing, Written
  <2> QED
    BY <1>1, <2>1, NothingLost DEF Effect, KInv
<1>4. CASE RestIsLost
  <2>1. PendingIsBehind' /\ Increasing'
    BY <1>4 DEF RestIsLost, KInv, PendingIsBehind, PendingSent, Increasing
  <2>2. Written' = Written /\ produced' = produced /\ Missing = {}
    BY <1>4 DEF RestIsLost, Written, KInv, MissingIsRest
  <2>3. Missing' = Pending \ Pending'
    BY <1>4, <2>2 DEF RestIsLost, Missing, KInv, PendingIsBehind, PendingSent, Written
  <2>4. ASSUME NEW x \in Missing', NEW z \in Missing', NEW y \in x..z
        PROVE  y \in Missing'
    <3>1. x \in 1..produced /\ z \in 1..produced /\ y \in 1..produced /\ x <= y /\ y <= z
      BY <1>0, <2>2, <2>4 DEF Missing
    <3>2. y \in Pending \cup Written
      BY <2>2, <3>1 DEF Missing
    <3>3. y \notin Written
      BY <1>0, <2>3, <3>1 DEF Written, KInv, PendingIsBehind
    <3>4. y \notin Pending'
      BY <1>4, <2>3, <3>1 DEF RestIsLost
    <3> QED
      BY <2>3, <3>2, <3>3, <3>4
  <2>5. \A x \in Missing' : x > cfgAt'
    <3>1. cfgAt' = cfgAt \/ cfgAt = MaxData
      BY CfgStep DEF KInv
    <3>2. \A x \in Missing' : x > cfgAt
      BY <1>4, <2>3 DEF RestIsLost
    <3>3. \A x \in Missing' : x \in 1..produced
      BY <2>2 DEF Missing
    <3>4. \A x \in Missing' : x <= MaxData /\ x \in Int
      BY <3>3, ConstantsAssumption DEF IInv, TypeCounts
    <3> QED
      BY <3>1, <3>2, <3>4, ConstantsAssumption
  <2> QED
    BY <1>1, <1>4, <2>1, <2>4, <2>5 DEF Effect, KInv, MissingIsRest, RestIsLost
<1>5. CASE FirstIsDelivered
  <2>1. PICK x \in Pending :
          /\ delivered' = Append(delivered, x) /\ Pending = Pending' \cup {x}
          /\ (\A y \in Pending' : x < y) /\ produced' = produced
    BY <1>5 DEF FirstIsDelivered
  <2>2. x \in 1..produced /\ \A n \in 1..Len(delivered) : delivered[n] < x
    BY DEF KInv, PendingIsBehind, PendingSent
  <2>3. /\ Len(delivered') = Len(delivered) + 1 /\ delivered'[Len(delivered) + 1] = x
        /\ \A n \in 1..Len(delivered) : delivered'[n] = delivered[n]
    BY <1>0, <2>1
  <2>4. PendingIsBehind'
    BY <1>0, <2>1, <2>2, <2>3 DEF KInv, PendingIsBehind, PendingSent
  <2>5. Increasing'
    BY <1>0, <2>2, <2>3 DEF KInv, Increasing
  <2>6. Written' = Written \cup {x}
    <3>1. Written' \subseteq Written \cup {x}
      BY <1>0, <2>3 DEF Written
    <3>2. Written \cup {x} \subseteq Written'
      BY <1>0, <2>3 DEF Written
    <3> QED
      BY <3>1, <3>2
  <2>7. Missing' = Missing
    BY <2>1, <2>6 DEF Missing
  <2> QED
    BY <1>1, <2>4, <2>5, <2>7, NothingLost DEF Effect, KInv
<1> QED
  BY <1>1, <1>2, <1>3, <1>4, <1>5 DEF Effect

\* However the gateway's frames are cut into records: the data frames are written to the
\* TUN device in the order they were sent, none twice, all of those in front of the
\* configuration, and of those behind it all but one run (_early, wait_netconfig,
\* _dispatch).
THEOREM OnlyOneRunIsLost == Spec => []LossesAreBehindConfig
<1>1. Init => KInv
  BY Empty DEF Init, KInv, QueuesInOrder, CfgInPlace, PendingIsBehind, PendingSent, Pending,
               Below, Increasing, MissingIsRest, Missing, Written
<1>2. IInv /\ KInv /\ [Next]_vars => KInv'
  BY KeptStep
<1>3. IInv /\ KInv => LossesAreBehindConfig
  <2> SUFFICES ASSUME IInv, KInv PROVE LossesAreBehindConfig
    OBVIOUS
  <2>1. produced \in Nat /\ \A y \in Written : y \in 1..produced
    BY DEF IInv, TypeCounts, KInv, PendingIsBehind, Written
  <2>2. \A y \in Written, x \in Pending : y < x /\ x \in 1..produced
    BY DEF KInv, PendingIsBehind, PendingSent, Written
  <2>3. Skipped \subseteq Missing
    BY <2>1, <2>2 DEF Skipped, Missing
  <2>4. ASSUME NEW x \in Skipped, NEW z \in Skipped, NEW y \in x..z
        PROVE  y \in Skipped
    <3>1. PICK w \in Written : z < w
      BY DEF Skipped
    <3>2. y \in Missing
      BY <2>3 DEF KInv, MissingIsRest
    <3>3. y \in 1..produced /\ y \notin Written /\ y < w
      BY <2>1, <3>1, <3>2 DEF Missing, Skipped
    <3> QED
      BY <3>3 DEF Skipped
  <2> QED
    BY <2>3, <2>4 DEF LossesAreBehindConfig, KInv, Increasing, MissingIsRest
<1> QED
  BY <1>1, <1>2, <1>3, Inductive, PTL DEF Spec

-----------------------------------------------------------------------------
(***************************************************************************)
(* FrameDecoder.  The bytes in the buffer and on the stream are always the *)
(* encodings of the frames feed has not decoded yet.  That is an induction *)
(* over the frames if it is said by concatenating them; here it is said by *)
(* the positions at which they begin, which every step keeps: a frame sent *)
(* adds one, a recv moves none, and a frame decoded leaves the others.     *)
(***************************************************************************)
Size(f) == HeaderLen + Len(f.payload)

\* The bytes are the frames of fs after the first d, one after the other; at gives
\* where on the stream each begins, and where the last one ends.
Framed(bytes, fs, d, at) ==
  /\ at \in [1..(Len(fs) + 1) -> Nat]
  /\ at[Len(fs) + 1] = at[d + 1] + Len(bytes)
  /\ \A j, k \in (d + 1)..(Len(fs) + 1) : j <= k => at[j] <= at[k]
  /\ \A k \in (d + 1)..Len(fs) :
       /\ at[k + 1] = at[k] + Size(fs[k])
       /\ \A i \in 1..Size(fs[k]) : bytes[at[k] - at[d + 1] + i] = EncodeFrame(fs[k])[i]

StreamInv ==
  /\ StreamTypeOK
  /\ \A f \in {sent[k] : k \in 1..Len(sent)} : Encodable(f)
  /\ Len(out) <= Len(sent) /\ \A k \in 1..Len(out) : out[k] = sent[k]
  /\ \E at \in [1..(Len(sent) + 1) -> Nat] : Framed(buf \o stream, sent, Len(out), at)
  /\ ~feeding => ~Complete(buf)

-----------------------------------------------------------------------------
\* The numbers of the header.
LEMMA ByteFacts ==
  /\ Byte \subseteq Nat /\ HeaderLen = 4 /\ HeaderLen \in Nat
  /\ Base \in Nat /\ Base > 1
  /\ \A a, b \in Byte : a * Base + b \in Nat
  BY ByteAssumption DEF Byte, HeaderLen

\* The two bytes of a length give it back.
LEMMA LengthBytes ==
  ASSUME NEW l \in Nat, l <= MaxLength
  PROVE  /\ l \div Base \in Byte /\ l % Base \in Byte
         /\ (l \div Base) * Base + (l % Base) = l
<1>1. Base \in Nat /\ Base > 0
  BY ByteFacts
<1>2. /\ l \div Base \in Nat /\ l % Base \in 0..(Base - 1)
      /\ l = Base * (l \div Base) + (l % Base)
  BY <1>1
<1>3. (l \div Base) < Base
  <2>1. SUFFICES ASSUME l \div Base >= Base PROVE FALSE
    BY <1>1, <1>2
  <2>2. Base * (l \div Base) >= Base * Base
    BY <1>1, <1>2, <2>1
  <2> QED
    BY <1>1, <1>2, <2>2 DEF MaxLength
<1> QED
  BY <1>1, <1>2, <1>3 DEF Byte

\* The parts of a frame.
LEMMA PacketFacts ==
  ASSUME NEW f \in Packets
  PROVE  /\ f.type \in Byte /\ f.sub \in Byte /\ f.payload \in Seq(Byte)
         /\ Len(f.payload) \in Nat /\ Size(f) \in Nat
         /\ f = [type |-> f.type, sub |-> f.sub, payload |-> f.payload]
<1>1. f.type \in Types /\ f.sub \in Types /\ f.payload \in Payloads
      /\ f = [type |-> f.type, sub |-> f.sub, payload |-> f.payload]
  BY DEF Packets
<1>2. PICK n \in 0..MaxPayload : f.payload \in [1..n -> Values]
  BY <1>1 DEF Payloads
<1>3. n \in Nat /\ f.payload \in Seq(Values)
  BY <1>2, ByteAssumption
<1>4. f.payload \in Seq(Byte)
  BY <1>3, ByteAssumption, SeqMonotonic DEF Byte
<1>5. Len(f.payload) \in Nat
  BY <1>4, LenProperties
<1> QED
  BY <1>1, <1>4, <1>5, ByteAssumption DEF Byte, Size, HeaderLen

\* What encode_frame puts on the stream.
LEMMA Encoding ==
  ASSUME NEW f \in Packets, Encodable(f)
  PROVE  /\ EncodeFrame(f) \in Seq(Byte) /\ Len(EncodeFrame(f)) = Size(f)
         /\ EncodeFrame(f)[1] = f.type /\ EncodeFrame(f)[2] = f.sub
         /\ LengthAt(EncodeFrame(f)) = Len(f.payload)
         /\ \A i \in 1..Len(f.payload) : EncodeFrame(f)[HeaderLen + i] = f.payload[i]
<1> DEFINE h == Header(f)
           p == f.payload
<1>1. /\ f.type \in Byte /\ f.sub \in Byte /\ p \in Seq(Byte) /\ Len(p) \in Nat
      /\ Len(p) \div Base \in Byte /\ Len(p) % Base \in Byte
      /\ (Len(p) \div Base) * Base + (Len(p) % Base) = Len(p)
  BY PacketFacts, LengthBytes DEF Encodable
<1>2. h \in Seq(Byte) /\ Len(h) = 4
  BY <1>1 DEF Header
<1>3. h[1] = f.type /\ h[2] = f.sub /\ h[3] = Len(p) \div Base /\ h[4] = Len(p) % Base
  BY DEF Header
<1> HIDE DEF h, p
<1>4. /\ h \o p \in Seq(Byte) /\ Len(h \o p) = Len(h) + Len(p)
      /\ \A i \in 1..(Len(h) + Len(p)) : (h \o p)[i] = IF i <= Len(h) THEN h[i] ELSE p[i - Len(h)]
  BY <1>1, <1>2, ConcatProperties
<1>5. /\ (h \o p)[1] = h[1] /\ (h \o p)[2] = h[2]
      /\ (h \o p)[3] = h[3] /\ (h \o p)[4] = h[4]
  <2>1. ASSUME NEW i \in {1, 2, 3, 4}
        PROVE  (h \o p)[i] = h[i]
    <3>1. i \in 1..(Len(h) + Len(p)) /\ i <= Len(h)
      BY <1>1, <1>2
    <3> QED
      BY <1>4, <3>1
  <2> QED
    BY <2>1
<1>6. \A i \in 1..Len(p) : (h \o p)[4 + i] = p[i]
  <2> TAKE i \in 1..Len(p)
  <2>1. 4 + i \in 1..(Len(h) + Len(p)) /\ ~(4 + i <= Len(h)) /\ (4 + i) - Len(h) = i
    BY <1>1, <1>2
  <2> QED
    BY <1>4, <2>1
<1>7. EncodeFrame(f) = h \o p
  BY DEF EncodeFrame, h, p
<1>8. LengthAt(EncodeFrame(f)) = Len(p)
  <2>1. EncodeFrame(f)[3] = Len(p) \div Base /\ EncodeFrame(f)[4] = Len(p) % Base
    BY <1>3, <1>5, <1>7
  <2> QED
    BY <1>1, <2>1 DEF LengthAt
<1>9. Size(f) = Len(h) + Len(p)
  BY <1>2 DEF Size, HeaderLen, p
<1>10. EncodeFrame(f)[1] = f.type /\ EncodeFrame(f)[2] = f.sub
  BY <1>3, <1>5, <1>7
<1>11. \A i \in 1..Len(p) : EncodeFrame(f)[HeaderLen + i] = p[i]
  BY <1>6, <1>7 DEF HeaderLen
<1>12. EncodeFrame(f) \in Seq(Byte) /\ Len(EncodeFrame(f)) = Size(f)
  BY <1>4, <1>7, <1>9
<1> QED
  BY <1>8, <1>10, <1>11, <1>12 DEF p

-----------------------------------------------------------------------------
LEMMA Associative == \A a, b, c \in Seq(Byte) : (a \o b) \o c = a \o (b \o c)
  BY ConcatAssociative

\* The bytes behind the first z.
LEMMA CutFront ==
  ASSUME NEW b \in Seq(Byte), NEW z \in 0..Len(b)
  PROVE  LET c == SubSeq(b, z + 1, Len(b))
         IN /\ c \in Seq(Byte) /\ Len(c) = Len(b) - z
            /\ \A i \in 1..(Len(b) - z) : c[i] = b[z + i]
<1> DEFINE c == SubSeq(b, z + 1, Len(b))
<1>1. Len(b) \in Nat /\ z \in Nat /\ z <= Len(b)
  BY LenProperties
<1>2. \A i \in (z + 1)..Len(b) : b[i] \in Byte
  BY <1>1, ElementOfSeq
<1>3. /\ c \in Seq(Byte)
      /\ Len(c) = IF z + 1 <= Len(b) THEN Len(b) - (z + 1) + 1 ELSE 0
      /\ \A i \in 1..(Len(b) - (z + 1) + 1) : c[i] = b[(z + 1) + i - 1]
  BY <1>1, <1>2, SubSeqProperties
<1> HIDE DEF c
<1>4. ASSUME NEW i \in 1..(Len(b) - z)
      PROVE  c[i] = b[z + i]
  <2>1. i \in 1..(Len(b) - (z + 1) + 1) /\ (z + 1) + i - 1 = z + i
    BY <1>1
  <2> QED
    BY <1>3, <2>1
<1>5. Len(c) = Len(b) - z
  BY <1>1, <1>3
<1> QED
  BY <1>3, <1>4, <1>5 DEF c

\* No frame, no bytes.
LEMMA FramedNone ==
  ASSUME NEW bytes \in Seq(Byte), NEW fs \in Seq(Packets), NEW at, Framed(bytes, fs, Len(fs), at)
  PROVE  bytes = <<>>
<1>1. Len(fs) \in Nat /\ Len(bytes) \in Nat
  BY LenProperties
<1>2. at[Len(fs) + 1] \in Nat /\ at[Len(fs) + 1] = at[Len(fs) + 1] + Len(bytes)
  BY <1>1 DEF Framed
<1> QED
  BY <1>1, <1>2, EmptySeq

\* The first frame is at the start of the bytes, whole.
LEMMA FramedFirst ==
  ASSUME NEW bytes \in Seq(Byte), NEW fs \in Seq(Packets), NEW d \in 0..(Len(fs) - 1), NEW at,
         Framed(bytes, fs, d, at)
  PROVE  /\ Size(fs[d + 1]) <= Len(bytes)
         /\ \A i \in 1..Size(fs[d + 1]) : bytes[i] = EncodeFrame(fs[d + 1])[i]
<1>1. Len(fs) \in Nat /\ Len(bytes) \in Nat /\ d \in Nat /\ d + 1 \in 1..Len(fs)
  BY LenProperties
<1>2. fs[d + 1] \in Packets
  BY <1>1, ElementOfSeq
<1>3. Size(fs[d + 1]) \in Nat
  BY <1>2, PacketFacts
<1>4. at[d + 1] \in Nat /\ at[d + 2] \in Nat /\ at[Len(fs) + 1] \in Nat
  <2>1. d + 1 \in 1..(Len(fs) + 1) /\ d + 2 \in 1..(Len(fs) + 1) /\ Len(fs) + 1 \in 1..(Len(fs) + 1)
    BY <1>1
  <2>2. at \in [1..(Len(fs) + 1) -> Nat]
    BY DEF Framed
  <2> QED
    BY <2>1, <2>2
<1>5. /\ at[d + 2] = at[d + 1] + Size(fs[d + 1])
      /\ \A i \in 1..Size(fs[d + 1]) : bytes[at[d + 1] - at[d + 1] + i] = EncodeFrame(fs[d + 1])[i]
  <2>1. d + 1 \in (d + 1)..Len(fs) /\ (d + 1) + 1 = d + 2
    BY <1>1
  <2> QED
    BY <2>1 DEF Framed
<1>6. at[d + 2] <= at[Len(fs) + 1] /\ at[Len(fs) + 1] = at[d + 1] + Len(bytes)
  BY <1>1 DEF Framed
<1>7. \A i \in 1..Size(fs[d + 1]) : at[d + 1] - at[d + 1] + i = i
  BY <1>3, <1>4
<1> QED
  BY <1>1, <1>3, <1>4, <1>5, <1>6, <1>7

\* Byte i of a frame at here, counted from behind z bytes that begin at start.
LEMMA WithinBytes ==
  \A start, here, next, last, l, z, size \in Nat :
    start + z <= here /\ next = here + size /\ next <= last /\ last = start + l =>
      \A i \in 1..size : /\ here - (start + z) + i \in 1..(l - z)
                         /\ z + (here - (start + z) + i) = here - start + i
  OBVIOUS

\* Behind the first frame are the others.
LEMMA FramedRest ==
  ASSUME NEW bytes \in Seq(Byte), NEW fs \in Seq(Packets), NEW d \in 0..(Len(fs) - 1), NEW at,
         Framed(bytes, fs, d, at)
  PROVE  Framed(SubSeq(bytes, Size(fs[d + 1]) + 1, Len(bytes)), fs, d + 1, at)
<1> DEFINE z == Size(fs[d + 1])
           rest == SubSeq(bytes, z + 1, Len(bytes))
<1>1. Len(fs) \in Nat /\ Len(bytes) \in Nat /\ d \in Nat /\ d + 1 \in 1..Len(fs)
  BY LenProperties
<1>2. \A k \in 1..Len(fs) : fs[k] \in Packets /\ Size(fs[k]) \in Nat
  BY ElementOfSeq, PacketFacts
<1>3. z \in Nat /\ z <= Len(bytes)
  BY <1>1, <1>2, FramedFirst
<1>4. z \in 0..Len(bytes)
  BY <1>1, <1>3
<1>5. /\ Len(rest) = Len(bytes) - z
      /\ \A i \in 1..(Len(bytes) - z) : rest[i] = bytes[z + i]
  BY <1>4, CutFront
<1>6. \A k \in 1..(Len(fs) + 1) : at[k] \in Nat
  BY <1>1 DEF Framed
<1>7. at[d + 2] = at[d + 1] + z
  BY <1>1 DEF Framed
<1>8. at[Len(fs) + 1] = at[(d + 1) + 1] + Len(rest)
  <2> HIDE DEF z, rest
  <2>1. at[Len(fs) + 1] = at[d + 1] + Len(bytes) /\ at[Len(fs) + 1] \in Nat /\ at[d + 1] \in Nat
    BY <1>1, <1>6 DEF Framed
  <2> QED
    BY <1>1, <1>3, <1>5, <1>7, <2>1, SMTT(30)
<1>9. \A j, k \in ((d + 1) + 1)..(Len(fs) + 1) : j <= k => at[j] <= at[k]
  BY <1>1 DEF Framed
<1>10. ASSUME NEW k \in ((d + 1) + 1)..Len(fs)
       PROVE  /\ at[k + 1] = at[k] + Size(fs[k])
              /\ \A i \in 1..Size(fs[k]) :
                   rest[at[k] - at[(d + 1) + 1] + i] = EncodeFrame(fs[k])[i]
  <2>1. /\ at[k + 1] = at[k] + Size(fs[k])
        /\ \A i \in 1..Size(fs[k]) : bytes[at[k] - at[d + 1] + i] = EncodeFrame(fs[k])[i]
    BY <1>1 DEF Framed
  <2>2. at[d + 2] <= at[k] /\ at[k + 1] <= at[Len(fs) + 1]
    <3>1. \A j, l \in (d + 1)..(Len(fs) + 1) : j <= l => at[j] <= at[l]
      BY DEF Framed
    <3>2. /\ d + 2 \in (d + 1)..(Len(fs) + 1) /\ k \in (d + 1)..(Len(fs) + 1) /\ d + 2 <= k
          /\ k + 1 \in (d + 1)..(Len(fs) + 1) /\ Len(fs) + 1 \in (d + 1)..(Len(fs) + 1)
          /\ k + 1 <= Len(fs) + 1
      BY <1>1
    <3> QED
      BY <3>1, <3>2
  <2>3. at[k] \in Nat /\ at[k + 1] \in Nat /\ at[d + 1] \in Nat /\ Size(fs[k]) \in Nat
    BY <1>1, <1>2, <1>6
  <2> HIDE DEF z, rest
  <2>4. ASSUME NEW i \in 1..Size(fs[k])
        PROVE  rest[at[k] - at[(d + 1) + 1] + i] = EncodeFrame(fs[k])[i]
    <3>1. at[Len(fs) + 1] = at[d + 1] + Len(bytes) /\ at[Len(fs) + 1] \in Nat
      BY <1>1, <1>6 DEF Framed
    <3>2. (d + 1) + 1 = d + 2 /\ at[d + 2] \in Nat
      BY <1>1, <1>6
    <3> DEFINE start == at[d + 1]
               here == at[k]
               next == at[k + 1]
               last == at[Len(fs) + 1]
               l == Len(bytes)
               size == Size(fs[k])
    <3>3. /\ start \in Nat /\ here \in Nat /\ next \in Nat /\ last \in Nat /\ l \in Nat
          /\ size \in Nat
          /\ start + z <= here /\ next = here + size /\ next <= last /\ last = start + l
          /\ i \in 1..size
      BY <1>1, <1>3, <1>7, <2>1, <2>2, <2>3, <3>1
    <3>4. here - (start + z) + i \in 1..(l - z) /\ z + (here - (start + z) + i) = here - start + i
      <4> HIDE DEF start, here, next, last, l, size
      <4> QED
        BY <1>3, <3>3, WithinBytes
    <3>5. at[k] - at[(d + 1) + 1] + i = here - (start + z) + i
      BY <1>7, <3>2
    <3> QED
      BY <1>5, <2>1, <3>4, <3>5
  <2> QED
    BY <2>1, <2>4
<1> QED
  BY <1>8, <1>9, <1>10 DEF Framed

\* A frame more at the end.
LEMMA FramedAppend ==
  ASSUME NEW bytes \in Seq(Byte), NEW fs \in Seq(Packets), NEW d \in 0..Len(fs), NEW at,
         Framed(bytes, fs, d, at), NEW f \in Packets, Encodable(f)
  PROVE  \E new \in [1..(Len(Append(fs, f)) + 1) -> Nat] :
           Framed(bytes \o EncodeFrame(f), Append(fs, f), d, new)
<1> DEFINE N == Len(fs)
           e == EncodeFrame(f)
           gs == Append(fs, f)
           new == [k \in 1..(N + 2) |-> IF k <= N + 1 THEN at[k] ELSE at[N + 1] + Size(f)]
<1>1. N \in Nat /\ Len(bytes) \in Nat /\ d \in Nat /\ d <= N
  BY LenProperties
<1>2. /\ Len(gs) = N + 1 /\ gs[N + 1] = f /\ \A k \in 1..N : gs[k] = fs[k]
  BY AppendProperties
<1>3. e \in Seq(Byte) /\ Len(e) = Size(f) /\ Size(f) \in Nat
  BY Encoding, PacketFacts
<1>4. /\ Len(bytes \o e) = Len(bytes) + Size(f)
      /\ \A i \in 1..Len(bytes) : (bytes \o e)[i] = bytes[i]
      /\ \A i \in 1..Size(f) : (bytes \o e)[Len(bytes) + i] = e[i]
  <2> HIDE DEF e
  <2>1. /\ Len(bytes \o e) = Len(bytes) + Len(e)
        /\ \A i \in 1..(Len(bytes) + Len(e)) :
             (bytes \o e)[i] = IF i <= Len(bytes) THEN bytes[i] ELSE e[i - Len(bytes)]
    BY <1>3, ConcatProperties
  <2>2. ASSUME NEW i \in 1..Size(f)
        PROVE  (bytes \o e)[Len(bytes) + i] = e[i]
    <3>1. Len(bytes) + i \in 1..(Len(bytes) + Len(e)) /\ ~(Len(bytes) + i <= Len(bytes))
          /\ (Len(bytes) + i) - Len(bytes) = i
      BY <1>1, <1>3
    <3> QED
      BY <2>1, <3>1
  <2>3. \A i \in 1..Len(bytes) : i \in 1..(Len(bytes) + Len(e)) /\ i <= Len(bytes)
    BY <1>1, <1>3
  <2> QED
    BY <1>3, <2>1, <2>2, <2>3
<1>5. \A k \in 1..(N + 1) : at[k] \in Nat
  BY <1>1 DEF Framed
<1>6. \A k \in 1..N : fs[k] \in Packets /\ Size(fs[k]) \in Nat
  BY ElementOfSeq, PacketFacts
<1>7. /\ new \in [1..(N + 2) -> Nat] /\ \A k \in 1..(N + 1) : new[k] = at[k]
      /\ new[N + 2] = at[N + 1] + Size(f)
  BY <1>1, <1>3, <1>5
<1> HIDE DEF N, e, gs, new
<1>8. at[N + 1] = at[d + 1] + Len(bytes)
  BY DEF Framed, N
<1>9. new[Len(gs) + 1] = new[d + 1] + Len(bytes \o e)
  <2>1. /\ N + 1 \in 1..(N + 1) /\ d + 1 \in 1..(N + 1) /\ Len(gs) + 1 = N + 2
        /\ Len(bytes \o e) = Len(bytes) + Size(f)
    BY <1>1, <1>2, <1>4
  <2>2. /\ at[N + 1] \in Nat /\ at[d + 1] \in Nat /\ new[d + 1] = at[d + 1]
        /\ new[Len(gs) + 1] = at[N + 1] + Size(f)
    BY <1>5, <1>7, <2>1
  <2> QED
    BY <1>1, <1>3, <1>8, <2>1, <2>2
<1>10. \A j, k \in (d + 1)..(N + 1) : j <= k => at[j] <= at[k]
  BY DEF Framed, N
<1>11. \A j, k \in (d + 1)..(Len(gs) + 1) : j <= k => new[j] <= new[k]
  <2> SUFFICES ASSUME NEW j \in (d + 1)..(N + 2), NEW k \in (d + 1)..(N + 2), j <= k
               PROVE  new[j] <= new[k]
    BY <1>1, <1>2
  <2>1. CASE k <= N + 1
    BY <1>1, <1>7, <1>10, <2>1, SMTT(30)
  <2>2. CASE k = N + 2 /\ j <= N + 1
    BY <1>1, <1>3, <1>5, <1>7, <1>10, <2>2
  <2>3. CASE k = N + 2 /\ j = N + 2
    BY <1>1, <1>3, <1>5, <1>7, <2>3
  <2> QED
    BY <1>1, <2>1, <2>2, <2>3
<1>12. ASSUME NEW k \in (d + 1)..Len(gs)
       PROVE  /\ new[k + 1] = new[k] + Size(gs[k])
              /\ \A i \in 1..Size(gs[k]) :
                   (bytes \o e)[new[k] - new[d + 1] + i] = EncodeFrame(gs[k])[i]
  <2>1. CASE k = N + 1
    <3>1. new[k] - new[d + 1] = Len(bytes) /\ gs[k] = f
      BY <1>1, <1>2, <1>5, <1>7, <1>8, <2>1
    <3>2. new[k + 1] = new[k] + Size(f)
      BY <1>1, <1>7, <2>1
    <3> QED
      BY <1>4, <3>1, <3>2 DEF e
  <2>2. CASE k \in (d + 1)..N
    <3>1. /\ at[k + 1] = at[k] + Size(fs[k])
          /\ \A i \in 1..Size(fs[k]) : bytes[at[k] - at[d + 1] + i] = EncodeFrame(fs[k])[i]
      BY <2>2 DEF Framed, N
    <3>2. /\ at[d + 1] \in Nat /\ at[k] \in Nat /\ at[k + 1] \in Nat /\ at[N + 1] \in Nat
          /\ Size(fs[k]) \in Nat /\ gs[k] = fs[k]
          /\ new[k] = at[k] /\ new[k + 1] = at[k + 1] /\ new[d + 1] = at[d + 1]
      <4>1. /\ d + 1 \in 1..(N + 1) /\ k \in 1..(N + 1) /\ k + 1 \in 1..(N + 1)
            /\ N + 1 \in 1..(N + 1) /\ k \in 1..N
        BY <1>1, <2>2
      <4> QED
        BY <1>2, <1>5, <1>6, <1>7, <4>1
    <3>3. at[d + 1] <= at[k] /\ at[k + 1] <= at[N + 1]
      BY <1>1, <1>10, <2>2
    <3>4. ASSUME NEW i \in 1..Size(fs[k])
          PROVE  at[k] - at[d + 1] + i \in 1..Len(bytes)
      <4> DEFINE start == at[d + 1]
                 here == at[k]
                 next == at[k + 1]
                 last == at[N + 1]
                 l == Len(bytes)
                 size == Size(fs[k])
      <4>1. /\ start \in Nat /\ here \in Nat /\ next \in Nat /\ last \in Nat /\ l \in Nat
            /\ size \in Nat /\ i \in 1..size
            /\ start <= here /\ next = here + size /\ next <= last /\ last = start + l
        BY <1>1, <1>8, <3>1, <3>2, <3>3
      <4> HIDE DEF start, here, next, last, l, size
      <4>2. here - start + i \in 1..l
        BY <4>1
      <4> QED
        BY <4>2 DEF start, here, l
    <3> QED
      BY <1>4, <3>1, <3>2, <3>4
  <2>3. k = N + 1 \/ k \in (d + 1)..N
    BY <1>1, <1>2
  <2> QED
    BY <2>1, <2>2, <2>3
<1>13. new \in [1..(Len(gs) + 1) -> Nat]
  BY <1>1, <1>2, <1>7
<1>14. Framed(bytes \o e, gs, d, new)
  BY <1>9, <1>11, <1>12, <1>13 DEF Framed
<1> QED
  BY <1>13, <1>14 DEF e, gs

-----------------------------------------------------------------------------
\* What is behind the first z bytes of the buffer, and on the stream.
LEMMA BehindFirst ==
  ASSUME NEW b \in Seq(Byte), NEW s \in Seq(Byte), NEW z \in 0..Len(b)
  PROVE  /\ SubSeq(b, z + 1, Len(b)) \in Seq(Byte)
         /\ SubSeq(b, z + 1, Len(b)) \o s = SubSeq(b \o s, z + 1, Len(b \o s))
<1> DEFINE c == SubSeq(b, z + 1, Len(b))
           t == SubSeq(b \o s, z + 1, Len(b \o s))
<1>1. Len(b) \in Nat /\ Len(s) \in Nat /\ z \in Nat /\ z <= Len(b)
  BY LenProperties
<1>2. /\ b \o s \in Seq(Byte) /\ Len(b \o s) = Len(b) + Len(s)
      /\ \A i \in 1..(Len(b) + Len(s)) : (b \o s)[i] = IF i <= Len(b) THEN b[i] ELSE s[i - Len(b)]
  BY ConcatProperties
<1>3. /\ c \in Seq(Byte) /\ Len(c) = Len(b) - z
      /\ \A i \in 1..(Len(b) - z) : c[i] = b[z + i]
  BY <1>1, CutFront
<1>4. /\ t \in Seq(Byte) /\ Len(t) = Len(b) + Len(s) - z
      /\ \A i \in 1..(Len(b) + Len(s) - z) : t[i] = (b \o s)[z + i]
  <2>1. z \in 0..Len(b \o s)
    BY <1>1, <1>2
  <2> QED
    BY <1>2, <2>1, CutFront
<1> HIDE DEF c, t
<1>5. /\ c \o s \in Seq(Byte) /\ Len(c \o s) = Len(c) + Len(s)
      /\ \A i \in 1..(Len(c) + Len(s)) : (c \o s)[i] = IF i <= Len(c) THEN c[i] ELSE s[i - Len(c)]
  BY <1>3, ConcatProperties
<1>6. Len(c \o s) = Len(t)
  BY <1>1, <1>3, <1>4, <1>5
<1>7. ASSUME NEW i \in 1..Len(c \o s)
      PROVE  (c \o s)[i] = t[i]
  <2>1. /\ i \in 1..(Len(b) + Len(s) - z) /\ i \in 1..(Len(c) + Len(s))
        /\ z + i \in 1..(Len(b) + Len(s))
    BY <1>1, <1>3, <1>5
  <2>2. t[i] = IF z + i <= Len(b) THEN b[z + i] ELSE s[z + i - Len(b)]
    BY <1>2, <1>4, <2>1
  <2>3. CASE i <= Len(c)
    <3>1. i \in 1..(Len(b) - z) /\ z + i <= Len(b)
      BY <1>1, <1>3, <2>1, <2>3
    <3> QED
      BY <1>3, <1>5, <2>1, <2>2, <2>3, <3>1
  <2>4. CASE ~(i <= Len(c))
    <3>1. ~(z + i <= Len(b)) /\ i - Len(c) = z + i - Len(b)
      BY <1>1, <1>3, <2>1, <2>4
    <3> QED
      BY <1>5, <2>1, <2>2, <2>4, <3>1
  <2> QED
    BY <2>3, <2>4
<1>8. c \o s = t
  BY <1>4, <1>5, <1>6, <1>7, SeqEqual
<1> QED
  BY <1>3, <1>8 DEF c, t

\* A buffer with the bytes of a whole frame at its start: feed decodes that frame.
LEMMA DecodesFirst ==
  ASSUME NEW b \in Seq(Byte), NEW f \in Packets, Encodable(f), Size(f) <= Len(b),
         \A i \in 1..Size(f) : b[i] = EncodeFrame(f)[i]
  PROVE  Complete(b) /\ FirstFrame(b) = f /\ HeaderLen + LengthAt(b) = Size(f)
<1>1. /\ f.payload \in Seq(Byte) /\ Len(f.payload) \in Nat /\ Len(b) \in Nat
      /\ f = [type |-> f.type, sub |-> f.sub, payload |-> f.payload]
  BY PacketFacts, LenProperties
<1>2. Size(f) = 4 + Len(f.payload)
  BY DEF Size, HeaderLen
<1>3. \A i \in 1..4 : b[i] = EncodeFrame(f)[i]
  BY <1>1, <1>2
<1>4. b[1] = f.type /\ b[2] = f.sub
  BY <1>3, Encoding
<1>5. LengthAt(b) = Len(f.payload)
  <2>1. b[3] = EncodeFrame(f)[3] /\ b[4] = EncodeFrame(f)[4]
    BY <1>3
  <2> QED
    BY <2>1, Encoding DEF LengthAt
<1>6. Complete(b)
  BY <1>1, <1>2, <1>5 DEF Complete, HeaderLen
<1> DEFINE p == SubSeq(b, 5, 4 + Len(f.payload))
<1>7. p = f.payload
  <2>1. \A i \in 5..(4 + Len(f.payload)) : b[i] \in Byte
    BY <1>1, <1>2, ElementOfSeq
  <2>2. /\ p \in Seq(Byte)
        /\ Len(p) = IF 5 <= 4 + Len(f.payload) THEN 4 + Len(f.payload) - 5 + 1 ELSE 0
        /\ \A i \in 1..(4 + Len(f.payload) - 5 + 1) : p[i] = b[5 + i - 1]
    BY <1>1, <2>1, SubSeqProperties
  <2> HIDE DEF p
  <2>3. Len(p) = Len(f.payload)
    BY <1>1, <2>2
  <2>4. ASSUME NEW i \in 1..Len(p)
        PROVE  p[i] = f.payload[i]
    <3>1. /\ i \in 1..(4 + Len(f.payload) - 5 + 1) /\ 5 + i - 1 = 4 + i /\ 4 + i \in 1..Size(f)
          /\ i \in 1..Len(f.payload)
      BY <1>1, <1>2, <2>3
    <3>2. EncodeFrame(f)[4 + i] = f.payload[i]
      BY <3>1, Encoding DEF HeaderLen
    <3> QED
      BY <2>2, <3>1, <3>2
  <2> QED
    BY <1>1, <2>2, <2>3, <2>4, SeqEqual
<1>8. FirstFrame(b) = [type |-> b[1], sub |-> b[2], payload |-> p]
  BY <1>5 DEF FirstFrame, HeaderLen
<1>9. HeaderLen + LengthAt(b) = Size(f)
  BY <1>2, <1>5 DEF HeaderLen
<1> QED
  BY <1>1, <1>4, <1>6, <1>7, <1>8, <1>9

\* What the buffer holds: if frames are missing, the start of the next one.
LEMMA NextFrame ==
  ASSUME StreamInv
  PROVE  /\ Len(out) = Len(sent) => buf = <<>> /\ stream = <<>>
         /\ Len(out) < Len(sent) /\ Size(sent[Len(out) + 1]) <= Len(buf) =>
              /\ Complete(buf) /\ FirstFrame(buf) = sent[Len(out) + 1]
              /\ HeaderLen + LengthAt(buf) = Size(sent[Len(out) + 1])
         /\ Len(out) < Len(sent) => Size(sent[Len(out) + 1]) <= Len(buf) + Len(stream)
         /\ Len(out) < Len(sent) /\ Complete(buf) => Size(sent[Len(out) + 1]) <= Len(buf)
<1>1. PICK at \in [1..(Len(sent) + 1) -> Nat] : Framed(buf \o stream, sent, Len(out), at)
  BY DEF StreamInv
<1>2. /\ buf \in Seq(Byte) /\ stream \in Seq(Byte) /\ sent \in Seq(Packets) /\ out \in Seq(Packets)
      /\ Len(buf) \in Nat /\ Len(stream) \in Nat /\ Len(sent) \in Nat /\ Len(out) \in Nat
  BY LenProperties DEF StreamInv, StreamTypeOK
<1>3. /\ buf \o stream \in Seq(Byte) /\ Len(buf \o stream) = Len(buf) + Len(stream)
      /\ \A i \in 1..Len(buf) : (buf \o stream)[i] = buf[i]
  BY <1>2, ConcatProperties
<1>4. ASSUME Len(out) = Len(sent)
      PROVE  buf = <<>> /\ stream = <<>>
  <2>1. Framed(buf \o stream, sent, Len(sent), at)
    BY <1>1, <1>4
  <2>2. buf \o stream = <<>>
    BY <1>2, <1>3, <2>1, FramedNone
  <2> QED
    BY <1>2, <2>2, ConcatEqualIffEmpty
<1>5. ASSUME Len(out) < Len(sent)
      PROVE  LET f == sent[Len(out) + 1]
             IN /\ Size(f) <= Len(buf) =>
                     Complete(buf) /\ FirstFrame(buf) = f /\ HeaderLen + LengthAt(buf) = Size(f)
                /\ Size(f) <= Len(buf) + Len(stream)
                /\ Complete(buf) => Size(f) <= Len(buf)
  <2> DEFINE f == sent[Len(out) + 1]
  <2>1. Len(out) \in 0..(Len(sent) - 1) /\ Len(out) + 1 \in 1..Len(sent)
    BY <1>2, <1>5
  <2>2. f \in Packets /\ Encodable(f)
    BY <1>2, <2>1, ElementOfSeq DEF StreamInv
  <2>3. /\ Size(f) <= Len(buf) + Len(stream)
        /\ \A i \in 1..Size(f) : (buf \o stream)[i] = EncodeFrame(f)[i]
    BY <1>1, <1>2, <1>3, <2>1, FramedFirst, ZenonT(60)
  <2>4. Size(f) \in Nat /\ Size(f) = 4 + Len(f.payload) /\ Len(f.payload) \in Nat
    BY <2>2, PacketFacts DEF Size, HeaderLen
  <2> HIDE DEF f
  <2>5. ASSUME Size(f) <= Len(buf)
        PROVE  Complete(buf) /\ FirstFrame(buf) = f /\ HeaderLen + LengthAt(buf) = Size(f)
    <3>1. \A i \in 1..Size(f) : buf[i] = EncodeFrame(f)[i]
      BY <1>2, <1>3, <2>3, <2>4, <2>5
    <3> QED
      BY <1>2, <2>2, <2>5, <3>1, DecodesFirst
  <2>6. ASSUME Complete(buf)
        PROVE  Size(f) <= Len(buf)
    <3>1. Len(buf) >= 4
      BY <2>6 DEF Complete, HeaderLen
    <3>2. 3 \in 1..Size(f) /\ 4 \in 1..Size(f) /\ 3 \in 1..Len(buf) /\ 4 \in 1..Len(buf)
      BY <1>2, <2>4, <3>1
    <3>3. buf[3] = EncodeFrame(f)[3] /\ buf[4] = EncodeFrame(f)[4]
      BY <1>3, <2>3, <3>2
    <3>4. LengthAt(buf) = LengthAt(EncodeFrame(f))
      BY <3>3 DEF LengthAt
    <3>5. LengthAt(buf) = Len(f.payload)
      BY <2>2, <3>4, Encoding
    <3> QED
      BY <2>4, <2>6, <3>5 DEF Complete, HeaderLen
  <2> QED
    BY <2>3, <2>5, <2>6 DEF f
<1> QED
  BY <1>4, <1>5

\* At first there is nothing.
LEMMA InitStream == StreamInit => StreamInv
<1> SUFFICES ASSUME StreamInit
             PROVE  StreamInv
  OBVIOUS
<1>1. StreamTypeOK
  BY EmptySeq DEF StreamInit, StreamTypeOK
<1>2. Len(sent) = 0 /\ Len(out) = 0 /\ Len(buf) = 0 /\ ~feeding /\ buf \o stream = <<>>
  BY ConcatEmptySeq, EmptySeq DEF StreamInit
<1>3. ~Complete(buf)
  BY <1>2 DEF Complete, HeaderLen
<1> DEFINE at == [k \in 1..1 |-> 0]
<1>4. at \in [1..(Len(sent) + 1) -> Nat] /\ Framed(buf \o stream, sent, Len(out), at)
  BY <1>2, EmptySeq DEF Framed
<1> QED
  BY <1>1, <1>2, <1>3, <1>4 DEF StreamInv

\* The step: a frame is sent, bytes are fed, a frame is decoded, or feed returns.
LEMMA StepStream == StreamInv /\ [StreamNext]_streamVars => StreamInv'
<1> SUFFICES ASSUME StreamInv, [StreamNext]_streamVars
             PROVE  StreamInv'
  OBVIOUS
<1>1. /\ buf \in Seq(Byte) /\ stream \in Seq(Byte) /\ sent \in Seq(Packets) /\ out \in Seq(Packets)
      /\ Len(buf) \in Nat /\ Len(stream) \in Nat /\ Len(sent) \in Nat /\ Len(out) \in Nat
      /\ Len(out) <= Len(sent) /\ feeding \in BOOLEAN
  BY LenProperties DEF StreamInv, StreamTypeOK
<1>2. PICK at \in [1..(Len(sent) + 1) -> Nat] : Framed(buf \o stream, sent, Len(out), at)
  BY DEF StreamInv
<1>3. buf \o stream \in Seq(Byte)
  BY <1>1, ConcatProperties
<1>4. ASSUME NEW f \in Packets, SendFrame(f)
      PROVE  StreamInv'
  <2>1. /\ Encodable(f) /\ sent' = Append(sent, f) /\ stream' = stream \o EncodeFrame(f)
        /\ buf' = buf /\ feeding' = feeding /\ out' = out
    BY <1>4 DEF SendFrame
  <2>2. /\ sent' \in Seq(Packets) /\ Len(sent') = Len(sent) + 1 /\ sent'[Len(sent) + 1] = f
        /\ \A k \in 1..Len(sent) : sent'[k] = sent[k]
    BY <1>1, <2>1, AppendProperties
  <2>3. EncodeFrame(f) \in Seq(Byte)
    BY <2>1, Encoding
  <2>4. stream' \in Seq(Byte)
    BY <1>1, <2>1, <2>3, ConcatProperties
  <2>5. buf' \o stream' = (buf \o stream) \o EncodeFrame(f)
    <3>1. (buf \o stream) \o EncodeFrame(f) = buf \o (stream \o EncodeFrame(f))
      BY <1>1, <2>3, Associative
    <3> QED
      BY <2>1, <3>1
  <2>6. Len(out) \in 0..Len(sent)
    BY <1>1
  <2>7. \E new \in [1..(Len(sent') + 1) -> Nat] : Framed(buf' \o stream', sent', Len(out'), new)
    BY <1>1, <1>2, <1>3, <2>1, <2>5, <2>6, FramedAppend
  <2>8. StreamTypeOK'
    BY <1>1, <2>1, <2>2, <2>4 DEF StreamTypeOK
  <2>9. \A g \in {sent'[k] : k \in 1..Len(sent')} : Encodable(g)
    <3> SUFFICES ASSUME NEW k \in 1..(Len(sent) + 1)
                 PROVE  Encodable(sent'[k])
      BY <2>2
    <3>1. CASE k = Len(sent) + 1
      BY <2>1, <2>2, <3>1
    <3>2. CASE k \in 1..Len(sent)
      BY <2>2, <3>2 DEF StreamInv
    <3> QED
      BY <1>1, <3>1, <3>2
  <2>10. Len(out') <= Len(sent') /\ \A k \in 1..Len(out') : out'[k] = sent'[k]
    BY <1>1, <2>1, <2>2 DEF StreamInv
  <2>11. ~feeding' => ~Complete(buf')
    BY <2>1 DEF StreamInv
  <2> QED
    BY <2>7, <2>8, <2>9, <2>10, <2>11 DEF StreamInv
<1>5. ASSUME NEW n \in 1..Len(stream), Feed(n)
      PROVE  StreamInv'
  <2> DEFINE got == SubSeq(stream, 1, n)
             rest == SubSeq(stream, n + 1, Len(stream))
  <2>1. /\ buf' = buf \o got /\ stream' = rest /\ feeding' = TRUE /\ sent' = sent /\ out' = out
    BY <1>5 DEF Feed
  <2>2. got \in Seq(Byte) /\ rest \in Seq(Byte)
    <3>1. \A i \in 1..Len(stream) : stream[i] \in Byte
      BY <1>1, ElementOfSeq
    <3>2. got \in Seq(Byte)
      BY <1>1, <3>1, SubSeqProperties
    <3>3. n \in 0..Len(stream)
      BY <1>1
    <3> QED
      BY <1>1, <3>2, <3>3, BehindFirst
  <2>3. got \o rest = stream
    <3>1. /\ 1 \in 1..(Len(stream) + 1) /\ n \in (1 - 1)..Len(stream)
          /\ Len(stream) \in n..Len(stream)
      BY <1>1
    <3>2. got \o rest = SubSeq(stream, 1, Len(stream))
      BY <1>1, <3>1, ConcatAdjacentSubSeq
    <3> QED
      BY <1>1, <3>2, SubSeqFull
  <2> HIDE DEF got, rest
  <2>4. buf' \o stream' = buf \o stream
    <3>1. (buf \o got) \o rest = buf \o (got \o rest)
      BY <1>1, <2>2, Associative
    <3> QED
      BY <2>1, <2>3, <3>1
  <2>5. buf' \in Seq(Byte)
    BY <1>1, <2>1, <2>2, ConcatProperties
  <2>6. StreamTypeOK'
    BY <1>1, <2>1, <2>2, <2>5 DEF StreamTypeOK
  <2> QED
    BY <1>2, <2>1, <2>4, <2>6 DEF StreamInv
<1>6. CASE DecodeOne
  <2> DEFINE f == sent[Len(out) + 1]
  <2>1. /\ Complete(buf) /\ feeding /\ out' = Append(out, FirstFrame(buf)) /\ buf' = Behind(buf)
        /\ sent' = sent /\ stream' = stream /\ feeding' = feeding
    BY <1>6 DEF DecodeOne
  <2>2. Len(out) < Len(sent)
    <3>1. Len(buf) # 0
      BY <1>1, <2>1, ByteFacts DEF Complete
    <3>2. Len(out) # Len(sent)
      BY <3>1, NextFrame, EmptySeq
    <3> QED
      BY <1>1, <3>2
  <2>3. Len(out) \in 0..(Len(sent) - 1) /\ Len(out) + 1 \in 1..Len(sent)
    BY <1>1, <2>2
  <2>4. /\ f \in Packets /\ Size(f) <= Len(buf) /\ FirstFrame(buf) = f
        /\ HeaderLen + LengthAt(buf) = Size(f) /\ Size(f) \in Nat
    <3>1. f \in Packets
      BY <1>1, <2>3, ElementOfSeq
    <3> QED
      BY <2>1, <2>2, <3>1, NextFrame, PacketFacts
  <2> HIDE DEF f
  <2>5. buf' = SubSeq(buf, Size(f) + 1, Len(buf))
    BY <2>1, <2>4 DEF Behind
  <2>6. /\ buf' \in Seq(Byte)
        /\ buf' \o stream' = SubSeq(buf \o stream, Size(f) + 1, Len(buf \o stream))
    <3>1. Size(f) \in 0..Len(buf)
      BY <1>1, <2>4
    <3> QED
      BY <1>1, <2>1, <2>5, <3>1, BehindFirst, ZenonT(60)
  <2>7. /\ out' \in Seq(Packets) /\ Len(out') = Len(out) + 1 /\ out'[Len(out) + 1] = f
        /\ \A k \in 1..Len(out) : out'[k] = out[k]
    BY <1>1, <2>1, <2>4, AppendProperties
  <2>8. Framed(buf' \o stream', sent, Len(out) + 1, at)
    BY <1>1, <1>2, <1>3, <2>3, <2>6, FramedRest DEF f
  <2>9. ASSUME NEW k \in 1..Len(out')
        PROVE  out'[k] = sent'[k]
    <3>1. CASE k = Len(out) + 1
      BY <2>1, <2>7, <3>1 DEF f
    <3>2. CASE k \in 1..Len(out)
      BY <2>1, <2>7, <3>2 DEF StreamInv
    <3> QED
      BY <1>1, <2>7, <3>1, <3>2
  <2>10. StreamTypeOK'
    BY <1>1, <2>1, <2>6, <2>7 DEF StreamTypeOK
  <2>11. Len(out') <= Len(sent')
    BY <1>1, <2>1, <2>2, <2>7
  <2>12. \E new \in [1..(Len(sent') + 1) -> Nat] : Framed(buf' \o stream', sent', Len(out'), new)
    BY <1>2, <2>1, <2>7, <2>8
  <2>13. \A g \in {sent'[k] : k \in 1..Len(sent')} : Encodable(g)
    BY <2>1 DEF StreamInv
  <2> QED
    BY <2>1, <2>9, <2>10, <2>11, <2>12, <2>13 DEF StreamInv
<1>7. CASE FeedReturns
  BY <1>7 DEF FeedReturns, StreamInv, StreamTypeOK
<1>8. CASE UNCHANGED streamVars
  BY <1>8 DEF streamVars, StreamInv, StreamTypeOK
<1> QED
  BY <1>4, <1>5, <1>6, <1>7, <1>8 DEF StreamNext

\* The stream, the buffer and the frames keep their types.
THEOREM StreamTypeCorrect == StreamSpec => []StreamTypeOK
  BY InitStream, StepStream, PTL DEF StreamSpec, StreamInv

\* Frames survive any cutting of the stream, for bytes of any size and payloads of
\* any length the header can give.
THEOREM FramesAreReassembled == StreamSpec => []FramesSurvive
<1>1. StreamInv => FramesSurvive
  <2> SUFFICES ASSUME StreamInv
               PROVE  FramesSurvive
    OBVIOUS
  <2>1. Len(out) <= Len(sent) /\ \A k \in 1..Len(out) : out[k] = sent[k]
    BY DEF StreamInv
  <2>2. /\ out \in Seq(Packets) /\ sent \in Seq(Packets) /\ Len(out) \in Nat /\ Len(sent) \in Nat
        /\ buf \in Seq(Byte) /\ Len(buf) \in Nat
    BY LenProperties DEF StreamInv, StreamTypeOK
  <2>3. ~feeding => ~(Len(buf) >= HeaderLen /\ Len(buf) >= HeaderLen + buf[3] * Base + buf[4])
    <3> SUFFICES ASSUME ~feeding, Len(buf) >= HeaderLen
                 PROVE  ~(Len(buf) >= HeaderLen + buf[3] * Base + buf[4])
      OBVIOUS
    <3>1. buf[3] \in Byte /\ buf[4] \in Byte
      BY <2>2, ElementOfSeq, ByteFacts
    <3>2. buf[3] \in Nat /\ buf[4] \in Nat /\ Base \in Nat
      BY <3>1, ByteFacts
    <3>3. HeaderLen + buf[3] * Base + buf[4] = HeaderLen + LengthAt(buf)
      BY <3>2 DEF LengthAt, HeaderLen
    <3> QED
      BY <3>3 DEF StreamInv, Complete
  <2>4. ASSUME ~feeding, stream = <<>>
        PROVE  out = sent /\ buf = <<>>
    <3>1. ~Complete(buf)
      BY <2>4 DEF StreamInv
    <3>2. Len(stream) = 0
      BY <2>4, EmptySeq
    <3>3. ~(Len(out) < Len(sent))
      BY <2>2, <3>1, <3>2, NextFrame
    <3>4. Len(out) = Len(sent)
      BY <2>1, <2>2, <3>3
    <3>5. out = sent
      BY <2>1, <2>2, <3>4, SeqEqual
    <3> QED
      BY <3>4, <3>5, NextFrame
  <2> QED
    BY <2>1, <2>3, <2>4 DEF FramesSurvive
<1> QED
  BY <1>1, InitStream, StepStream, PTL DEF StreamSpec
=============================================================================
