-------------------------- MODULE MainWindowProofs --------------------------
(***************************************************************************)
(* The connection manager for every set of profiles: what it checks on     *)
(* small instances is invariant for any number of them.                    *)
(***************************************************************************)
EXTENDS MainWindow, Integers, TLAPS

-----------------------------------------------------------------------------
(***************************************************************************)
(* What Protocol's outcomes are made of: they are well-formed, for every   *)
(* kind and every state of a plugin.                                       *)
(***************************************************************************)
Outcome == [say : Seq(Announcement), phase : Phases]

LEMMA Announcements ==
  /\ \A s \in ConnectionState : Say(s) \in Announcement /\ Say(s).to = s
  /\ \A c \in ErrorClass : Fail(c) \in Announcement /\ Fail(c).to = "Failed"
  BY DEF Say, Fail, Announcement, ConnectionState, ErrorClass

LEMMA OutcomeOfOne ==
  ASSUME NEW a \in Announcement, NEW phase \in Phases
  PROVE  /\ Ends(<<a>>, phase) \in Outcome
         /\ Ends(<<a>>, phase).say # <<>> /\ Head(Ends(<<a>>, phase).say) = a
<1>1. <<a>> \in Seq(Announcement) /\ <<a>> # <<>> /\ Head(<<a>>) = a
  OBVIOUS
<1> QED
  BY <1>1 DEF Ends, Outcome

LEMMA OutcomeOfTwo ==
  ASSUME NEW a \in Announcement, NEW b \in Announcement, NEW phase \in Phases
  PROVE  /\ Ends(<<a, b>>, phase) \in Outcome
         /\ Ends(<<a, b>>, phase).say # <<>> /\ Head(Ends(<<a, b>>, phase).say) = a
<1>1. <<a, b>> \in Seq(Announcement) /\ <<a, b>> # <<>> /\ Head(<<a, b>>) = a
  OBVIOUS
<1> QED
  BY <1>1 DEF Ends, Outcome

LEMMA OutcomeOfThree ==
  ASSUME NEW a \in Announcement, NEW b \in Announcement, NEW c \in Announcement,
         NEW phase \in Phases
  PROVE  /\ Ends(<<a, b, c>>, phase) \in Outcome
         /\ Ends(<<a, b, c>>, phase).say # <<>> /\ Head(Ends(<<a, b, c>>, phase).say) = a
<1>1. <<a, b, c>> \in Seq(Announcement) /\ <<a, b, c>> # <<>> /\ Head(<<a, b, c>>) = a
  OBVIOUS
<1> QED
  BY <1>1 DEF Ends, Outcome

\* connectWith announces something, and first of all not the state it is in.
StartsAnew(o) == o.say # <<>> /\ Head(o.say).to # "Disconnected"

LEMMA ConnectOutcomesType ==
  ASSUME NEW k \in Kinds
  PROVE  \A o \in ConnectOutcomes(k) : o \in Outcome /\ StartsAnew(o)
<1> DEFINE Good(o) == o \in Outcome /\ StartsAnew(o)
           C == Say("Connecting")
           A == Say("Authenticating")
<1>1. /\ C \in Announcement /\ C.to = "Connecting"
      /\ A \in Announcement /\ A.to = "Authenticating"
      /\ \A c \in {"permanent", "transient"} : Fail(c) \in Announcement /\ Fail(c).to = "Failed"
  BY Announcements DEF ConnectionState, ErrorClass
<1>2. \A phase \in Phases : Good(Ends(<<C>>, phase))
  BY <1>1, OutcomeOfOne DEF StartsAnew
<1>3. \A phase \in Phases, c \in {"permanent", "transient"} : Good(Ends(<<Fail(c)>>, phase))
  BY <1>1, OutcomeOfOne DEF StartsAnew
<1>4. \A phase \in Phases : Good(Ends(<<C, A>>, phase))
  BY <1>1, OutcomeOfTwo DEF StartsAnew
<1>5. \A phase \in Phases : Good(Ends(<<C, Fail("transient")>>, phase))
  BY <1>1, OutcomeOfTwo DEF StartsAnew
<1>6. \A phase \in Phases :
        \A a \in {Say("Connected"), Fail("none"), Fail("transient")} : Good(Ends(<<C, A, a>>, phase))
  <2>1. \A a \in {Say("Connected"), Fail("none"), Fail("transient")} : a \in Announcement
    BY Announcements DEF ConnectionState, ErrorClass
  <2> QED
    BY <1>1, <2>1, OutcomeOfThree DEF StartsAnew
<1>7. {"idle", "assoc", "open", "shut"} = Phases
  BY DEF Phases
<1> HIDE DEF Good, C, A
<1>8. \A phase \in Phases : \A o \in Rejected(phase) : Good(o)
  BY <1>3 DEF Rejected
<1>9. Good(NoResource)
  BY <1>3, <1>7 DEF NoResource
<1>10. \A o \in Dot1xConnect : Good(o)
  BY <1>2, <1>7, <1>8 DEF Dot1xConnect, C
<1>11. \A o \in ConnectOutcomes("SslVpn") : Good(o)
  BY <1>2, <1>5, <1>7, <1>8, <1>9 DEF ConnectOutcomes, SslVpnConnect, C
<1>12. \A o \in ConnectOutcomes("Portal") \cup ConnectOutcomes("Ead") : Good(o)
  BY <1>4, <1>7, <1>8, <1>9 DEF ConnectOutcomes, DatagramConnect, C, A
<1>13. \A o \in ConnectOutcomes("Dot1x") : Good(o)
  BY <1>10 DEF ConnectOutcomes
<1>14. \A o \in ConnectOutcomes("L2tp") : Good(o)
  BY <1>6, <1>7, <1>8 DEF ConnectOutcomes, L2tpConnect, HelperFailure, C, A
<1>15. \A o \in ConnectOutcomes("Wlan") : Good(o)
  BY <1>2, <1>3, <1>7, <1>10 DEF ConnectOutcomes, WlanConnect, C
<1> QED
  BY <1>11, <1>12, <1>13, <1>14, <1>15 DEF Kinds, Good

\* The announcements of a 802.1X process that ends.
LEMMA Dot1xFinishedType ==
  ASSUME NEW s \in ConnectionState
  PROVE  Dot1xFinished(s) \subseteq Seq(Announcement)
<1>1. /\ Say("Disconnected") \in Announcement /\ Fail("transient") \in Announcement
      /\ Say(IF s = "Failed" THEN "Disconnected" ELSE "Failed") \in Announcement
  BY Announcements DEF ConnectionState, ErrorClass
<1> QED
  BY <1>1 DEF Dot1xFinished

LEMMA EventsType ==
  ASSUME NEW i \in Instance
  PROVE  Events(i) \subseteq Outcome
<1>1. {"idle", "assoc", "open", "shut"} = Phases /\ i.state \in ConnectionState
  BY DEF Phases, Instance
<1>2. \A t \in ConnectionState : Say(t) \in Announcement
  BY Announcements
<1>3. Fail("transient") \in Announcement /\ Fail("permanent") \in Announcement
  BY Announcements DEF ErrorClass
<1>4. \A t \in ConnectionState, phase \in Phases : Ends(<<Say(t)>>, phase) \in Outcome
  BY <1>2, OutcomeOfOne
<1>5. \A c \in {"permanent", "transient"}, phase \in Phases : Ends(<<Fail(c)>>, phase) \in Outcome
  BY <1>3, OutcomeOfOne
<1>6. \A phase \in Phases : Rejected(phase) \subseteq Outcome
  BY <1>5 DEF Rejected
<1>7. \A stop : Teardown(stop) \subseteq Outcome
  BY <1>1, <1>4 DEF Teardown, When, ConnectionState
<1>8. Dot1xConnect \subseteq Outcome
  BY <1>1, <1>4, <1>6 DEF Dot1xConnect, ConnectionState
<1>9. Dot1xEvents(i.state) \subseteq Outcome
  <2>1. \A f \in Dot1xFinished(i.state) : Ends(f, "shut") \in Outcome
    BY <1>1, Dot1xFinishedType DEF Ends, Outcome
  <2>2. \A t \in Dot1xLines : Ends(<<Say(t)>>, "open") \in Outcome
    BY <1>1, <1>4 DEF Dot1xLines, ConnectionState
  <2> QED
    BY <1>1, <1>5, <2>1, <2>2 DEF Dot1xEvents
<1>10. SslVpnEvents(i.state, i.stop) \subseteq Outcome
  BY <1>1, <1>4, <1>6 DEF SslVpnEvents, When, ConnectionState
<1>11. Events(i) \in
         {SslVpnEvents(i.state, i.stop),
          Teardown(i.stop) \cup
            {Ends(<<a>>, "open") : a \in {Say("Connected"), Fail("transient"), Say("Disconnected")}},
          Teardown(i.stop) \cup {Ends(<<Say("Connected")>>, "open"), Ends(<<Fail("transient")>>, "shut")},
          Teardown(i.stop), Dot1xEvents(i.state),
          {Ends(<<Say("Failed")>>, "idle")} \cup Dot1xConnect, {}}
  BY DEF Events, PortalEvents, EadEvents, WlanAssociated
<1>12. \A a \in {Say("Connected"), Fail("transient"), Say("Disconnected")} :
         Ends(<<a>>, "open") \in Outcome
  BY <1>1, <1>4, <1>5 DEF ConnectionState
<1>13. Ends(<<Fail("transient")>>, "shut") \in Outcome /\ Ends(<<Say("Failed")>>, "idle") \in Outcome
  BY <1>1, <1>4, <1>5 DEF ConnectionState
<1> QED
  BY <1>7, <1>8, <1>9, <1>10, <1>11, <1>12, <1>13

LEMMA L2tpDownType == L2tpDown \subseteq Outcome
<1>1. \A c \in {"none", "transient"} :
        [err |-> c, to |-> "Disconnected"] \in Announcement /\ Say("Disconnecting") \in Announcement
  BY Announcements DEF Announcement, ConnectionState, ErrorClass
<1>2. "idle" \in Phases
  BY DEF Phases
<1>3. \A c \in {"none", "transient"} :
        Ends(<<Say("Disconnecting"), [err |-> c, to |-> "Disconnected"]>>, "idle") \in Outcome
  BY <1>1, <1>2, OutcomeOfTwo
<1> QED
  BY <1>3 DEF L2tpDown, HelperFailure

LEMMA DisconnectOutcomesType ==
  ASSUME NEW i \in Instance
  PROVE  DisconnectOutcomes(i) \subseteq Outcome
<1> DEFINE D == Say("Disconnecting")
<1>1. D \in Announcement /\ Say("Disconnected") \in Announcement
  BY Announcements DEF ConnectionState
<1>2. {"idle", "assoc", "open", "shut"} = Phases /\ i.phase \in Phases
  BY DEF Phases, Instance
<1>3. \A phase \in Phases : Ends(<<>>, phase) \in Outcome
  BY DEF Ends, Outcome
<1>4. \A phase \in Phases : Ends(<<D>>, phase) \in Outcome
  BY <1>1, OutcomeOfOne
<1>5. \A phase \in Phases : Ends(<<D, Say("Disconnected")>>, phase) \in Outcome
  BY <1>1, OutcomeOfTwo
<1>6. \A f \in Dot1xFinished("Disconnecting") : Ends(<<D>> \o f, "shut") \in Outcome
  <2>1. "Disconnecting" \in ConnectionState
    BY DEF ConnectionState
  <2>2. \A f \in Dot1xFinished("Disconnecting") : f \in Seq(Announcement)
    BY <2>1, Dot1xFinishedType
  <2>3. <<D>> \in Seq(Announcement)
    BY <1>1
  <2>4. \A f \in Dot1xFinished("Disconnecting") : <<D>> \o f \in Seq(Announcement)
    BY <2>2, <2>3
  <2> QED
    BY <1>2, <2>4 DEF Ends, Outcome
<1>7. \A t \in Dot1xLines : Ends(<<D, Say(t)>>, "open") \in Outcome
  BY <1>1, <1>2, OutcomeOfTwo, Announcements DEF Dot1xLines, ConnectionState
<1>8. \A t \in Dot1xLines : \A f \in Dot1xFinished(t) : Ends(<<D, Say(t)>> \o f, "shut") \in Outcome
  <2>1. SUFFICES ASSUME NEW t \in Dot1xLines, NEW f \in Dot1xFinished(t)
                 PROVE  Ends(<<D, Say(t)>> \o f, "shut") \in Outcome
    OBVIOUS
  <2>2. t \in ConnectionState
    BY DEF Dot1xLines, ConnectionState
  <2>3. f \in Seq(Announcement) /\ Say(t) \in Announcement
    BY <2>2, Dot1xFinishedType, Announcements
  <2>4. <<D, Say(t)>> \in Seq(Announcement)
    BY <1>1, <2>3
  <2>5. <<D, Say(t)>> \o f \in Seq(Announcement)
    BY <2>3, <2>4
  <2> QED
    BY <1>2, <2>5 DEF Ends, Outcome
<1> DEFINE E == UNION {{Ends(<<D, Say(t)>> \o f, "shut") : f \in Dot1xFinished(t)} : t \in Dot1xLines}
<1>9. E \subseteq Outcome
  <2>1. \A t \in Dot1xLines : {Ends(<<D, Say(t)>> \o f, "shut") : f \in Dot1xFinished(t)} \subseteq Outcome
    BY <1>8, Zenon
  <2> QED
    BY <2>1, Zenon
<1>10. Dot1xDisconnect =
         {Ends(<<D>>, "open")} \cup {Ends(<<D, Say(t)>>, "open") : t \in Dot1xLines}
         \cup {Ends(<<D>> \o f, "shut") : f \in Dot1xFinished("Disconnecting")} \cup E
  BY Zenon DEF Dot1xDisconnect
<1>11. Dot1xDisconnect \subseteq Outcome
  <2> HIDE DEF D, E
  <2> QED
    BY <1>2, <1>4, <1>6, <1>7, <1>9, <1>10
<1>12. DisconnectOutcomes(i) \in
        {{Ends(<<>>, i.phase)}, L2tpDown, {Ends(<<D, Say("Disconnected")>>, "shut")},
         {Ends(<<D, Say("Disconnected")>>, "shut")} \cup {Ends(<<D>>, "open")},
         {Ends(<<D, Say("Disconnected")>>, "shut")} \cup {},
         Dot1xDisconnect, {Ends(<<D>>, i.phase)}}
  BY DEF DisconnectOutcomes, SslVpnDisconnect, When
<1> HIDE DEF D
<1> QED
  BY <1>2, <1>3, <1>4, <1>5, <1>11, <1>12, L2tpDownType

LEMMA DestroyAnnouncementsType ==
  ASSUME NEW i \in Instance
  PROVE  DestroyAnnouncements(i) \subseteq Seq(Announcement)
<1>1. Dot1xDestroyed(i) \subseteq Seq(Announcement)
  <2>1. Dot1xFinished(i.state) \subseteq Seq(Announcement)
    BY Dot1xFinishedType DEF Instance
  <2>2. ASSUME NEW t \in Dot1xLines
        PROVE  {<<Say(t)>>} \cup {<<Say(t)>> \o f : f \in Dot1xFinished(t)} \subseteq Seq(Announcement)
    <3>1. t \in ConnectionState
      BY DEF Dot1xLines, ConnectionState
    <3>2. <<Say(t)>> \in Seq(Announcement)
      BY <3>1, Announcements
    <3>3. \A f \in Dot1xFinished(t) : f \in Seq(Announcement)
      BY <3>1, Dot1xFinishedType
    <3>4. \A f \in Dot1xFinished(t) : <<Say(t)>> \o f \in Seq(Announcement)
      BY <3>2, <3>3
    <3> QED
      BY <3>2, <3>4, Zenon
  <2>3. <<>> \in Seq(Announcement)
    OBVIOUS
  <2>4. UNION {{<<Say(t)>>} \cup {<<Say(t)>> \o f : f \in Dot1xFinished(t)} : t \in Dot1xLines}
          \subseteq Seq(Announcement)
    BY <2>2, Zenon
  <2> QED
    BY <2>1, <2>3, <2>4, Zenon DEF Dot1xDestroyed
<1>2. \A o \in L2tpDown : o.say \in Seq(Announcement)
  BY L2tpDownType DEF Outcome
<1>3. <<>> \in Seq(Announcement)
  OBVIOUS
<1>4. DestroyAnnouncements(i) \in {Dot1xDestroyed(i), {o.say : o \in L2tpDown}, {<<>>}}
  BY DEF DestroyAnnouncements
<1>5. {o.say : o \in L2tpDown} \subseteq Seq(Announcement)
  BY <1>2
<1>6. {<<>>} \subseteq Seq(Announcement)
  BY <1>3
<1> QED
  BY <1>1, <1>4, <1>5, <1>6, Zenon

\* The null pointer has no events, answers no disconnect() and dies silently.
LEMMA NoPluginOutcomes ==
  /\ Events(NoPlugin) = {}
  /\ DisconnectOutcomes(NoPlugin) = {Ends(<<>>, "idle")}
  /\ DestroyAnnouncements(NoPlugin) = {<<>>}
  /\ Ends(<<>>, "idle").say = <<>> /\ Ends(<<>>, "idle").phase = "idle"
  BY DEF NoPlugin, Plugin, Events, DisconnectOutcomes, DestroyAnnouncements, Ends

-----------------------------------------------------------------------------
(***************************************************************************)
(* What the scheduler's functions return, for every profile.               *)
(***************************************************************************)
\* AutoReconnect.cpp:42-44: every delay is between a second and a minute.
LEMMA DelayRange ==
  ASSUME NEW b \in 1..600, NEW n \in Nat
  PROVE  Delay(b, n) \in 1..60
<1>1. Doubling(n) \in {1, 2, 4, 8, 16}
  BY DEF Doubling
<1>2. b * Doubling(n) \in Nat \ {0}
  BY <1>1, SMT
<1> QED
  BY <1>2 DEF Delay

\* A later attempt never waits less than an earlier one.
THEOREM BackoffGrows ==
  ASSUME NEW b \in 1..600, NEW n \in Nat
  PROVE  Delay(b, n) <= Delay(b, n + 1)
<1>1. b * Doubling(n) <= b * Doubling(n + 1)
  <2>1. /\ Doubling(n) \in {1, 2, 4, 8, 16}
        /\ Doubling(n + 1) = Doubling(n) \/ Doubling(n + 1) = 2 * Doubling(n)
    BY DEF Doubling
  <2> QED
    BY <2>1, SMT
<1>2. b * Doubling(n) \in Nat /\ b * Doubling(n + 1) \in Nat
  BY DEF Doubling
<1> QED
  BY <1>1, <1>2 DEF Delay

(***************************************************************************)
(* The operators of AutoReconnect stay within Scheduler.                   *)
(***************************************************************************)
LEMMA SchedulerOperations ==
  ASSUME NEW s \in Scheduler
  PROVE  /\ \A p \in Profiles : ArmFor(s, p) \in Scheduler
         /\ Cancel(s) \in Scheduler
         /\ NoteSuccess(s) \in Scheduler
         /\ Fired(s) \in Scheduler
<1>1. ASSUME NEW p \in Profiles PROVE ArmFor(s, p) \in Scheduler
  <2>1. p.auto \in BOOLEAN
    BY ProfilesAssumption
  <2>2. (IF SameProfile(s, p) THEN s.attempt ELSE 0) \in 0..100
    BY DEF Scheduler
  <2> QED
    BY <2>1, <2>2 DEF Scheduler, ArmFor
<1>2. Cancel(s) \in Scheduler
  BY DEF Scheduler, Cancel
<1>3. NoteSuccess(s) \in Scheduler
  BY DEF Scheduler, NoteSuccess
<1>4. Fired(s) \in Scheduler
  BY DEF Scheduler, Fired
<1> QED
  BY <1>1, <1>2, <1>3, <1>4

\* An armed scheduler has a profile, so noteFailure reads real settings.
LEMMA NoteFailureType ==
  ASSUME NEW s \in Scheduler, s.armed => s.profile \in Profiles
  PROVE  NoteFailure(s) \in Scheduler
<1>1. CASE ~s.armed
  BY <1>1 DEF NoteFailure
<1>2. CASE s.armed /\ s.attempt >= s.profile.tries
  BY <1>2 DEF NoteFailure, Scheduler
<1>3. CASE s.armed /\ ~(s.attempt >= s.profile.tries)
  <2>1. s.profile \in Profiles /\ s.profile.tries \in 0..100 /\ s.profile.backoff \in 1..600
    BY <1>3, ProfilesAssumption
  <2>2. s.attempt \in 0..100 /\ s.attempt + 1 \in 0..100
    BY <1>3, <2>1 DEF Scheduler
  <2>3. Delay(s.profile.backoff, s.attempt + 1) \in 0..60
    <3>1. s.attempt + 1 \in Nat
      BY <2>2
    <3>2. Delay(s.profile.backoff, s.attempt + 1) \in 1..60
      BY <2>1, <3>1, DelayRange
    <3> QED
      BY <3>2
  <2> QED
    BY <1>3, <2>2, <2>3 DEF NoteFailure, Scheduler
<1> QED
  BY <1>1, <1>2, <1>3

\* What noteFailure does to an armed scheduler within its budget, and beyond.
LEMMA NoteFailureEffect ==
  ASSUME NEW s \in Scheduler
  PROVE  /\ ~s.armed => NoteFailure(s) = s
         /\ s.armed /\ s.attempt >= s.profile.tries =>
              /\ ~NoteFailure(s).armed /\ NoteFailure(s).delay = s.delay
              /\ NoteFailure(s).profile = s.profile /\ NoteFailure(s).attempt = s.attempt
         /\ s.armed /\ ~(s.attempt >= s.profile.tries) =>
              /\ NoteFailure(s).armed /\ NoteFailure(s).profile = s.profile
              /\ NoteFailure(s).attempt = s.attempt + 1
              /\ NoteFailure(s).delay = Delay(s.profile.backoff, s.attempt + 1)
  BY DEF NoteFailure, Scheduler

-----------------------------------------------------------------------------
(***************************************************************************)
(* The inductive invariant, in the parts the proofs name.                  *)
(***************************************************************************)

Entries == 1..Len(todo)

\* A plugin object that is not one is the null pointer.
NullIsNoPlugin == active.kind = "none" => active = NoPlugin

\* Only one plugin speaks at a time: the live one, while no connect is in
\* progress, or a dying one, while its successor (if any) has not started.
OneSpeaker ==
  \/ /\ active # NoPlugin
     /\ calling = NoProfile
     /\ \A n \in Entries : todo[n].from = "active"
  \/ /\ active = NoPlugin \/ calling # NoProfile
     /\ active.state = "Disconnected"
     /\ \A n \in Entries : todo[n].from = "dying"

\* The scheduler watches the profile of the last connect.
SchedulerFollows ==
  /\ ar.profile = activeProfile
  /\ ar.armed \/ Pending(ar) => ar.profile \in Profiles

\* A pending retry is followed by the reset of the plugin that failed.
RetryAfterReset ==
  Pending(ar) => posted # <<>> \/ active = NoPlugin \/ calling # NoProfile

\* A user's stop also means that no connect is in progress.
StopIsFinal == stopped => ~ar.armed /\ ~Pending(ar) /\ calling = NoProfile

\* Every automatic attempt used up one count of the scheduler; one more was
\* granted by a Connected that left the timer running.
AttemptsAreCounted ==
  \/ ~ar.armed /\ ~Pending(ar)
  \/ autos + (IF Pending(ar) THEN 1 ELSE 0) <= ar.attempt + 1

PendingWithinBudget == Pending(ar) => ar.attempt <= ar.profile.tries

\* A connect in progress is the user's, or a retry of the same profile which
\* found no plugin to destroy.
CallIsCounted ==
  calling # NoProfile /\ autos > 0 =>
    /\ todo = <<>> /\ ~hopeless
    /\ calling = activeProfile
    /\ autos <= ar.attempt + 1

\* The window is up to date, or is about to be: a connect has still to announce
\* its first state, or the next announcement is of a new state.
WindowFollows ==
  active # NoPlugin =>
    \/ panel = active.state /\ button = Label(active.state)
    \/ calling # NoProfile
    \/ todo # <<>> /\ Head(todo).from = "active" /\ Head(todo).to # active.state

\* A connect in progress has installed its plugin and not started it.
CallIsFresh ==
  calling # NoProfile => /\ active # NoPlugin
                         /\ active.state = "Disconnected"
                         /\ \A n \in Entries : todo[n].from = "dying"

\* The parts, in the order in which the proofs go through them.
Speaking == NullIsNoPlugin /\ OneSpeaker /\ CallIsFresh
Scheduling == SchedulerFollows /\ RetryAfterReset /\ StopIsFinal /\ PermanentFailureIsFinal
Counting == AttemptsAreCounted /\ PendingWithinBudget /\ CallIsCounted /\ RetriesAreBounded

IInv ==
  /\ TypeOK
  /\ Speaking
  /\ Scheduling
  /\ Counting
  /\ SessionHasFullBudget
  /\ WindowFollows

-----------------------------------------------------------------------------
(***************************************************************************)
(* What the pieces of the actions do.                                      *)
(***************************************************************************)

\* The announcements of a handler, tagged with who makes them.
LEMMA FromType ==
  ASSUME NEW sender \in Senders, NEW say \in Seq(Announcement)
  PROVE  /\ From(sender, say) \in Seq(Sent)
         /\ \A n \in 1..Len(From(sender, say)) : From(sender, say)[n].from = sender
         /\ say = <<>> => From(sender, say) = <<>>
         /\ say # <<>> => /\ From(sender, say) # <<>>
                         /\ Head(From(sender, say)).from = sender
                         /\ Head(From(sender, say)).to = Head(say).to
<1>1. /\ Len(say) \in Nat
      /\ \A n \in 1..Len(say) : say[n] \in Announcement
      /\ \A n \in 1..Len(say) : say[n].err \in ErrorClass /\ say[n].to \in ConnectionState
  <2>1. Len(say) \in Nat /\ \A n \in 1..Len(say) : say[n] \in Announcement
    OBVIOUS
  <2>2. \A a \in Announcement : a.err \in ErrorClass /\ a.to \in ConnectionState
    BY DEF Announcement
  <2> QED
    BY <2>1, <2>2
<1>2. \A n \in 1..Len(say) : [from |-> sender, err |-> say[n].err, to |-> say[n].to] \in Sent
  BY <1>1 DEF Sent
<1>3. From(sender, say) \in [1..Len(say) -> Sent]
  BY <1>2 DEF From
<1>4. From(sender, say) \in Seq(Sent) /\ Len(From(sender, say)) = Len(say)
  BY <1>1, <1>3
<1>5. \A n \in 1..Len(say) : From(sender, say)[n].from = sender /\ From(sender, say)[n].to = say[n].to
  BY DEF From
<1>6. say = <<>> => From(sender, say) = <<>>
  BY <1>4
<1>7. ASSUME say # <<>>
      PROVE  /\ From(sender, say) # <<>>
             /\ Head(From(sender, say)).from = sender
             /\ Head(From(sender, say)).to = Head(say).to
  <2>1. 1 \in 1..Len(say) /\ Head(say) = say[1]
    BY <1>1, <1>7
  <2>2. From(sender, say) # <<>> /\ Head(From(sender, say)) = From(sender, say)[1]
    BY <1>4, <2>1
  <2> QED
    BY <1>5, <2>1, <2>2
<1> QED
  BY <1>4, <1>5, <1>6, <1>7

LEMMA AllStaleType ==
  ASSUME NEW q \in Seq(Posters)
  PROVE  AllStale(q) \in Seq(Posters) /\ (AllStale(q) = <<>> <=> q = <<>>)
<1>1. AllStale(q) \in [1..Len(q) -> Posters] /\ Len(q) \in Nat
  BY DEF AllStale, Posters
<1>2. AllStale(q) \in Seq(Posters) /\ Len(AllStale(q)) = Len(q)
  BY <1>1
<1> QED
  BY <1>2

LEMMA PluginType ==
  /\ NoPlugin \in Instance /\ NoPlugin.kind = "none" /\ NoPlugin.state = "Disconnected"
  /\ \A k \in Kinds : /\ Plugin(k) \in Instance /\ Plugin(k) # NoPlugin
                     /\ Plugin(k).kind = k /\ k # "none"
                     /\ Plugin(k).state = "Disconnected"
  BY DEF NoPlugin, Plugin, Instance, Kinds, ConnectionState, Phases

\* connectByProfile up to the end of the old plugin's destructor.
LEMMA BeginConnectEffect ==
  ASSUME TypeOK, NEW p \in Profiles, BeginConnect(p)
  PROVE  /\ active' \in Instance /\ active' # NoPlugin /\ active'.kind # "none"
         /\ active'.state = "Disconnected"
         /\ dying' \in Instance
         /\ calling' = p
         /\ todo' \in Seq(Sent) /\ \A n \in 1..Len(todo') : todo'[n].from = "dying"
         /\ active = NoPlugin => todo' = <<>>
         /\ posted' \in Seq(Posters) /\ (posted' = <<>> <=> posted = <<>>)
         /\ UNCHANGED <<activeProfile, lastError, panel, button>>
<1>1. active \in Instance /\ posted \in Seq(Posters)
  BY DEF TypeOK
<1>2. p.kind \in Kinds
  BY KindsAssumption
<1>3. PICK say \in DestroyAnnouncements(active) : todo' = From("dying", say)
  BY DEF BeginConnect
<1>4. say \in Seq(Announcement) /\ "dying" \in Senders
  BY <1>1, DestroyAnnouncementsType DEF Senders
<1>5. todo' \in Seq(Sent) /\ \A n \in 1..Len(todo') : todo'[n].from = "dying"
  BY <1>3, <1>4, FromType
<1>6. active = NoPlugin => todo' = <<>>
  BY <1>3, <1>4, FromType, NoPluginOutcomes
<1> QED
  BY <1>1, <1>2, <1>5, <1>6, PluginType, AllStaleType DEF BeginConnect, shown

\* The scheduler's operations, field by field.
LEMMA SchedulerEffect ==
  ASSUME NEW s \in Scheduler
  PROVE  /\ \A p \in Profiles :
              /\ ArmFor(s, p).profile = p
              /\ ~Pending(ArmFor(s, p))
              /\ ArmFor(s, p).attempt \in {0, s.attempt}
              /\ p = s.profile => ArmFor(s, p).attempt = s.attempt
         /\ Cancel(s).profile = s.profile /\ Cancel(s).attempt = 0
         /\ ~Cancel(s).armed /\ ~Pending(Cancel(s))
         /\ NoteSuccess(s).profile = s.profile /\ NoteSuccess(s).attempt = 0
         /\ NoteSuccess(s).armed = s.armed /\ NoteSuccess(s).delay = s.delay
         /\ Fired(s).profile = s.profile /\ Fired(s).attempt = s.attempt
         /\ Fired(s).armed = s.armed /\ ~Pending(Fired(s))
<1>1. ASSUME NEW p \in Profiles
      PROVE  /\ ArmFor(s, p).profile = p
             /\ ~Pending(ArmFor(s, p))
             /\ ArmFor(s, p).attempt \in {0, s.attempt}
             /\ p = s.profile => ArmFor(s, p).attempt = s.attempt
  <2>1. p # NoProfile
    BY ProfilesAssumption
  <2> QED
    BY <2>1 DEF ArmFor, SameProfile, Pending
<1>2. /\ Cancel(s).profile = s.profile /\ Cancel(s).attempt = 0
      /\ ~Cancel(s).armed /\ ~Pending(Cancel(s))
  BY DEF Cancel, Pending
<1>3. /\ NoteSuccess(s).profile = s.profile /\ NoteSuccess(s).attempt = 0
      /\ NoteSuccess(s).armed = s.armed /\ NoteSuccess(s).delay = s.delay
  BY DEF NoteSuccess, Scheduler
<1>4. /\ Fired(s).profile = s.profile /\ Fired(s).attempt = s.attempt
      /\ Fired(s).armed = s.armed /\ ~Pending(Fired(s))
  BY DEF Fired, Pending, Scheduler
<1> QED
  BY <1>1, <1>2, <1>3, <1>4

-----------------------------------------------------------------------------

LEMMA InitIInv == Init => IInv
<1> SUFFICES ASSUME Init PROVE IInv
  OBVIOUS
<1>1. /\ active = NoPlugin /\ todo = <<>> /\ calling = NoProfile /\ activeProfile = NoProfile
      /\ posted = <<>> /\ autos = 0
  BY DEF Init
<1>2. /\ ar \in Scheduler /\ ar.profile = NoProfile /\ ar.attempt = 0
      /\ ~ar.armed /\ ~Pending(ar)
  BY DEF Init, InitScheduler, Scheduler, Pending
<1>3. TypeOK
  <2>1. <<>> \in Seq(Sent) /\ <<>> \in Seq(Posters)
    OBVIOUS
  <2>2. lastError \in ErrorClass /\ panel \in ConnectionState /\ button \in {"Connect", "Disconnect"}
    BY DEF Init, ErrorClass, ConnectionState
  <2>3. stopped \in BOOLEAN /\ hopeless \in BOOLEAN /\ worked \in BOOLEAN
    BY DEF Init
  <2>4. active \in Instance /\ dying \in Instance
    BY PluginType DEF Init
  <2> QED
    BY <1>1, <1>2, <2>1, <2>2, <2>3, <2>4 DEF TypeOK
<1>4. Speaking
  BY <1>1, PluginType DEF Speaking, NullIsNoPlugin, OneSpeaker, CallIsFresh, Entries
<1>5. Scheduling
  BY <1>1, <1>2 DEF Scheduling, SchedulerFollows, RetryAfterReset, StopIsFinal, PermanentFailureIsFinal
<1>6. Counting
  BY <1>1, <1>2 DEF Counting, AttemptsAreCounted, PendingWithinBudget, CallIsCounted, RetriesAreBounded
<1>7. SessionHasFullBudget /\ WindowFollows
  BY <1>1, <1>2 DEF SessionHasFullBudget, WindowFollows
<1> QED
  BY <1>3, <1>4, <1>5, <1>6, <1>7 DEF IInv

\* The user connects: a fresh plugin, a fresh count of attempts.
LEMMA UserConnectStep ==
  ASSUME IInv, NEW p \in Profiles, UserConnect(p)
  PROVE  IInv'
<1>0. TypeOK /\ Speaking /\ Scheduling /\ Counting
  BY DEF IInv
<1>1. /\ active' \in Instance /\ active' # NoPlugin /\ active'.kind # "none"
      /\ active'.state = "Disconnected" /\ dying' \in Instance
      /\ calling' = p
      /\ todo' \in Seq(Sent) /\ \A n \in 1..Len(todo') : todo'[n].from = "dying"
      /\ posted' \in Seq(Posters) /\ (posted' = <<>> <=> posted = <<>>)
      /\ UNCHANGED <<activeProfile, lastError, panel, button>>
  BY <1>0, BeginConnectEffect DEF UserConnect
<1>2. autos' = 0 /\ stopped' = FALSE /\ worked' = FALSE /\ ar' = ar /\ hopeless' = hopeless
  BY DEF UserConnect
<1>3. p # NoProfile
  BY ProfilesAssumption
<1>4. TypeOK'
  BY <1>0, <1>1, <1>2 DEF TypeOK
<1>5. Speaking'
  BY <1>1, <1>3 DEF Speaking, NullIsNoPlugin, OneSpeaker, CallIsFresh, Entries
<1>6. Scheduling'
  BY <1>0, <1>1, <1>2, <1>3
  DEF Scheduling, SchedulerFollows, RetryAfterReset, StopIsFinal, PermanentFailureIsFinal, Pending
<1>7. Counting'
  <2>1. ar.attempt \in 0..100
    BY <1>0 DEF TypeOK, Scheduler
  <2>2. activeProfile # NoProfile => activeProfile.tries \in 0..100
    BY <1>0, ProfilesAssumption DEF TypeOK
  <2>3. AttemptsAreCounted'
    BY <1>2, <2>1 DEF AttemptsAreCounted
  <2>4. PendingWithinBudget'
    BY <1>0, <1>2 DEF Counting, PendingWithinBudget, Pending
  <2>5. CallIsCounted'
    BY <1>2 DEF CallIsCounted
  <2>6. RetriesAreBounded'
    <3>1. activeProfile' = activeProfile
      BY <1>1
    <3> QED
      BY <1>2, <2>2, <3>1 DEF RetriesAreBounded
  <2> QED
    BY <2>3, <2>4, <2>5, <2>6 DEF Counting
<1>8. SessionHasFullBudget' /\ WindowFollows'
  BY <1>1, <1>3 DEF SessionHasFullBudget, Connected, WindowFollows
<1> QED
  BY <1>4, <1>5, <1>6, <1>7, <1>8 DEF IInv

\* The timer fires: every plugin is gone, so the retry has the floor to itself.
LEMMA RetryStep ==
  ASSUME IInv, Retry
  PROVE  IInv'
<1>0. TypeOK /\ Speaking /\ Scheduling /\ Counting
  BY DEF IInv
<1>1. /\ Pending(ar) /\ posted = <<>> /\ calling = NoProfile
      /\ ar \in Scheduler /\ ar.attempt \in 0..100
  BY <1>0 DEF Retry, Idle, Returned, TypeOK, Scheduler
<1>2. active = NoPlugin /\ activeProfile \in Profiles /\ ar.profile = activeProfile
  BY <1>0, <1>1 DEF Scheduling, RetryAfterReset, SchedulerFollows
<1>3. ~Connected /\ activeProfile # NoProfile
  BY <1>2, PluginType, ProfilesAssumption DEF Connected
<1>4. BeginConnect(activeProfile) /\ autos' = autos + 1 /\ ar' = Fired(ar)
  BY <1>3 DEF Retry
<1>5. stopped' = stopped /\ hopeless' = hopeless /\ worked' = worked
  BY DEF Retry
<1>6. /\ active' \in Instance /\ active' # NoPlugin /\ active'.kind # "none"
      /\ active'.state = "Disconnected" /\ dying' \in Instance
      /\ calling' = activeProfile
      /\ todo' \in Seq(Sent) /\ todo' = <<>>
      /\ posted' \in Seq(Posters)
      /\ UNCHANGED <<activeProfile, lastError, panel, button>>
  BY <1>0, <1>2, <1>4, BeginConnectEffect
<1>7. /\ ar' \in Scheduler /\ ar'.profile = ar.profile /\ ar'.attempt = ar.attempt
      /\ ar'.armed = ar.armed /\ ~Pending(ar)'
  BY <1>1, <1>4, SchedulerEffect, SchedulerOperations DEF Pending
<1>8. /\ ~stopped /\ ~hopeless
  BY <1>0, <1>1 DEF Scheduling, StopIsFinal, PermanentFailureIsFinal
<1>9. TypeOK'
  BY <1>0, <1>2, <1>4, <1>5, <1>6, <1>7 DEF TypeOK
<1>10. Speaking'
  BY <1>3, <1>6 DEF Speaking, NullIsNoPlugin, OneSpeaker, CallIsFresh, Entries
<1>11. Scheduling'
  <2>1. activeProfile' = activeProfile
    BY <1>6
  <2> QED
    BY <1>2, <1>5, <1>7, <1>8, <2>1
    DEF Scheduling, SchedulerFollows, RetryAfterReset, StopIsFinal, PermanentFailureIsFinal
<1>12. autos + 1 <= ar.attempt + 1 /\ ar.attempt <= activeProfile.tries /\ autos \in Nat
  BY <1>0, <1>1, <1>2 DEF Counting, AttemptsAreCounted, PendingWithinBudget, TypeOK
<1>13. Counting'
  <2>1. activeProfile' = activeProfile
    BY <1>6
  <2>2. AttemptsAreCounted'
    BY <1>1, <1>4, <1>7, <1>12 DEF AttemptsAreCounted
  <2>3. PendingWithinBudget'
    BY <1>7 DEF PendingWithinBudget
  <2>4. CallIsCounted'
    BY <1>1, <1>4, <1>5, <1>6, <1>7, <1>8, <1>12, <2>1 DEF CallIsCounted
  <2>5. RetriesAreBounded'
    <3>1. autos' = autos + 1 /\ autos \in Nat /\ ar.attempt \in 0..100
      BY <1>1, <1>4, <1>12
    <3>2. activeProfile.tries \in 0..100
      BY <1>2, ProfilesAssumption
    <3>3. autos' <= activeProfile.tries + 1
      BY <1>12, <3>1, <3>2
    <3> QED
      BY <2>1, <3>3 DEF RetriesAreBounded
  <2> QED
    BY <2>2, <2>3, <2>4, <2>5 DEF Counting
<1>14. SessionHasFullBudget' /\ WindowFollows'
  BY <1>3, <1>6 DEF SessionHasFullBudget, Connected, WindowFollows
<1> QED
  BY <1>9, <1>10, <1>11, <1>13, <1>14 DEF IInv

\* The destructor done, the scheduler is armed and the new plugin started.
LEMMA ContinueConnectStep ==
  ASSUME IInv, ContinueConnect
  PROVE  IInv'
<1>0. TypeOK /\ Speaking /\ Scheduling /\ Counting
  BY DEF IInv
<1>1. /\ calling \in Profiles /\ todo = <<>> /\ ar \in Scheduler /\ autos \in Nat
      /\ ar.attempt \in 0..100 /\ active \in Instance
  BY <1>0 DEF ContinueConnect, TypeOK, Scheduler
<1>2. active # NoPlugin /\ active.state = "Disconnected" /\ active.kind # "none"
  BY <1>0, <1>1, ProfilesAssumption DEF Speaking, CallIsFresh, NullIsNoPlugin
<1>3. PICK o \in ConnectOutcomes(calling.kind) :
        todo' = From("active", o.say) /\ active' = [active EXCEPT !.phase = o.phase]
  BY DEF ContinueConnect
<1>4. o \in Outcome /\ StartsAnew(o)
  BY <1>1, KindsAssumption, ConnectOutcomesType
<1>5. o.say \in Seq(Announcement) /\ o.phase \in Phases /\ o.say # <<>> /\ Head(o.say).to # "Disconnected"
  BY <1>4 DEF Outcome, StartsAnew
<1>6. /\ todo' \in Seq(Sent) /\ todo' # <<>>
      /\ \A n \in 1..Len(todo') : todo'[n].from = "active"
      /\ Head(todo').from = "active" /\ Head(todo').to # "Disconnected"
  BY <1>3, <1>5, FromType DEF Senders
<1>7. /\ active' \in Instance /\ active'.kind = active.kind /\ active'.state = active.state
      /\ active' # NoPlugin
  BY <1>1, <1>2, <1>3, <1>5, PluginType DEF Instance
<1>8. /\ activeProfile' = calling /\ lastError' = "none" /\ ar' = ArmFor(ar, calling)
      /\ calling' = NoProfile /\ hopeless' = (hopeless /\ autos > 0)
      /\ dying' = dying /\ posted' = posted /\ panel' = panel /\ button' = button
      /\ autos' = autos /\ stopped' = stopped /\ worked' = worked
  BY DEF ContinueConnect, shown
<1>9. /\ ar' \in Scheduler /\ ar'.profile = calling /\ ~Pending(ar)'
      /\ ar'.attempt \in {0, ar.attempt}
      /\ calling = ar.profile => ar'.attempt = ar.attempt
  <2>1. /\ ArmFor(ar, calling).profile = calling /\ ~Pending(ArmFor(ar, calling))
        /\ ArmFor(ar, calling).attempt \in {0, ar.attempt}
        /\ calling = ar.profile => ArmFor(ar, calling).attempt = ar.attempt
    BY <1>1, SchedulerEffect
  <2>2. ArmFor(ar, calling) \in Scheduler
    BY <1>1, SchedulerOperations
  <2>3. ar' = ArmFor(ar, calling)
    BY <1>8
  <2> QED
    BY <2>1, <2>2, <2>3 DEF Pending
<1>10. calling # NoProfile /\ ~stopped
  BY <1>0, <1>1, ProfilesAssumption DEF Scheduling, StopIsFinal
<1>11. autos > 0 => ~hopeless /\ calling = activeProfile /\ autos <= ar.attempt + 1
  BY <1>0, <1>10 DEF Counting, CallIsCounted
<1>12. hopeless' = FALSE
  BY <1>8, <1>11
<1>13. TypeOK'
  <2>1. "none" \in ErrorClass
    BY DEF ErrorClass
  <2> QED
    BY <1>0, <1>1, <1>6, <1>7, <1>8, <1>9, <1>12, <2>1 DEF TypeOK
<1>14. Speaking'
  BY <1>2, <1>6, <1>7, <1>8 DEF Speaking, NullIsNoPlugin, OneSpeaker, CallIsFresh, Entries
<1>15. Scheduling'
  BY <1>1, <1>8, <1>9, <1>10, <1>12
  DEF Scheduling, SchedulerFollows, RetryAfterReset, StopIsFinal, PermanentFailureIsFinal
<1>16. autos' <= ar'.attempt + 1
  <2>1. ar'.attempt \in 0..100 /\ autos' = autos
    BY <1>1, <1>8, <1>9
  <2>2. CASE autos = 0
    BY <2>1, <2>2
  <2>3. CASE autos > 0
    <3>1. ar'.attempt = ar.attempt
      BY <1>0, <1>9, <1>11, <2>3 DEF Scheduling, SchedulerFollows
    <3> QED
      BY <1>11, <2>1, <2>3, <3>1
  <2> QED
    BY <1>1, <2>2, <2>3
<1>17. Counting'
  <2>1. AttemptsAreCounted'
    BY <1>1, <1>8, <1>9, <1>16 DEF AttemptsAreCounted
  <2>2. PendingWithinBudget' /\ CallIsCounted'
    BY <1>8, <1>9 DEF PendingWithinBudget, CallIsCounted
  <2>3. RetriesAreBounded'
    <3>1. calling.tries \in 0..100
      BY <1>1, ProfilesAssumption
    <3>2. CASE autos = 0
      BY <1>8, <3>1, <3>2 DEF RetriesAreBounded
    <3>3. CASE autos > 0
      BY <1>0, <1>8, <1>10, <1>11, <3>1, <3>3 DEF Counting, RetriesAreBounded
    <3> QED
      BY <1>1, <3>2, <3>3
  <2> QED
    BY <2>1, <2>2, <2>3 DEF Counting
<1>18. SessionHasFullBudget' /\ WindowFollows'
  BY <1>2, <1>6, <1>7 DEF SessionHasFullBudget, Connected, WindowFollows
<1> QED
  BY <1>13, <1>14, <1>15, <1>17, <1>18 DEF IInv

\* The user disconnects: the scheduler is cancelled, the plugin says what it says.
LEMMA UserDisconnectStep ==
  ASSUME IInv, UserDisconnect
  PROVE  IInv'
<1>0. TypeOK /\ Speaking /\ Scheduling /\ Counting /\ WindowFollows
  BY DEF IInv
<1>1. /\ todo = <<>> /\ calling = NoProfile /\ ar \in Scheduler /\ active \in Instance
  BY <1>0 DEF UserDisconnect, Idle, Returned, TypeOK
<1>2. PICK o \in DisconnectOutcomes(active) :
        /\ todo' = From("active", o.say)
        /\ active' = [active EXCEPT !.phase = o.phase,
                                   !.stop  = active.stop \/ active.phase \notin {"idle", "assoc"}]
  BY DEF UserDisconnect
<1>3. o.say \in Seq(Announcement) /\ o.phase \in Phases
  BY <1>1, DisconnectOutcomesType DEF Outcome
<1>4. /\ todo' \in Seq(Sent) /\ \A n \in 1..Len(todo') : todo'[n].from = "active"
      /\ o.say = <<>> => todo' = <<>>
  BY <1>2, <1>3, FromType DEF Senders
<1>5. /\ active' \in Instance /\ active'.kind = active.kind /\ active'.state = active.state
  <2>1. (active.stop \/ active.phase \notin {"idle", "assoc"}) \in BOOLEAN
    OBVIOUS
  <2> QED
    BY <1>1, <1>2, <1>3, <2>1 DEF Instance
<1>6. active # NoPlugin => active' # NoPlugin
  BY <1>0, <1>5, PluginType DEF Speaking, NullIsNoPlugin
<1>7. active = NoPlugin => active' = NoPlugin /\ todo' = <<>>
  <2> SUFFICES ASSUME active = NoPlugin PROVE active' = NoPlugin /\ todo' = <<>>
    OBVIOUS
  <2>1. o.say = <<>> /\ o.phase = "idle"
    BY <1>2, NoPluginOutcomes
  <2>2. active' = [NoPlugin EXCEPT !.phase = "idle", !.stop = FALSE]
    BY <1>2, <2>1 DEF NoPlugin, Plugin
  <2>3. active' = NoPlugin
    BY <2>2 DEF NoPlugin, Plugin
  <2> QED
    BY <1>4, <2>1, <2>3
<1>8. /\ ar' \in Scheduler /\ ar'.profile = ar.profile /\ ar'.attempt = 0
      /\ ~ar'.armed /\ ~Pending(ar)'
  <2>1. ar' = Cancel(ar)
    BY DEF UserDisconnect
  <2> QED
    BY <1>1, <2>1, SchedulerEffect, SchedulerOperations DEF Pending
<1>9. /\ dying' = dying /\ calling' = calling /\ activeProfile' = activeProfile
      /\ lastError' = lastError /\ posted' = posted /\ panel' = panel /\ button' = button
      /\ autos' = autos /\ stopped' = TRUE /\ hopeless' = hopeless /\ worked' = worked
  BY DEF UserDisconnect, shown
<1>10. TypeOK'
  BY <1>0, <1>4, <1>5, <1>8, <1>9 DEF TypeOK
<1>11. Speaking'
  <2>1. NullIsNoPlugin'
    BY <1>0, <1>5, <1>7 DEF Speaking, NullIsNoPlugin
  <2>2. OneSpeaker'
    BY <1>1, <1>4, <1>6, <1>7, <1>9, PluginType DEF OneSpeaker, Entries
  <2>3. CallIsFresh'
    BY <1>1, <1>9 DEF CallIsFresh
  <2> QED
    BY <2>1, <2>2, <2>3 DEF Speaking
<1>12. Scheduling'
  BY <1>0, <1>1, <1>8, <1>9
  DEF Scheduling, SchedulerFollows, RetryAfterReset, StopIsFinal, PermanentFailureIsFinal
<1>13. Counting'
  BY <1>0, <1>1, <1>8, <1>9
  DEF Counting, AttemptsAreCounted, PendingWithinBudget, CallIsCounted, RetriesAreBounded
<1>14. SessionHasFullBudget'
  BY <1>8 DEF SessionHasFullBudget
<1>15. WindowFollows'
  BY <1>0, <1>1, <1>5, <1>7, <1>9 DEF WindowFollows, Label
<1> QED
  BY <1>10, <1>11, <1>12, <1>13, <1>14, <1>15 DEF IInv

\* An event of the live plugin changes nothing but what it has to announce.
LEMMA PluginEventStep ==
  ASSUME IInv, PluginEvent
  PROVE  IInv'
<1>0. TypeOK /\ Speaking /\ Scheduling /\ Counting /\ SessionHasFullBudget /\ WindowFollows
  BY DEF IInv
<1>1. todo = <<>> /\ calling = NoProfile /\ active \in Instance
  BY <1>0 DEF PluginEvent, Idle, Returned, TypeOK
<1>2. PICK o \in Events(active) :
        todo' = From("active", o.say) /\ active' = [active EXCEPT !.phase = o.phase]
  BY DEF PluginEvent
<1>3. o.say \in Seq(Announcement) /\ o.phase \in Phases
  BY <1>1, EventsType DEF Outcome
<1>4. todo' \in Seq(Sent) /\ \A n \in 1..Len(todo') : todo'[n].from = "active"
  BY <1>2, <1>3, FromType DEF Senders
<1>5. active # NoPlugin
  BY <1>2, NoPluginOutcomes
<1>6. /\ active' \in Instance /\ active'.kind = active.kind /\ active'.state = active.state
      /\ active' # NoPlugin
  <2>1. /\ active' \in Instance /\ active'.kind = active.kind /\ active'.state = active.state
    BY <1>1, <1>2, <1>3 DEF Instance
  <2> QED
    BY <1>0, <1>5, <2>1, PluginType DEF Speaking, NullIsNoPlugin
<1>7. /\ dying' = dying /\ calling' = calling /\ activeProfile' = activeProfile
      /\ lastError' = lastError /\ ar' = ar /\ posted' = posted
      /\ panel' = panel /\ button' = button
      /\ autos' = autos /\ stopped' = stopped /\ hopeless' = hopeless /\ worked' = worked
  BY DEF PluginEvent, shown, history
<1>8. TypeOK'
  BY <1>0, <1>4, <1>6, <1>7 DEF TypeOK
<1>9. Speaking'
  BY <1>0, <1>1, <1>4, <1>5, <1>6, <1>7
  DEF Speaking, NullIsNoPlugin, OneSpeaker, CallIsFresh, Entries
<1>10. Scheduling'
  BY <1>0, <1>1, <1>5, <1>7
  DEF Scheduling, SchedulerFollows, RetryAfterReset, StopIsFinal, PermanentFailureIsFinal, Pending
<1>11. Counting'
  BY <1>0, <1>1, <1>7
  DEF Counting, AttemptsAreCounted, PendingWithinBudget, CallIsCounted, RetriesAreBounded, Pending
<1>12. SessionHasFullBudget' /\ WindowFollows'
  BY <1>0, <1>1, <1>5, <1>6, <1>7 DEF SessionHasFullBudget, Connected, WindowFollows, Label
<1> QED
  BY <1>8, <1>9, <1>10, <1>11, <1>12 DEF IInv

\* A posted reset clears the pointer, whichever plugin it held.
LEMMA PostedResetStep ==
  ASSUME IInv, PostedReset
  PROVE  IInv'
<1>0. TypeOK /\ Speaking /\ Scheduling /\ Counting
  BY DEF IInv
<1>1. /\ todo = <<>> /\ calling = NoProfile /\ active \in Instance
      /\ posted \in Seq(Posters) /\ posted # <<>>
  BY <1>0 DEF PostedReset, Returned, TypeOK
<1>2. PICK say \in DestroyAnnouncements(active) : todo' = From("dying", say)
  BY DEF PostedReset
<1>3. todo' \in Seq(Sent) /\ \A n \in 1..Len(todo') : todo'[n].from = "dying"
  BY <1>1, <1>2, DestroyAnnouncementsType, FromType DEF Senders
<1>4. posted' \in Seq(Posters)
  <2>1. Tail(posted) \in Seq(Posters)
    BY <1>1
  <2> QED
    BY <2>1, AllStaleType DEF PostedReset
<1>5. /\ active' = NoPlugin /\ dying' = active
      /\ calling' = calling /\ activeProfile' = activeProfile
      /\ lastError' = lastError /\ ar' = ar /\ panel' = panel /\ button' = button
      /\ autos' = autos /\ stopped' = stopped /\ hopeless' = hopeless /\ worked' = worked
  BY DEF PostedReset, shown, history
<1>6. TypeOK'
  BY <1>0, <1>3, <1>4, <1>5, PluginType DEF TypeOK
<1>7. Speaking'
  BY <1>1, <1>3, <1>5, PluginType
  DEF Speaking, NullIsNoPlugin, OneSpeaker, CallIsFresh, Entries
<1>8. Scheduling'
  BY <1>0, <1>5
  DEF Scheduling, SchedulerFollows, RetryAfterReset, StopIsFinal, PermanentFailureIsFinal, Pending
<1>9. Counting'
  BY <1>0, <1>1, <1>5
  DEF Counting, AttemptsAreCounted, PendingWithinBudget, CallIsCounted, RetriesAreBounded, Pending
<1>10. SessionHasFullBudget' /\ WindowFollows'
  BY <1>5, PluginType DEF SessionHasFullBudget, Connected, WindowFollows
<1> QED
  BY <1>6, <1>7, <1>8, <1>9, <1>10 DEF IInv

\* The reconnect policy, for whatever state is announced.
LEMMA PolicyEffect ==
  ASSUME NEW s \in ConnectionState, NEW err, ar \in Scheduler, SchedulerFollows
  PROVE  /\ Policy(s, err) \in Scheduler
         /\ Policy(s, err).profile = ar.profile
         /\ Policy(s, err).armed => ar.armed
         /\ Pending(Policy(s, err)) => Pending(ar) \/ ar.armed
         /\ Pending(Policy(s, err)) /\ ~Pending(ar) => ~Busy(s)
         /\ s = "Connected" => Policy(s, err).attempt = 0
         /\ s = "Failed" /\ err = "permanent" =>
              ~Policy(s, err).armed /\ ~Pending(Policy(s, err))
<1>1. /\ NoteSuccess(ar) \in Scheduler /\ Cancel(ar) \in Scheduler
      /\ NoteFailure(ar) \in Scheduler
  BY SchedulerOperations, NoteFailureType DEF SchedulerFollows
<1>2. NoteFailure(ar).profile = ar.profile /\ (NoteFailure(ar).armed => ar.armed)
  BY NoteFailureEffect
<1>3. Pending(NoteFailure(ar)) => Pending(ar) \/ ar.armed
  BY NoteFailureEffect DEF Pending
<1>4. CASE s = "Connected"
  <2>1. Policy(s, err) = NoteSuccess(ar)
    BY <1>4 DEF Policy
  <2> QED
    BY <1>1, <1>4, <2>1, SchedulerEffect DEF Pending
<1>5. CASE s = "Failed" /\ err = "permanent"
  <2>1. Policy(s, err) = Cancel(ar)
    BY <1>5 DEF Policy
  <2> QED
    BY <1>1, <1>5, <2>1, SchedulerEffect
<1>6. CASE (s = "Failed" /\ err # "permanent") \/ s = "Disconnected"
  <2>1. Policy(s, err) \in {NoteFailure(ar), ar}
    BY <1>6 DEF Policy
  <2> QED
    BY <1>1, <1>2, <1>3, <1>6, <2>1 DEF Busy
<1>7. CASE s \notin {"Connected", "Failed", "Disconnected"}
  <2>1. Policy(s, err) = ar
    BY <1>7 DEF Policy
  <2> QED
    BY <1>7, <2>1
<1> QED
  BY <1>4, <1>5, <1>6, <1>7

\* A failure uses up one count for the retry it schedules, or none.
LEMMA PolicyCounts ==
  ASSUME NEW s \in ConnectionState, NEW err, TypeOK, SchedulerFollows,
         AttemptsAreCounted, PendingWithinBudget
  PROVE  /\ \/ ~Policy(s, err).armed /\ ~Pending(Policy(s, err))
            \/ (IF s = "Connected" THEN 0 ELSE autos)
                 + (IF Pending(Policy(s, err)) THEN 1 ELSE 0) <= Policy(s, err).attempt + 1
         /\ Pending(Policy(s, err)) => Policy(s, err).attempt <= ar.profile.tries
<1> DEFINE ar1 == Policy(s, err)
           autos1 == IF s = "Connected" THEN 0 ELSE autos
           Within == autos1 + (IF Pending(ar1) THEN 1 ELSE 0) <= ar1.attempt + 1
           Quiet == ~ar1.armed /\ ~Pending(ar1)
<1> SUFFICES (Quiet \/ Within) /\ (Pending(ar1) => ar1.attempt <= ar.profile.tries)
  OBVIOUS
<1>1. ar \in Scheduler /\ autos \in Nat /\ ar.attempt \in 0..100
  BY DEF TypeOK, Scheduler
<1>2. Pending(ar) \/ ar.armed => ar.profile.tries \in 0..100
  BY ProfilesAssumption DEF SchedulerFollows
<1>3. \/ s = "Connected" /\ ar1 = NoteSuccess(ar) /\ autos1 = 0
      \/ ar1 = Cancel(ar)
      \/ ar1 = NoteFailure(ar) /\ autos1 = autos
      \/ ar1 = ar /\ autos1 = autos
  BY DEF Policy
<1> HIDE DEF ar1, autos1
<1>4. CASE ar1 = NoteSuccess(ar) /\ autos1 = 0
  <2>1. ar1.attempt = 0 /\ (Pending(ar1) <=> Pending(ar))
    BY <1>1, <1>4, SchedulerEffect DEF Pending
  <2>2. Within
    BY <1>4, <2>1
  <2>3. Pending(ar1) => ar1.attempt <= ar.profile.tries
    BY <1>2, <2>1
  <2> QED
    BY <2>2, <2>3
<1>5. CASE ar1 = Cancel(ar)
  BY <1>1, <1>5, SchedulerEffect
<1>6. CASE ar1 = ar /\ autos1 = autos
  BY <1>6 DEF AttemptsAreCounted, PendingWithinBudget
<1>7. CASE ar1 = NoteFailure(ar) /\ autos1 = autos
  <2>1. CASE ~ar.armed
    BY <1>1, <1>6, <1>7, <2>1, NoteFailureEffect
  <2>2. CASE ar.armed /\ ar.attempt >= ar.profile.tries
    <3>1. ar1.attempt = ar.attempt /\ (Pending(ar1) <=> Pending(ar))
      BY <1>1, <1>7, <2>2, NoteFailureEffect DEF Pending
    <3>2. autos + (IF Pending(ar) THEN 1 ELSE 0) <= ar.attempt + 1
      BY <2>2 DEF AttemptsAreCounted
    <3>3. Within
      BY <1>7, <3>1, <3>2
    <3>4. Pending(ar1) => ar1.attempt <= ar.profile.tries
      BY <3>1 DEF PendingWithinBudget
    <3> QED
      BY <3>3, <3>4
  <2>3. CASE ar.armed /\ ~(ar.attempt >= ar.profile.tries)
    <3>1. ar1.attempt = ar.attempt + 1
      BY <1>1, <1>7, <2>3, NoteFailureEffect
    <3>2. autos <= ar.attempt + 1
      <4>1. autos + (IF Pending(ar) THEN 1 ELSE 0) <= ar.attempt + 1
        BY <2>3 DEF AttemptsAreCounted
      <4> QED
        BY <1>1, <4>1
    <3>3. Within
      BY <1>1, <1>7, <3>1, <3>2
    <3>4. ar1.attempt <= ar.profile.tries
      <4>1. ar.profile.tries \in 0..100
        BY <1>2, <2>3
      <4>2. \A m \in 0..100, n \in 0..100 : ~(m >= n) => m + 1 <= n
        OBVIOUS
      <4>3. ~(ar.attempt >= ar.profile.tries)
        BY <2>3
      <4>4. ar.attempt + 1 <= ar.profile.tries
        BY <1>1, <4>1, <4>2, <4>3, Zenon
      <4> QED
        BY <3>1, <4>4
    <3> QED
      BY <3>3, <3>4
  <2> QED
    BY <2>1, <2>2, <2>3
<1> HIDE DEF Within, Quiet
<1> QED
  BY <1>3, <1>4, <1>5, <1>6, <1>7

\* What an announcement leaves of the scheduler, the queue and the histories,
\* whether MainWindow hears of it or setState swallowed it.
LEMMA DeliverEffect ==
  ASSUME TypeOK, SchedulerFollows, AttemptsAreCounted, PendingWithinBudget, Deliver
  PROVE  /\ ar' \in Scheduler /\ ar'.profile = ar.profile
         /\ ar'.armed => ar.armed
         /\ Pending(ar') => Pending(ar) \/ ar.armed
         /\ posted' \in Seq(Posters) /\ (posted # <<>> => posted' # <<>>)
         /\ Pending(ar') /\ ~Pending(ar) => posted' # <<>>
         /\ autos' \in {0, autos}
         /\ worked' \in BOOLEAN /\ hopeless' \in BOOLEAN
         /\ hopeless' => hopeless \/ (~ar'.armed /\ ~Pending(ar'))
         /\ panel' \in ConnectionState /\ button' \in {"Connect", "Disconnect"}
         /\ AttemptsAreCounted' /\ PendingWithinBudget'
<1> DEFINE a == Head(todo)
           sender == IF a.from = "active" THEN active ELSE dying
           err == IF a.err = "none" THEN lastError ELSE a.err
<1>1. /\ ar \in Scheduler /\ autos \in Nat /\ posted \in Seq(Posters)
      /\ worked \in BOOLEAN /\ hopeless \in BOOLEAN
      /\ panel \in ConnectionState /\ button \in {"Connect", "Disconnect"}
  BY DEF TypeOK
<1>2. a \in Sent
  <2>1. todo \in Seq(Sent) /\ todo # <<>>
    BY DEF TypeOK, Deliver
  <2> QED
    BY <2>1
<1>3. a.to \in ConnectionState
  BY <1>2 DEF Sent
<1>4. \/ /\ ar' = ar /\ posted' = posted /\ panel' = panel /\ button' = button
         /\ autos' = autos /\ hopeless' = hopeless /\ worked' = worked
      \/ OnStateChanged(a.to, a.from, err)
  BY DEF Deliver, shown
<1> HIDE DEF a, err
<1>5. CASE /\ ar' = ar /\ posted' = posted /\ panel' = panel /\ button' = button
           /\ autos' = autos /\ hopeless' = hopeless /\ worked' = worked
  BY <1>1, <1>5 DEF AttemptsAreCounted, PendingWithinBudget, Pending
<1>6. CASE OnStateChanged(a.to, a.from, err)
  <2>1. /\ panel' = a.to /\ button' = Label(active'.state)
        /\ ar' = Policy(a.to, err) /\ posted' = Post(a.to, a.from)
        /\ autos' = (IF a.to = "Connected" THEN 0 ELSE autos)
        /\ worked' = (worked \/ a.to = "Connected")
        /\ hopeless' = (hopeless \/ (a.to = "Failed" /\ err = "permanent"))
    BY <1>6 DEF OnStateChanged
  <2>2. /\ Policy(a.to, err) \in Scheduler
        /\ Policy(a.to, err).profile = ar.profile
        /\ Policy(a.to, err).armed => ar.armed
        /\ Pending(Policy(a.to, err)) => Pending(ar) \/ ar.armed
        /\ Pending(Policy(a.to, err)) /\ ~Pending(ar) => ~Busy(a.to)
        /\ a.to = "Failed" /\ err = "permanent" =>
             ~Policy(a.to, err).armed /\ ~Pending(Policy(a.to, err))
    BY <1>1, <1>3, PolicyEffect
  <2>3. /\ ar' \in Scheduler /\ ar'.profile = ar.profile
        /\ ar'.armed => ar.armed
        /\ Pending(ar') => Pending(ar) \/ ar.armed
        /\ Pending(ar') /\ ~Pending(ar) => ~Busy(a.to)
        /\ a.to = "Failed" /\ err = "permanent" => ~ar'.armed /\ ~Pending(ar')
    BY <2>1, <2>2
  <2>4. /\ posted' \in Seq(Posters) /\ (posted # <<>> => posted' # <<>>)
        /\ ~Busy(a.to) => posted' # <<>>
    <3> DEFINE e == IF a.from = "active" THEN "own" ELSE "stale"
    <3>1. e \in Posters
      BY DEF Posters
    <3>2. posted' = IF Busy(a.to) THEN posted ELSE Append(posted, e)
      BY <2>1 DEF Post
    <3> HIDE DEF e
    <3>3. Append(posted, e) \in Seq(Posters) /\ Append(posted, e) # <<>>
      BY <1>1, <3>1
    <3> QED
      BY <1>1, <3>2, <3>3
  <2>5. /\ autos' \in {0, autos} /\ worked' \in BOOLEAN /\ hopeless' \in BOOLEAN
        /\ hopeless' => hopeless \/ (~ar'.armed /\ ~Pending(ar'))
    BY <2>1, <2>3
  <2>6. panel' \in ConnectionState /\ button' \in {"Connect", "Disconnect"}
    BY <1>3, <2>1 DEF Label
  <2>7. AttemptsAreCounted' /\ PendingWithinBudget'
    <3>1. /\ \/ ~Policy(a.to, err).armed /\ ~Pending(Policy(a.to, err))
             \/ (IF a.to = "Connected" THEN 0 ELSE autos)
                  + (IF Pending(Policy(a.to, err)) THEN 1 ELSE 0) <= Policy(a.to, err).attempt + 1
          /\ Pending(Policy(a.to, err)) => Policy(a.to, err).attempt <= ar.profile.tries
      BY <1>3, PolicyCounts
    <3>2. /\ \/ ~ar'.armed /\ ~Pending(ar')
             \/ autos' + (IF Pending(ar') THEN 1 ELSE 0) <= ar'.attempt + 1
          /\ Pending(ar') => ar'.attempt <= ar'.profile.tries
      BY <2>1, <2>3, <3>1
    <3> QED
      BY <3>2 DEF AttemptsAreCounted, PendingWithinBudget, Pending
  <2> QED
    BY <2>3, <2>4, <2>5, <2>6, <2>7
<1> QED
  BY <1>4, <1>5, <1>6

\* The rest of an announcement sequence has the speaker of the whole.
LEMMA TailType ==
  ASSUME NEW q \in Seq(Sent), q # <<>>, NEW who, \A n \in 1..Len(q) : q[n].from = who
  PROVE  /\ Head(q) \in Sent /\ Head(q).from = who
         /\ Tail(q) \in Seq(Sent) /\ \A n \in 1..Len(Tail(q)) : Tail(q)[n].from = who
<1>1. /\ Head(q) \in Sent /\ Head(q) = q[1] /\ 1 \in 1..Len(q)
      /\ Tail(q) \in Seq(Sent) /\ Len(q) \in Nat /\ Len(Tail(q)) = Len(q) - 1
      /\ \A n \in 1..Len(Tail(q)) : Tail(q)[n] = q[n + 1]
  OBVIOUS
<1>2. \A n \in 1..Len(Tail(q)) : n + 1 \in 1..Len(q)
  BY <1>1
<1> QED
  BY <1>1, <1>2

\* The next announcement reaches MainWindow, or is swallowed by setState.
LEMMA DeliverStep ==
  ASSUME IInv, Deliver
  PROVE  IInv'
<1> DEFINE a == Head(todo)
<1>0. /\ TypeOK /\ Speaking /\ Scheduling /\ Counting /\ SessionHasFullBudget /\ WindowFollows
      /\ SchedulerFollows /\ AttemptsAreCounted /\ PendingWithinBudget
  BY DEF IInv, Scheduling, Counting
<1>1. /\ todo # <<>> /\ todo \in Seq(Sent) /\ active \in Instance /\ dying \in Instance
      /\ todo' = Tail(todo) /\ calling' = calling /\ activeProfile' = activeProfile
      /\ stopped' = stopped
  BY <1>0 DEF Deliver, TypeOK
<1>2. /\ ar' \in Scheduler /\ ar'.profile = ar.profile
      /\ ar'.armed => ar.armed
      /\ Pending(ar') => Pending(ar) \/ ar.armed
      /\ posted' \in Seq(Posters) /\ (posted # <<>> => posted' # <<>>)
      /\ Pending(ar') /\ ~Pending(ar) => posted' # <<>>
      /\ autos' \in {0, autos}
      /\ worked' \in BOOLEAN /\ hopeless' \in BOOLEAN
      /\ hopeless' => hopeless \/ (~ar'.armed /\ ~Pending(ar'))
      /\ panel' \in ConnectionState /\ button' \in {"Connect", "Disconnect"}
      /\ AttemptsAreCounted' /\ PendingWithinBudget'
  BY <1>0, DeliverEffect
<1>3. /\ a \in Sent /\ todo' \in Seq(Sent)
      /\ a.err \in ErrorClass /\ a.to \in ConnectionState /\ a.from \in Senders
  <2>1. a \in Sent /\ todo' \in Seq(Sent)
    BY <1>1
  <2> QED
    BY <2>1 DEF Sent
<1>4. lastError' \in ErrorClass
  BY <1>0, <1>3 DEF Deliver, TypeOK
<1>5. /\ active' = IF a.from = "active" THEN [active EXCEPT !.state = a.to] ELSE active
      /\ dying'  = IF a.from = "dying" THEN [dying EXCEPT !.state = a.to] ELSE dying
  BY DEF Deliver
<1>6. active' \in Instance /\ dying' \in Instance /\ active'.kind = active.kind
  BY <1>1, <1>3, <1>5 DEF Instance
<1>7. TypeOK'
  <2>1. autos' \in Nat
    BY <1>0, <1>2 DEF TypeOK
  <2> QED
    BY <1>0, <1>1, <1>2, <1>3, <1>4, <1>6, <2>1 DEF TypeOK
<1>8. \/ /\ active # NoPlugin /\ calling = NoProfile
         /\ a.from = "active" /\ active' # NoPlugin /\ active'.state = a.to
         /\ \A n \in 1..Len(todo') : todo'[n].from = "active"
      \/ /\ active = NoPlugin \/ calling # NoProfile
         /\ active.state = "Disconnected"
         /\ a.from = "dying" /\ active' = active
         /\ \A n \in 1..Len(todo') : todo'[n].from = "dying"
  <2>1. CASE /\ active # NoPlugin /\ calling = NoProfile
             /\ \A n \in 1..Len(todo) : todo[n].from = "active"
    <3>1. a.from = "active" /\ \A n \in 1..Len(todo') : todo'[n].from = "active"
      BY <1>1, <2>1, TailType
    <3>2. active' = [active EXCEPT !.state = a.to] /\ active'.state = a.to
      BY <1>1, <1>5, <3>1 DEF Instance
    <3>3. active' # NoPlugin
      BY <1>0, <1>6, <2>1, PluginType DEF Speaking, NullIsNoPlugin
    <3> QED
      BY <2>1, <3>1, <3>2, <3>3
  <2>2. CASE /\ active = NoPlugin \/ calling # NoProfile
             /\ active.state = "Disconnected"
             /\ \A n \in 1..Len(todo) : todo[n].from = "dying"
    <3>1. a.from = "dying" /\ \A n \in 1..Len(todo') : todo'[n].from = "dying"
      BY <1>1, <2>2, TailType
    <3>2. active' = active
      BY <1>5, <3>1
    <3> QED
      BY <2>2, <3>1, <3>2
  <2> QED
    BY <1>0, <2>1, <2>2 DEF Speaking, OneSpeaker, Entries
<1>9. Speaking'
  <2>1. NullIsNoPlugin'
    BY <1>0, <1>6, <1>8, PluginType DEF Speaking, NullIsNoPlugin
  <2>2. OneSpeaker'
    BY <1>1, <1>8 DEF OneSpeaker, Entries
  <2>3. CallIsFresh'
    BY <1>0, <1>1, <1>8 DEF Speaking, CallIsFresh, Entries
  <2> QED
    BY <2>1, <2>2, <2>3 DEF Speaking
<1>10. Scheduling'
  <2>1. SchedulerFollows'
    BY <1>0, <1>1, <1>2 DEF SchedulerFollows, Pending
  <2>2. RetryAfterReset'
    BY <1>0, <1>1, <1>2, <1>8 DEF Scheduling, RetryAfterReset, Pending
  <2>3. StopIsFinal' /\ PermanentFailureIsFinal'
    BY <1>0, <1>1, <1>2 DEF Scheduling, StopIsFinal, PermanentFailureIsFinal, Pending
  <2> QED
    BY <2>1, <2>2, <2>3 DEF Scheduling
<1>11. Counting'
  <2>1. CallIsCounted'
    <3>1. autos' > 0 => autos > 0
      BY <1>2
    <3> QED
      BY <1>0, <1>1, <3>1 DEF Counting, CallIsCounted
  <2>2. RetriesAreBounded'
    <3>1. activeProfile # NoProfile => activeProfile.tries \in 0..100
      BY <1>0, ProfilesAssumption DEF TypeOK
    <3>2. activeProfile # NoProfile => autos' <= activeProfile.tries + 1
      <4>1. activeProfile # NoProfile => autos <= activeProfile.tries + 1
        BY <1>0 DEF Counting, RetriesAreBounded
      <4>2. autos' = 0 \/ autos' = autos
        BY <1>2
      <4> QED
        BY <3>1, <4>1, <4>2
    <3> QED
      BY <1>1, <3>2 DEF RetriesAreBounded
  <2> QED
    BY <1>2, <2>1, <2>2 DEF Counting
<1>12. \/ /\ ar' = ar /\ panel' = panel /\ button' = button
          /\ (IF a.from = "active" THEN active ELSE dying).state = a.to
       \/ /\ panel' = a.to /\ button' = Label(active'.state)
          /\ a.to = "Connected" => ar'.attempt = 0
  <2> DEFINE err == IF a.err = "none" THEN lastError ELSE a.err
  <2>1. \/ /\ ar' = ar /\ panel' = panel /\ button' = button
           /\ (IF a.from = "active" THEN active ELSE dying).state = a.to
        \/ OnStateChanged(a.to, a.from, err)
    BY DEF Deliver, shown
  <2> HIDE DEF a, err
  <2>2. ASSUME OnStateChanged(a.to, a.from, err)
        PROVE  /\ panel' = a.to /\ button' = Label(active'.state)
               /\ a.to = "Connected" => ar'.attempt = 0
    <3>1. panel' = a.to /\ button' = Label(active'.state) /\ ar' = Policy(a.to, err)
      BY <2>2 DEF OnStateChanged
    <3>2. ar \in Scheduler
      BY <1>0 DEF TypeOK
    <3>3. a.to = "Connected" => Policy(a.to, err).attempt = 0
      BY <1>0, <1>3, <3>2, PolicyEffect
    <3> QED
      BY <3>1, <3>3
  <2> QED
    BY <2>1, <2>2
<1>13. SessionHasFullBudget'
  BY <1>0, <1>8, <1>12 DEF SessionHasFullBudget, Connected
<1>14. WindowFollows'
  <2>1. CASE a.from = "active"
    <3>1. active # NoPlugin /\ calling = NoProfile /\ active'.state = a.to
      BY <1>8, <2>1
    <3>2. CASE panel' = a.to /\ button' = Label(active'.state)
      BY <3>1, <3>2 DEF WindowFollows, Label
    <3>3. CASE panel' = panel /\ button' = button /\ active.state = a.to
      <4>1. panel = active.state /\ button = Label(active.state)
        BY <1>0, <3>1, <3>3 DEF WindowFollows
      <4> QED
        BY <3>1, <3>3, <4>1 DEF WindowFollows, Label
    <3> QED
      BY <1>12, <2>1, <3>2, <3>3
  <2>2. CASE a.from = "dying"
    BY <1>1, <1>8, <2>2 DEF WindowFollows
  <2> QED
    BY <1>8, <2>1, <2>2
<1> QED
  BY <1>7, <1>9, <1>10, <1>11, <1>13, <1>14 DEF IInv

-----------------------------------------------------------------------------

LEMMA StepIInv == IInv /\ [Next]_vars => IInv'
<1> SUFFICES ASSUME IInv, [Next]_vars PROVE IInv'
  OBVIOUS
<1>1. CASE Next
  BY <1>1, UserConnectStep, ContinueConnectStep, UserDisconnectStep, RetryStep,
     PluginEventStep, PostedResetStep, DeliverStep DEF Next
<1>2. CASE UNCHANGED vars
  <2>1. /\ active' = active /\ dying' = dying /\ todo' = todo /\ calling' = calling
        /\ activeProfile' = activeProfile /\ lastError' = lastError /\ ar' = ar
        /\ posted' = posted /\ panel' = panel /\ button' = button
        /\ autos' = autos /\ stopped' = stopped /\ hopeless' = hopeless /\ worked' = worked
    BY <1>2 DEF vars
  <2>2. TypeOK'
    BY <2>1 DEF IInv, TypeOK
  <2>3. Speaking'
    BY <2>1 DEF IInv, Speaking, NullIsNoPlugin, OneSpeaker, CallIsFresh, Entries
  <2>4. Scheduling'
    BY <2>1 DEF IInv, Scheduling, SchedulerFollows, RetryAfterReset, StopIsFinal,
                PermanentFailureIsFinal, Pending
  <2>5. Counting'
    BY <2>1 DEF IInv, Counting, AttemptsAreCounted, PendingWithinBudget, CallIsCounted,
                RetriesAreBounded, Pending
  <2>6. SessionHasFullBudget' /\ WindowFollows'
    BY <2>1 DEF IInv, SessionHasFullBudget, Connected, WindowFollows, Label
  <2> QED
    BY <2>2, <2>3, <2>4, <2>5, <2>6 DEF IInv
<1> QED
  BY <1>1, <1>2

LEMMA Inductive == Spec => []IInv
  BY InitIInv, StepIInv, PTL DEF Spec

\* The variables of the connection manager keep their types, for any profiles:
\* the counter, the delay and the queue that onStateChanged and the scheduler
\* share never leave their ranges.
THEOREM TypeCorrect == Spec => []TypeOK
<1>1. IInv => TypeOK
  BY DEF IInv
<1> QED
  BY <1>1, Inductive, PTL

\* Once the posted resets of onStateChanged have run, a pending retry finds no
\* plugin: a reconnect never cuts into a session.
THEOREM RetryFindsNoSession == Spec => []PendingRetryHasNoSession
<1>1. IInv => PendingRetryHasNoSession
  BY DEF IInv, Scheduling, RetryAfterReset, PendingRetryHasNoSession, Returned
<1> QED
  BY <1>1, Inductive, PTL

\* disconnectActive stops the scheduler for good, whatever plugins announce.
THEOREM UserStop == Spec => []UserStopIsFinal
<1>1. IInv => UserStopIsFinal
  BY DEF IInv, Scheduling, StopIsFinal, UserStopIsFinal
<1> QED
  BY <1>1, Inductive, PTL

\* So does a failure isPermanentError recognises.
THEOREM PermanentFailure == Spec => []PermanentFailureIsFinal
<1>1. IInv => PermanentFailureIsFinal
  BY DEF IInv, Scheduling
<1> QED
  BY <1>1, Inductive, PTL

\* reconnectMaxTries bounds the attempts in a row, up to the one that a late
\* Connected grants.
THEOREM RetriesBounded == Spec => []RetriesAreBounded
<1>1. IInv => RetriesAreBounded
  BY DEF IInv, Counting
<1> QED
  BY <1>1, Inductive, PTL

\* A session that drops has all its retries left.
THEOREM FullBudget == Spec => []SessionHasFullBudget
<1>1. IInv => SessionHasFullBudget
  BY DEF IInv
<1> QED
  BY <1>1, Inductive, PTL

\* Between two handlers the panel, the tray and the button are those of the
\* live plugin.
THEOREM WindowCorrect == Spec => []WindowShowsSession
<1>1. IInv => WindowShowsSession
  BY DEF IInv, WindowFollows, WindowShowsSession, Returned
<1> QED
  BY <1>1, Inductive, PTL
=============================================================================
