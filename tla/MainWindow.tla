----------------------------- MODULE MainWindow -----------------------------
(***************************************************************************)
(* The connection manager: MainWindow's m_active, m_activeProfile,         *)
(* m_lastError and m_reconnect, the queue of posted resets, and what the   *)
(* window shows.  MainWindow owns at most one live plugin; the plugins'    *)
(* entry points come from Protocol, the scheduler from AutoReconnect.      *)
(*                                                                         *)
(* Qt delivers stateChanged synchronously, so a handler of a plugin runs   *)
(* MainWindow::onStateChanged before its next line.  The model keeps that  *)
(* order: a handler leaves its announcements in todo, Deliver takes them   *)
(* one at a time, and no event-loop action starts before todo is empty and *)
(* the connectByProfile in progress, if any, has returned.                 *)
(***************************************************************************)
EXTENDS AutoReconnect, Protocol

CONSTANT
  MaxPosted    \* bound: no event-loop action starts with this many resets queued

ASSUME KindsAssumption == \A p \in Profiles : p.kind \in Kinds
ASSUME MaxPostedAssumption == MaxPosted \in Nat \ {0}

VARIABLES
  active,         \* *m_active, NoPlugin when the pointer is null
  dying,          \* the plugin whose destructor runs or ran last
  todo,           \* announcements the running handler has still to make
  calling,        \* profile of the connectByProfile in progress, or NoProfile
  activeProfile,  \* m_activeProfile
  lastError,      \* class of m_lastError ("none" when cleared)
  ar,             \* *m_reconnect
  posted,         \* queued m_active.reset() calls, oldest first
  panel,          \* state the connection panel and the tray show
  button,         \* label of the primary button
  autos,          \* history: automatic attempts since the last connect by the
                  \* user or the last Connected
  stopped,        \* history: the user disconnected and has not connected since
  hopeless,       \* history: a permanent failure ended this series of attempts
  worked          \* history: a session was up since the user's last connect

vars == <<active, dying, todo, calling, activeProfile, lastError, ar, posted,
          panel, button, autos, stopped, hopeless, worked>>
shown   == <<panel, button>>
history == <<autos, stopped, hopeless, worked>>

(***************************************************************************)
(* A queued reset is the same untagged lambda whoever posted it.  The      *)
(* model remembers whether that was the plugin m_active still points to    *)
(* ("own") or one that has been replaced or destroyed ("stale").           *)
(***************************************************************************)
Posters == {"own", "stale"}
AllStale(q) == [n \in 1..Len(q) |-> "stale"]

Senders == {"active", "dying"}
From(sender, say) == [n \in 1..Len(say) |-> [from |-> sender, err |-> say[n].err, to |-> say[n].to]]

Init ==
  /\ active = NoPlugin /\ dying = NoPlugin
  /\ todo = <<>> /\ calling = NoProfile
  /\ activeProfile = NoProfile
  /\ lastError = "none"
  /\ ar = InitScheduler
  /\ posted = <<>>
  /\ panel = "Disconnected" /\ button = "Connect"
  /\ autos = 0 /\ stopped = FALSE /\ hopeless = FALSE /\ worked = FALSE

Returned == todo = <<>> /\ calling = NoProfile   \* control is in the event loop
Idle == Returned /\ Len(posted) < MaxPosted
Connected == active.state = "Connected"

-----------------------------------------------------------------------------

(***************************************************************************)
(* connectByProfile.  The unique_ptr assignment installs the new plugin    *)
(* and then destroys the old one, whose destructor may announce states     *)
(* while m_active is already the new plugin.                               *)
(***************************************************************************)
BeginConnect(p) ==
  /\ active' = Plugin(p.kind)
  /\ dying' = active
  /\ calling' = p
  /\ posted' = AllStale(posted)
  /\ \E say \in DestroyAnnouncements(active) : todo' = From("dying", say)
  /\ UNCHANGED <<activeProfile, lastError, shown>>

\* ... and, the destructor done, arms the scheduler and runs connectWith.
ContinueConnect ==
  /\ calling # NoProfile /\ todo = <<>>
  /\ activeProfile' = calling
  /\ lastError' = "none"
  /\ ar' = ArmFor(ar, calling)
  /\ \E o \in ConnectOutcomes(calling.kind) :
       /\ todo' = From("active", o.say)
       /\ active' = [active EXCEPT !.phase = o.phase]
  /\ calling' = NoProfile
  /\ hopeless' = (hopeless /\ autos > 0)
  /\ UNCHANGED <<dying, posted, shown, autos, stopped, worked>>

\* onConnect, from the button, the Enter key, the tray, --connect, auto-connect.
UserConnect(p) ==
  /\ Idle /\ ~Connected
  /\ BeginConnect(p)
  /\ autos' = 0 /\ stopped' = FALSE /\ worked' = FALSE
  /\ UNCHANGED <<ar, hopeless>>

\* Faulty variant: the retry lambda wants a live plugin to replace.
RetryNeedsPlugin ==
  /\ Idle /\ posted = <<>>
  /\ Pending(ar)
  /\ ar' = Fired(ar)
  /\ IF active # NoPlugin /\ ~Connected
     THEN BeginConnect(activeProfile) /\ autos' = autos + 1
     ELSE UNCHANGED <<active, dying, todo, calling, posted, activeProfile,
                      lastError, shown, autos>>
  /\ UNCHANGED <<stopped, hopeless, worked>>

(***************************************************************************)
(* The scheduler's timer fires and the retry lambda runs.  The timer was   *)
(* started a second ago or more, so the resets posted before it have run.  *)
(***************************************************************************)
Retry ==
  /\ Idle /\ posted = <<>>
  /\ Pending(ar)
  /\ ar' = Fired(ar)
  /\ IF activeProfile # NoProfile /\ ~Connected
     THEN BeginConnect(activeProfile) /\ autos' = autos + 1
     ELSE UNCHANGED <<active, dying, todo, calling, posted, activeProfile,
                      lastError, shown, autos>>
  /\ UNCHANGED <<stopped, hopeless, worked>>

\* disconnectActive, from the button, the tray, --disconnect.
UserDisconnect ==
  /\ Idle
  /\ ar' = Cancel(ar)
  /\ stopped' = TRUE
  /\ \E o \in DisconnectOutcomes(active) :
       /\ todo' = From("active", o.say)
       /\ active' = [active EXCEPT !.phase = o.phase,
                                   !.stop  = active.stop \/ active.phase \notin {"idle", "assoc"}]
  /\ UNCHANGED <<dying, calling, activeProfile, lastError, posted, shown, autos, hopeless, worked>>

\* A process, socket or timer event of the live plugin.
PluginEvent ==
  /\ Idle
  /\ \E o \in Events(active) :
       /\ todo' = From("active", o.say)
       /\ active' = [active EXCEPT !.phase = o.phase]
  /\ UNCHANGED <<dying, calling, activeProfile, lastError, ar, posted, shown, history>>

\* The oldest posted m_active.reset() runs: the pointer is cleared, then the
\* plugin it held, whichever that is by now, is destroyed.
PostedReset ==
  /\ Returned /\ posted # <<>>
  /\ posted' = AllStale(Tail(posted))
  /\ active' = NoPlugin
  /\ dying' = active
  /\ \E say \in DestroyAnnouncements(active) : todo' = From("dying", say)
  /\ UNCHANGED <<calling, activeProfile, lastError, ar, shown, history>>

-----------------------------------------------------------------------------

\* applyStateToUi
Label(s) == IF Busy(s) THEN "Disconnect" ELSE "Connect"

\* Faulty variant: isPermanentError is not asked.
PolicyRetriesAll(s, err) ==
  CASE s = "Connected" -> NoteSuccess(ar)
    [] s \in {"Failed", "Disconnected"} -> NoteFailure(ar)
    [] OTHER -> ar

\* The reconnect policy at the end of onStateChanged.
Policy(s, err) ==
  CASE s = "Connected" -> NoteSuccess(ar)
    [] s = "Failed" -> IF err = "permanent" THEN Cancel(ar) ELSE NoteFailure(ar)
    [] s = "Disconnected" -> IF ar.armed THEN NoteFailure(ar) ELSE ar
    [] OTHER -> ar

\* destroyActiveSoon
Post(s, sender) ==
  IF Busy(s) THEN posted
  ELSE Append(posted, IF sender = "active" THEN "own" ELSE "stale")

\* Faulty variant: the plugin announces a state before it is in it.
OnStateChangedEarly(s, sender, err) ==
  /\ panel' = active.state
  /\ button' = Label(active.state)
  /\ ar' = Policy(s, err)
  /\ posted' = Post(s, sender)
  /\ autos' = IF s = "Connected" THEN 0 ELSE autos
  /\ worked' = (worked \/ s = "Connected")
  /\ hopeless' = (hopeless \/ (s = "Failed" /\ err = "permanent"))

\* MainWindow::onStateChanged(s), with m_lastError of class err.
OnStateChanged(s, sender, err) ==
  /\ panel' = s
  /\ button' = Label(active'.state)
  /\ ar' = Policy(s, err)
  /\ posted' = Post(s, sender)
  /\ autos' = IF s = "Connected" THEN 0 ELSE autos
  /\ worked' = (worked \/ s = "Connected")
  /\ hopeless' = (hopeless \/ (s = "Failed" /\ err = "permanent"))

\* The next announcement: the errorOccurred lambda, then IProtocol::setState,
\* which says nothing when the sender is already in that state.
Deliver ==
  /\ todo # <<>>
  /\ LET a      == Head(todo)
         sender == IF a.from = "active" THEN active ELSE dying
         err    == IF a.err = "none" THEN lastError ELSE a.err
     IN /\ lastError' = err
        /\ active' = IF a.from = "active" THEN [active EXCEPT !.state = a.to] ELSE active
        /\ dying'  = IF a.from = "dying" THEN [dying EXCEPT !.state = a.to] ELSE dying
        /\ IF sender.state = a.to
           THEN UNCHANGED <<ar, posted, shown, autos, hopeless, worked>>
           ELSE OnStateChanged(a.to, a.from, err)
  /\ todo' = Tail(todo)
  /\ UNCHANGED <<calling, activeProfile, stopped>>

Next ==
  \/ \E p \in Profiles : UserConnect(p)
  \/ ContinueConnect
  \/ UserDisconnect
  \/ Retry
  \/ PluginEvent
  \/ PostedReset
  \/ Deliver

Spec == Init /\ [][Next]_vars

(***************************************************************************)
(* Qt's event loop: a running handler returns, posted calls and elapsed    *)
(* timers are dispatched.  Fairness of the posted resets is strong: they   *)
(* are only dispatchable between two handlers, and the loop serves its     *)
(* sources in turn, so a busy plugin cannot keep one waiting for ever.     *)
(* Neither the user nor a gateway owes anything.                           *)
(***************************************************************************)
FairSpec == /\ Spec
            /\ WF_vars(Deliver)
            /\ WF_vars(ContinueConnect)
            /\ SF_vars(PostedReset)
            /\ WF_vars(Retry)

-----------------------------------------------------------------------------

Sent == [from : Senders, err : ErrorClass, to : ConnectionState]

TypeOK ==
  /\ active \in Instance /\ dying \in Instance
  /\ todo \in Seq(Sent)
  /\ calling \in Profiles \cup {NoProfile}
  /\ activeProfile \in Profiles \cup {NoProfile}
  /\ lastError \in ErrorClass
  /\ ar \in Scheduler
  /\ posted \in Seq(Posters)
  /\ panel \in ConnectionState
  /\ button \in {"Connect", "Disconnect"}
  /\ autos \in Nat
  /\ stopped \in BOOLEAN /\ hopeless \in BOOLEAN /\ worked \in BOOLEAN

\* A retry never runs into a session: once the posted resets have run, a
\* pending retry timer means that m_active is null (every noteFailure of
\* onStateChanged is followed by destroyActiveSoon, and armFor stops the
\* timer before a new plugin starts to work).
PendingRetryHasNoSession ==
  Pending(ar) /\ Returned /\ posted = <<>> => active = NoPlugin

\* After disconnectActive nothing reconnects before the user asks for it,
\* whatever the plugins announce while they are torn down or destroyed.
UserStopIsFinal == stopped => ~ar.armed /\ ~Pending(ar)

\* The same after a failure isPermanentError recognises, even when the plugin
\* announces Disconnected after it or its destructor announces more.
PermanentFailureIsFinal == hopeless => ~ar.armed /\ ~Pending(ar)

\* Automatic attempts are bounded by the profile: after the user's connect, or
\* after the last session, at most reconnectMaxTries of them are started, and
\* one more when a plugin announced Connected after its Failed: noteSuccess
\* clears the counter and leaves the timer running.
RetriesAreBounded ==
  activeProfile # NoProfile => autos <= activeProfile.tries + 1

\* A working session has the whole budget in front of it when it drops.
SessionHasFullBudget == Connected => ar.attempt = 0

\* What the window shows is the live plugin's state, also after a plugin was
\* replaced while its destructor still announced states of its own.
WindowShowsSession ==
  Returned /\ active # NoPlugin => panel = active.state /\ button = Label(active.state)

\* A scheduled retry happens: it starts an attempt, unless the user steps in.
RetryHappens == Pending(ar) ~> (calling # NoProfile \/ stopped)

-----------------------------------------------------------------------------
(***************************************************************************)
(* What comments and documents say and the code does not do.               *)
(***************************************************************************)

\* MainWindow.cpp:517 "Single primary button morphs Connect (green) <->
\* Disconnect (red)": the label says what onPrimaryAction will do.
ButtonDoesWhatItSays == Returned => button = Label(active.state)

\* AutoReconnect.cpp:35 "auto-reconnect: giving up after %1 attempts": a
\* scheduler that has given up does not try again.
GivingUpIsFinal == ~ar.armed => ~Pending(ar)

\* CHANGELOG.md:154 "only unexpected drops of a previously-working session
\* trigger a reconnect".
OnlyDropsAreRetried == Pending(ar) => worked

\* AutoReconnect.cpp:15-16 "re-arming for the *same* profile (i.e. a retry),
\* preserve the attempt counter": a connect the user asks for is not a retry
\* and starts with a fresh counter.
UserConnectStartsAfresh ==
  [][calling # NoProfile /\ calling' = NoProfile /\ autos = 0 => ar'.attempt = 0]_vars
=============================================================================
