--------------------------- MODULE AutoReconnect ---------------------------
(***************************************************************************)
(* The reconnect scheduler of src/src/core/AutoReconnect.cpp, as functions *)
(* from its state to its state.  The scheduler's owner (MainWindow) calls  *)
(* several of them inside one handler, so they are written as operators on *)
(* the scheduler's record and not as actions; MainWindow composes them     *)
(* with the protocol plugins.                                              *)
(***************************************************************************)
EXTENDS Naturals

CONSTANTS
  Profiles,    \* connection profiles: [id, kind, auto, tries, backoff] records;
               \* two with one id are two versions of an edited profile
  NoProfile    \* the default-constructed profile no handler has replaced yet

(***************************************************************************)
(* What the profile editor lets through (ui/ProfileEditor.cpp:302-307):    *)
(* 0..100 tries, a first backoff of 1..600 seconds.                        *)
(***************************************************************************)
ASSUME ProfilesAssumption ==
  /\ NoProfile \notin Profiles
  /\ \A p \in Profiles : /\ p.auto \in BOOLEAN
                         /\ p.tries \in 0..100
                         /\ p.backoff \in 1..600

-----------------------------------------------------------------------------

\* m_profile, m_armed, m_attempt and the single-shot m_timer: a delay of 0 is
\* a stopped timer, any other value the seconds it was last started with.
Scheduler == [profile : Profiles \cup {NoProfile},
              armed   : BOOLEAN,
              attempt : 0..100,
              delay   : 0..60]

InitScheduler ==
  [profile |-> NoProfile, armed |-> FALSE, attempt |-> 0, delay |-> 0]

Pending(ar) == ar.delay > 0

SameProfile(ar, p) == ar.profile # NoProfile /\ ar.profile.id = p.id

\* Faulty variants: the timer is left running; the counter starts again with
\* every attempt, the mistake the comment at :15-16 warns of.
ArmKeepsTimer(ar, p) ==
  [profile |-> p, armed |-> p.auto, delay |-> ar.delay,
   attempt |-> IF SameProfile(ar, p) THEN ar.attempt ELSE 0]
ArmForgets(ar, p) == [profile |-> p, armed |-> p.auto, attempt |-> 0, delay |-> 0]

ArmFor(ar, p) ==
  [profile |-> p,
   armed   |-> p.auto,
   attempt |-> IF SameProfile(ar, p) THEN ar.attempt ELSE 0,
   delay   |-> 0]

\* Faulty variant: the scheduler stays armed.
CancelStaysArmed(ar) == [ar EXCEPT !.attempt = 0, !.delay = 0]

Cancel(ar) == [profile |-> ar.profile, armed |-> FALSE, attempt |-> 0, delay |-> 0]

\* Faulty variant: the count of failures survives a success.
NoteSuccessKeeps(ar) == ar

NoteSuccess(ar) == [ar EXCEPT !.attempt = 0]

\* 1 << min(4, attempt - 1): the factor of the n-th attempt.
Doubling(n) == IF n <= 1 THEN 1
               ELSE IF n = 2 THEN 2
               ELSE IF n = 3 THEN 4
               ELSE IF n = 4 THEN 8 ELSE 16

\* Seconds before the n-th attempt, from a first backoff of b seconds.
Delay(b, n) == LET d == b * Doubling(n) IN IF d < 60 THEN d ELSE 60

NoteFailure(ar) ==
  IF ~ar.armed THEN ar
  ELSE IF ar.attempt >= ar.profile.tries THEN [ar EXCEPT !.armed = FALSE]
  ELSE [ar EXCEPT !.attempt = ar.attempt + 1,
                  !.delay   = Delay(ar.profile.backoff, ar.attempt + 1)]

\* The timer elapses: QTimer emits timeout, AutoReconnect emits retry.
Fired(ar) == [ar EXCEPT !.delay = 0]
=============================================================================
