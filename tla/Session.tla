------------------------------ MODULE Session ------------------------------
(***************************************************************************)
(* One run of the SSL VPN backend: main of h3csvpn/cli.py and the          *)
(* SslVpnSession it drives, from the TLS connection to the exit code.      *)
(* Each request and its answer on the authentication connection is one     *)
(* step.  An answer that comes after its request was given up stays in the *)
(* connection, where the next request finds it (late).                     *)
(*                                                                         *)
(* The pump, Tunnel.run, is module Tunnel; here it only ends.              *)
(***************************************************************************)
EXTENDS Naturals

CONSTANTS
  MaxHops,       \* redirects followed from index.cgi: 10
  MaxGuard,      \* rounds of the challenge loop: 10
  Retries        \* opts.captcha_retries

ASSUME ConstantsAssumption ==
  /\ MaxHops \in Nat /\ MaxGuard \in Nat /\ Retries \in Nat \ {0}

Options == [preset : BOOLEAN,    \* --vldcode
            ocr    : BOOLEAN,    \* --auto-captcha, and tesseract is installed
            domain : BOOLEAN,    \* -d
            ead    : BOOLEAN,    \* --ead
            tunnel : BOOLEAN]    \* not --no-tunnel
Kinds == {"index", "domains", "image", "login", "challenge", "hostcheck"}
Results == {"success", "challenge", "verify", "refused"}

VARIABLES
  opts,
  pc,         \* where main is
  late,       \* the kind of an answer still in the connection, "none"
  saw,        \* saw_domainlist
  vldimg,     \* gw.support_vldimg
  hops, attempt, guard,
  result,     \* the LoginResult, "none" before one
  logins,     \* logins posted
  auth,       \* self.auth is set
  form,       \* how the gateway sent the network configuration, "none" before
  nic,        \* nic.open has been there, nic.close not yet
  loggedOut,  \* logout was requested
  interrupted, \* history: the places at which Ctrl-C came
  exit        \* the exit code, "none" before; "trace" for an uncaught exception

counts == <<hops, attempt, guard, logins>>
vars == <<opts, pc, late, saw, vldimg, counts, result, auth, form, nic, loggedOut,
          interrupted, exit>>

Init ==
  /\ opts \in Options
  /\ pc = "connect" /\ late = "none" /\ saw = FALSE /\ vldimg = FALSE
  /\ hops = 0 /\ attempt = 0 /\ guard = 0 /\ logins = 0
  /\ result = "none" /\ auth = FALSE /\ form = "none" /\ nic = FALSE
  /\ loggedOut = FALSE /\ interrupted = {} /\ exit = "none"

Ends(code) == pc' = "done" /\ exit' = code
Goes(to) == pc' = to /\ UNCHANGED exit

-----------------------------------------------------------------------------
(* Requests on the authentication connection.                              *)

\* The answer read: the one left over, if there is one, in place of one's own.
Reads(kind) == IF late = "none" THEN kind ELSE late
Leaves(kind) == late' = IF late = "none" THEN "none" ELSE kind

\* An OSError (the 30 s are over, the connection is lost) is caught by main, an
\* HTTPError is not.
Raises == \E code \in {"2", "trace"} : Ends(code)

RequestFails ==
  /\ pc \in Kinds \ {"domains"}
  /\ Raises
  /\ UNCHANGED <<opts, late, saw, vldimg, counts, result, auth, form, nic, loggedOut, interrupted>>

-----------------------------------------------------------------------------
(* authenticate                                                            *)

Connect ==
  /\ pc = "connect"
  /\ Goes("index") \/ Ends("2")
  /\ UNCHANGED <<opts, late, saw, vldimg, counts, result, auth, form, nic, loggedOut, interrupted>>

ToLogin(captcha) == Goes(IF captcha THEN "image" ELSE "login")

\* index.cgi and its redirects, one of which may name the domain list.
Index ==
  /\ pc = "index"
  /\ \/ /\ hops < MaxHops
        /\ hops' = hops + 1 /\ saw' \in {saw, TRUE}
        /\ UNCHANGED <<pc, vldimg, exit>>
     \/ /\ vldimg' \in BOOLEAN
        /\ IF saw \/ opts.domain THEN Goes("domains") ELSE ToLogin(vldimg')
        /\ UNCHANGED <<hops, saw>>
     \/ Ends("2") /\ UNCHANGED <<hops, saw, vldimg>>
  /\ UNCHANGED <<opts, late, attempt, guard, logins, result, auth, form, nic, loggedOut,
                 interrupted>>

\* Every exception is caught: after a timeout the answer is still to come.
Domains ==
  /\ pc = "domains"
  /\ late' \in {"none", "domains"}
  /\ ToLogin(vldimg)
  /\ UNCHANGED <<opts, saw, vldimg, counts, result, auth, form, nic, loggedOut, interrupted>>

\* The captcha loop is over: the last result goes on, if there is one.
LoopEnds == IF result = "none" THEN Ends("2") ELSE Goes("judge")

OutOfTries == attempt = Retries

\* A fresh image.  What is no image has no confident read.
Image ==
  /\ pc = "image"
  /\ IF OutOfTries THEN LoopEnds /\ UNCHANGED <<late, attempt>>
     ELSE /\ Leaves("image")
          /\ \/ /\ opts.preset \/ ~opts.ocr \/ Reads("image") = "image"
                /\ Goes("login") /\ UNCHANGED attempt
             \/ /\ ~opts.preset /\ opts.ocr
                /\ attempt' = attempt + 1 /\ UNCHANGED <<pc, exit>>
  /\ UNCHANGED <<opts, saw, vldimg, hops, guard, logins, result, auth, form, nic, loggedOut,
                 interrupted>>

\* Faulty variant: every login that is not accepted is tried with a fresh image.
TriesAgainAlways(r) == vldimg /\ r # "success" /\ ~opts.preset

\* The rejection names the captcha.
IsVerifyError(r) == r = "verify"

\* A preset code is tried once.
TriesAgain(r) == vldimg /\ IsVerifyError(r) /\ ~opts.preset

\* The login.  A domain list in place of the result holds no <result>; an image is
\* no XML, which nobody catches.
Login ==
  /\ pc = "login"
  /\ logins' = logins + 1 /\ Leaves("login")
  /\ IF Reads("login") = "image" THEN Ends("trace") /\ UNCHANGED <<attempt, result>>
     ELSE \E r \in IF Reads("login") = "login" THEN Results ELSE {"refused"} :
            /\ result' = r
            /\ IF TriesAgain(r) THEN Goes("image") /\ attempt' = attempt + 1
               ELSE Goes("judge") /\ UNCHANGED attempt
  /\ UNCHANGED <<opts, saw, vldimg, hops, guard, auth, form, nic, loggedOut, interrupted>>

\* Faulty variant: without the guard.
ChallengesOn == result = "challenge"

ChallengeGoesOn == result = "challenge" /\ guard < MaxGuard

\* The challenge loop, and what its result leads to.
Judge ==
  /\ pc = "judge"
  /\ IF ChallengeGoesOn THEN Goes("challenge") /\ UNCHANGED auth
     ELSE IF result # "success" THEN Ends("2") /\ UNCHANGED auth
     ELSE IF opts.ead THEN Goes("hostcheck") /\ UNCHANGED auth
     ELSE Goes("authenticated") /\ auth' = TRUE
  /\ UNCHANGED <<opts, late, saw, vldimg, counts, result, form, nic, loggedOut, interrupted>>

Challenge ==
  /\ pc = "challenge"
  /\ guard' = IF guard < MaxGuard THEN guard + 1 ELSE guard
  /\ Leaves("challenge")
  /\ result' \in IF Reads("challenge") = "challenge" THEN Results ELSE {"refused"}
  /\ Goes("judge")
  /\ UNCHANGED <<opts, saw, vldimg, hops, attempt, logins, auth, form, nic, loggedOut, interrupted>>

HostCheck ==
  /\ pc = "hostcheck"
  /\ Leaves("hostcheck") /\ auth' = TRUE
  /\ Goes("authenticated")
  /\ UNCHANGED <<opts, saw, vldimg, counts, result, form, nic, loggedOut, interrupted>>

-----------------------------------------------------------------------------
(* main after the login                                                    *)

\* Faulty variant: main returns without the logout.
JustEnds(code) == Ends(code) /\ UNCHANGED loggedOut

\* logout(), whose own failures are ignored, and the return of main.
LogsOutAndEnds(code) == loggedOut' = auth /\ Ends(code)

NoTunnel ==
  /\ pc = "authenticated" /\ ~opts.tunnel
  /\ LogsOutAndEnds("0")
  /\ UNCHANGED <<opts, late, saw, vldimg, counts, result, auth, form, nic, interrupted>>

\* open_tunnel.  The configuration is found in the body of the preamble or in a
\* frame; only an AuthError is caught.
OpenTunnel ==
  /\ pc = "authenticated" /\ opts.tunnel
  /\ \/ /\ form' \in {"body", "frame"}
        /\ Goes("opened") /\ UNCHANGED loggedOut
     \/ /\ form' \in {"header", "missing"}
        /\ LogsOutAndEnds("3")
     \/ UNCHANGED <<form, loggedOut>> /\ Ends("trace")
  /\ UNCHANGED <<opts, late, saw, vldimg, counts, result, auth, nic, interrupted>>

NoRoot ==
  /\ pc = "opened"
  /\ LogsOutAndEnds("4")
  /\ UNCHANGED <<opts, late, saw, vldimg, counts, result, auth, form, nic, interrupted>>

\* The gateway's address is looked up, found or not, and the try is entered.
EntersTry ==
  /\ pc = "opened"
  /\ Goes("configuring")
  /\ UNCHANGED <<opts, late, saw, vldimg, counts, result, auth, form, nic, loggedOut, interrupted>>

\* Any step of nic.open and nic.configure raises, before the device is there or after.
NicRaises == pc' = "cleaning" /\ nic' \in BOOLEAN /\ exit' = "trace"

\* nic.open and nic.configure; what they raise reaches the finally clause.
ConfigureNic ==
  /\ pc = "configuring"
  /\ \/ pc' = "running" /\ nic' = TRUE /\ UNCHANGED exit
     \/ NicRaises
  /\ UNCHANGED <<opts, late, saw, vldimg, counts, result, auth, form, loggedOut, interrupted>>

\* Tunnel.run returns when _stop is set (forced log-off, missed heartbeats), or raises
\* TunnelClosed or an OSError.
RunEnds ==
  /\ pc = "running"
  /\ pc' = "cleaning" /\ exit' \in {"0", "trace"}
  /\ UNCHANGED <<opts, late, saw, vldimg, counts, result, auth, form, nic, loggedOut, interrupted>>

\* Faulty variant: the finally clause forgets the gateway.
CleanUpLocally ==
  /\ pc = "cleaning"
  /\ nic' = FALSE /\ pc' = "done"
  /\ UNCHANGED <<opts, late, saw, vldimg, counts, result, auth, form, loggedOut, interrupted, exit>>

\* The finally clause: nic.close, then the logout.
CleanUp ==
  /\ pc = "cleaning"
  /\ IF nic THEN nic' = FALSE /\ UNCHANGED <<pc, loggedOut>>
     ELSE pc' = "done" /\ loggedOut' = auth /\ UNCHANGED nic
  /\ UNCHANGED <<opts, late, saw, vldimg, counts, result, auth, form, interrupted, exit>>

\* Where main catches KeyboardInterrupt: in the try.
Caught == {"configuring", "running"}

\* Ctrl-C: caught, the finally clause follows and main returns 0; anywhere else, and in
\* the finally clause, it ends the process.
Interrupt ==
  /\ pc # "done"
  /\ interrupted' = interrupted \cup {pc}
  /\ \/ /\ pc \in Caught
        /\ pc' = "cleaning" /\ exit' = "0"
        /\ IF pc = "running" THEN UNCHANGED nic ELSE nic' \in BOOLEAN
     \/ /\ pc \notin Caught
        /\ Ends("trace") /\ UNCHANGED nic
  /\ UNCHANGED <<opts, late, saw, vldimg, counts, result, auth, form, loggedOut>>

-----------------------------------------------------------------------------

Authenticate == \/ Connect \/ Index \/ Domains \/ Image \/ Login \/ Judge \/ Challenge
                \/ HostCheck \/ RequestFails
Main == NoTunnel \/ OpenTunnel \/ NoRoot \/ EntersTry \/ ConfigureNic \/ CleanUp

Next == Authenticate \/ Main \/ RunEnds \/ Interrupt

Spec == Init /\ [][Next]_vars

\* Every request is answered or times out.  A tunnel need not end.
FairSpec == Spec /\ WF_vars(Authenticate) /\ WF_vars(Main)

-----------------------------------------------------------------------------

TypeOK ==
  /\ opts \in Options
  /\ pc \in Kinds \cup {"connect", "judge", "authenticated", "opened", "configuring",
                        "running", "cleaning", "done"}
  /\ late \in {"none"} \cup Kinds
  /\ saw \in BOOLEAN /\ vldimg \in BOOLEAN /\ auth \in BOOLEAN /\ nic \in BOOLEAN
  /\ loggedOut \in BOOLEAN
  /\ hops \in 0..MaxHops /\ attempt \in 0..Retries /\ guard \in 0..MaxGuard
  /\ logins \in 0..Retries
  /\ result \in {"none"} \cup Results
  /\ form \in {"none", "body", "frame", "header", "missing"}
  /\ interrupted \subseteq Kinds \cup {"connect", "judge", "authenticated", "opened",
                                      "configuring", "running", "cleaning"}
  /\ exit \in {"none", "0", "2", "3", "4", "trace"}

\* session.py:371-372 "so we can retry the captcha without retrying the password": a
\* login follows another only if the gateway has said that the code was wrong, and a
\* fixed code is not tried again.
PasswordIsNotRetried ==
  [][logins' > logins /\ logins > 0 => result = "verify" /\ ~opts.preset]_vars

\* The exit codes mean what the plugin makes of them (SslVpnProtocol.cpp:318-325):
\* with 3 and 4 the login had succeeded and is ended, with 2 it had not.  The host
\* check is the exception: it fails after the login.
ExitCodesAreRight ==
  /\ exit \in {"3", "4"} => auth /\ loggedOut
  /\ exit = "2" => ~auth /\ ~nic /\ (result = "success" => opts.ead)

\* Once the gateway has given its configuration, the client ends only with the device
\* closed and the gateway asked to end the session: when root is missing, when opening,
\* configuring or running fails, and after the documented disconnect, a Ctrl-C in the try
\* (docs/USAGE.md:47-48).  Only a Ctrl-C before the try, or one more during the clean-up,
\* may leave something behind.  Whether the gateway hears the request is not known:
\* logout ignores its failure.
TunnelIsCleanedUp ==
  pc = "done" /\ form \in {"body", "frame"} /\ interrupted \subseteq Caught
    => ~nic /\ loggedOut

\* A login that goes wrong in any way is over at some point, and the loops of
\* redirects, captchas and challenges are too.
AuthenticationEnds == pc = "connect" ~> pc \in {"authenticated", "done"}

-----------------------------------------------------------------------------
(* What the documents say, and a run refutes.                              *)

\* docs/USAGE.md:47-48 "Press **Ctrl-C** to disconnect; the client logs out of the
\* gateway and tears the tunnel down cleanly.": whoever is logged in when the client
\* ends is logged out.
LogsOut == pc = "done" /\ auth => loggedOut

\* CHANGELOG.md:154 "only unexpected drops of a previously-working session trigger a
\* reconnect": a drop is told from a disconnect, which ends with 0.
DropIsAFailure == pc = "done" /\ exit = "0" /\ opts.tunnel => interrupted # {}

\* CHANGELOG.md:155-159 "returns the tunnel's network-config block in the
\* `NET_EXTEND` *HTTP response headers* ... it now parses the header form too".
HeaderConfigIsRead == exit = "3" => form # "header"

\* session.py:154 "domain list is best-effort": without one the login still gets the
\* answer to its own request.
DomainListIsBestEffort == pc \in {"image", "login"} => Reads(pc) = pc
=============================================================================
