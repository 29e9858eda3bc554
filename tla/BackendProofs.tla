--------------------------- MODULE BackendProofs ---------------------------
(***************************************************************************)
(* The SSL VPN backend: one run of it (Session), and what its runs, one    *)
(* after another, do to resolv.conf (ResolvConf).  The two share no        *)
(* variable; a run of Session goes through the program of ResolvConf in    *)
(* nic.configure and nic.close.                                            *)
(***************************************************************************)
EXTENDS Session, ResolvConf, TLAPS

-----------------------------------------------------------------------------
(***************************************************************************)
(* Session, for any limits of its loops.                                   *)
(***************************************************************************)
\* Where main still is before the login has succeeded, and where after it.
BeforeLogin == Kinds \cup {"connect", "judge"}
AfterLogin == {"authenticated", "opened", "configuring", "running", "cleaning"}

\* self.auth is set with the success of the login, and undone by no step.
AuthMatches == /\ pc \in BeforeLogin => ~auth
               /\ pc \in AfterLogin \/ form \in {"body", "frame"} => auth

\* The configuration comes with the tunnel, and the device after it.
DeviceMatches == /\ pc \in BeforeLogin \cup {"authenticated"} => form = "none"
                 /\ pc \in {"opened", "configuring", "running", "cleaning"}
                      => form \in {"body", "frame"}
                 /\ nic => pc \in {"running", "cleaning", "done"}

\* Only the finally clause and the end of main know an exit code.
ExitIsLast == /\ pc \notin {"cleaning", "done"} => exit = "none" /\ ~loggedOut
              /\ pc = "cleaning" => exit \in {"0", "trace"}

\* What the last answer was, at each request that follows it.
ResultMatches ==
  /\ pc \in {"connect", "index", "domains"} => result = "none"
  /\ pc \in {"image", "login"} => result \in {"none", "verify"}
  /\ pc = "challenge" => result = "challenge"
  /\ pc = "hostcheck" => result = "success" /\ opts.ead
  /\ pc = "judge" => result # "none"

\* A try of the captcha loop is used up for each login, before the next one.
TriesMatch ==
  /\ pc \in {"connect", "index", "domains"} => attempt = 0 /\ logins = 0
  /\ pc \in {"image", "login"} => logins <= attempt
  /\ pc = "login" => attempt < Retries

\* Behind a login there is no second one but for a wrong captcha.
RepeatedForCaptcha ==
  pc \in {"image", "login"} /\ logins > 0 => result = "verify" /\ ~opts.preset

(***************************************************************************)
(* The inductive invariant.  ExitCodesAreRight needs where the session is  *)
(* at each exit (AuthMatches, ExitIsLast) and, for code 2, which result    *)
(* can be there (ResultMatches); TunnelIsCleanedUp needs the device        *)
(* (DeviceMatches); the bound on the logins needs TriesMatch.              *)
(***************************************************************************)
SessionInv ==
  /\ TypeOK /\ AuthMatches /\ DeviceMatches /\ ExitIsLast /\ ResultMatches
  /\ TriesMatch /\ RepeatedForCaptcha
  /\ ExitCodesAreRight /\ TunnelIsCleanedUp

-----------------------------------------------------------------------------
\* TypeOK in the three parts the proof takes it in.
TypePlace ==
  /\ opts \in Options
  /\ pc \in BeforeLogin \cup AfterLogin \cup {"done"}
  /\ late \in {"none"} \cup Kinds
  /\ result \in {"none"} \cup Results
  /\ form \in {"none", "body", "frame", "header", "missing"}
  /\ exit \in {"none", "0", "2", "3", "4", "trace"}
TypeFlags == /\ saw \in BOOLEAN /\ vldimg \in BOOLEAN /\ auth \in BOOLEAN
             /\ nic \in BOOLEAN /\ loggedOut \in BOOLEAN
TypeCounts == /\ hops \in 0..MaxHops /\ attempt \in 0..Retries /\ guard \in 0..MaxGuard
              /\ logins \in 0..Retries
              /\ interrupted \subseteq BeforeLogin \cup AfterLogin

LEMMA TypeParts == TypeOK <=> TypePlace /\ TypeFlags /\ TypeCounts
  BY DEF TypeOK, TypePlace, TypeFlags, TypeCounts, BeforeLogin, AfterLogin

LEMMA InitSession == Init => SessionInv
<1> SUFFICES ASSUME Init PROVE SessionInv
  OBVIOUS
<1>1. TypePlace /\ TypeFlags
  BY DEF Init, TypePlace, TypeFlags, BeforeLogin
<1>2. TypeCounts /\ TriesMatch
  BY ConstantsAssumption DEF Init, TypeCounts, TriesMatch
<1>3. AuthMatches /\ DeviceMatches /\ ExitIsLast
  BY DEF Init, AuthMatches, DeviceMatches, ExitIsLast, AfterLogin
<1>4. ResultMatches /\ RepeatedForCaptcha /\ ExitCodesAreRight /\ TunnelIsCleanedUp
  BY DEF Init, ResultMatches, RepeatedForCaptcha, ExitCodesAreRight, TunnelIsCleanedUp
<1> QED
  BY <1>1, <1>2, <1>3, <1>4, TypeParts DEF SessionInv


LEMMA StepPlaces == ASSUME TypePlace, Next PROVE TypePlace'
<1> USE DEF TypePlace, BeforeLogin, AfterLogin, Kinds, Results, Ends, Goes
<1>1. CASE Connect \/ Index \/ Domains \/ RequestFails
  BY <1>1, ZenonT(60) DEF Connect, Index, Domains, RequestFails, ToLogin, Raises
<1>2. CASE Image
  BY <1>2 DEF Image, LoopEnds, Leaves
<1>3. CASE Login
  BY <1>3 DEF Login, Leaves
<1>4. CASE Judge
  BY <1>4 DEF Judge
<1>5. CASE Challenge \/ HostCheck
  BY <1>5 DEF Challenge, HostCheck, Leaves
<1>6. CASE Main \/ RunEnds \/ Interrupt
  BY <1>6 DEF Main, NoTunnel, OpenTunnel, NoRoot, EntersTry, ConfigureNic, NicRaises, CleanUp,
              RunEnds, Interrupt, LogsOutAndEnds
<1> QED
  BY <1>1, <1>2, <1>3, <1>4, <1>5, <1>6 DEF Next, Authenticate

LEMMA StepFlags == ASSUME TypeFlags, Next PROVE TypeFlags'
<1> USE DEF TypeFlags
<1>1. CASE Index
  BY <1>1, Zenon DEF Index
<1>2. CASE Connect \/ Domains \/ Image \/ Login \/ Challenge \/ RequestFails
  BY <1>2 DEF Connect, Domains, Image, Login, Challenge, RequestFails
<1>3. CASE Judge \/ HostCheck
  BY <1>3, Zenon DEF Judge, HostCheck
<1>4. CASE Main
  <2>1. saw' = saw /\ vldimg' = vldimg /\ auth' = auth /\ nic' \in {nic, TRUE, FALSE}
        /\ loggedOut' \in {loggedOut, auth}
    BY <1>4, Zenon DEF Main, NoTunnel, OpenTunnel, NoRoot, EntersTry, ConfigureNic, NicRaises,
                         CleanUp, LogsOutAndEnds
  <2> QED
    BY <2>1
<1>5. CASE RunEnds \/ Interrupt
  BY <1>5 DEF RunEnds, Interrupt
<1> QED
  BY <1>1, <1>2, <1>3, <1>4, <1>5 DEF Next, Authenticate

\* The steps before the login.
LEMMA StepsBefore ==
  ASSUME Connect \/ Index \/ Domains
  PROVE  /\ pc \in {"connect", "index", "domains"}
         /\ UNCHANGED <<opts, attempt, guard, logins, interrupted, result, auth, form, nic,
                        loggedOut>>
         /\ \/ pc' \in {"index", "domains", "image", "login"} /\ exit' = exit
            \/ pc' = "done" /\ exit' = "2"
<1> USE DEF Goes, Ends, ToLogin
<1>1. CASE Connect \/ Domains
  BY <1>1 DEF Connect, Domains, counts
<1>2. CASE Index
  <2>1. \/ UNCHANGED <<pc, exit>>
        \/ Goes("domains") \/ Goes("image") \/ Goes("login")
        \/ Ends("2")
    BY <1>2, Zenon DEF Index
  <2> QED
    BY <1>2, <2>1 DEF Index
<1> QED
  BY <1>1, <1>2

\* The loops of the login.
LEMMA StepCounts ==
  ASSUME TypePlace, TypeCounts, TriesMatch, Next PROVE TypeCounts' /\ TriesMatch'
<1> USE ConstantsAssumption DEF TypeCounts, TriesMatch, counts, Goes, Ends
<1>1. CASE Connect \/ Index \/ Domains
  <2>1. hops' \in 0..MaxHops /\ guard' = guard
    <3>1. guard' = guard /\ (hops' = hops \/ (hops < MaxHops /\ hops' = hops + 1))
      BY <1>1 DEF Connect, Index, Domains, counts
    <3> QED
      BY <3>1
  <2> QED
    BY <1>1, <2>1, StepsBefore
<1>2. CASE RequestFails
  BY <1>2 DEF RequestFails, Raises
<1>3. CASE Image
  BY <1>3 DEF Image, OutOfTries, LoopEnds
<1>4. CASE Login
  BY <1>4 DEF Login
<1>5. CASE Judge \/ Challenge \/ HostCheck
  BY <1>5 DEF Judge, Challenge, HostCheck
<1>6. CASE Main \/ RunEnds
  BY <1>6 DEF Main, NoTunnel, OpenTunnel, NoRoot, EntersTry, ConfigureNic, NicRaises, CleanUp,
              RunEnds, LogsOutAndEnds
<1>7. CASE Interrupt
  BY <1>7 DEF Interrupt, Caught, TypePlace
<1> QED
  BY <1>1, <1>2, <1>3, <1>4, <1>5, <1>6, <1>7 DEF Next, Authenticate

\* Where the exit code, the session and the device come from.
LEMMA StepPlace ==
  ASSUME TypePlace, AuthMatches, DeviceMatches, ExitIsLast, Next
  PROVE  AuthMatches' /\ DeviceMatches' /\ ExitIsLast'
<1> USE DEF TypePlace, AuthMatches, DeviceMatches, ExitIsLast, BeforeLogin, AfterLogin, Kinds,
            Goes, Ends
<1>1. CASE Connect \/ Index \/ Domains
  BY <1>1, StepsBefore
<1>2. CASE Image \/ Login \/ Challenge \/ RequestFails
  BY <1>2 DEF Image, Login, Challenge, RequestFails, Raises, LoopEnds
<1>3. CASE Judge \/ HostCheck
  BY <1>3 DEF Judge, HostCheck
<1>4. CASE NoTunnel \/ NoRoot \/ RunEnds
  BY <1>4 DEF NoTunnel, NoRoot, RunEnds, LogsOutAndEnds
<1>5. CASE OpenTunnel
  <2>1. /\ pc = "authenticated" /\ auth' = auth /\ nic' = nic
        /\ \/ pc' = "opened" /\ form' \in {"body", "frame"} /\ UNCHANGED <<exit, loggedOut>>
           \/ pc' = "done" /\ form' \in {form, "header", "missing"}
    BY <1>5, Zenon DEF OpenTunnel, LogsOutAndEnds
  <2> QED
    BY <2>1
<1>6. CASE EntersTry \/ ConfigureNic \/ CleanUp
  BY <1>6 DEF EntersTry, ConfigureNic, NicRaises, CleanUp
<1>7. CASE Interrupt
  BY <1>7 DEF Interrupt, Caught
<1> QED
  BY <1>1, <1>2, <1>3, <1>4, <1>5, <1>6, <1>7 DEF Next, Authenticate, Main

\* The result at each request of the login.
LEMMA StepResult ==
  ASSUME TypePlace, TypeCounts, TriesMatch, ResultMatches, RepeatedForCaptcha, Next
  PROVE  ResultMatches' /\ RepeatedForCaptcha'
<1> USE DEF TypePlace, ResultMatches, RepeatedForCaptcha, BeforeLogin, AfterLogin, Kinds, Goes, Ends
<1>1. CASE Connect \/ Index \/ Domains
  BY <1>1, StepsBefore DEF TriesMatch
<1>2. CASE RequestFails
  BY <1>2 DEF RequestFails, Raises, counts
<1>3. CASE Image
  BY <1>3 DEF Image, LoopEnds
<1>4. CASE Login
  BY <1>4 DEF Login, TriesAgain, IsVerifyError, Results
<1>5. CASE Judge \/ Challenge \/ HostCheck
  BY <1>5 DEF Judge, Challenge, HostCheck, ChallengeGoesOn, Results
<1>6. CASE Main \/ RunEnds \/ Interrupt
  BY <1>6 DEF Main, NoTunnel, OpenTunnel, NoRoot, EntersTry, ConfigureNic, NicRaises, CleanUp,
              RunEnds, Interrupt, LogsOutAndEnds, counts
<1> QED
  BY <1>1, <1>2, <1>3, <1>4, <1>5, <1>6 DEF Next, Authenticate

\* Nothing happens after the end.
LEMMA DoneIsLast == ASSUME Next PROVE pc # "done"
  BY DEF Next, Authenticate, Main, Connect, Index, Domains, Image, Login, Judge, Challenge,
         HostCheck, RequestFails, Kinds, NoTunnel, OpenTunnel, NoRoot, EntersTry, ConfigureNic,
         CleanUp, RunEnds, Interrupt

LEMMA StepExit == ASSUME SessionInv, Next PROVE ExitCodesAreRight'
<1> USE DEF ExitCodesAreRight, Goes, Ends
<1>1. exit \notin {"2", "3", "4"}
  BY DoneIsLast DEF SessionInv, ExitIsLast
<1>2. CASE Connect \/ Index \/ Domains
  BY <1>1, <1>2, StepsBefore DEF SessionInv, AuthMatches, DeviceMatches, ResultMatches,
                                 BeforeLogin, Kinds
<1>3. CASE Image \/ RequestFails \/ Judge
  <2>1. pc \in {"image", "judge"} \cup (Kinds \ {"domains"}) /\ ~auth /\ ~nic
    BY <1>3 DEF Image, RequestFails, Judge, SessionInv, AuthMatches, DeviceMatches, BeforeLogin,
                Kinds
  <2>2. nic' = nic /\ opts' = opts /\ result' = result /\ exit' \in {exit, "2", "trace"}
        /\ (exit' = "2" => auth' = auth)
    BY <1>1, <1>3, Zenon DEF Image, LoopEnds, RequestFails, Raises, Judge
  <2>3. exit' = "2" /\ result = "success" => opts.ead
    BY <1>1, <1>3 DEF Image, LoopEnds, RequestFails, Judge, SessionInv, ResultMatches, Kinds
  <2> QED
    BY <1>1, <2>1, <2>2, <2>3
<1>4. CASE Login \/ Challenge \/ HostCheck \/ RunEnds \/ Interrupt \/ EntersTry \/ ConfigureNic
           \/ CleanUp
  <2>1. exit' \in {exit, "0", "trace"}
    BY <1>4, Zenon DEF Login, Challenge, HostCheck, RunEnds, Interrupt, EntersTry, ConfigureNic,
                       NicRaises, CleanUp
  <2> QED
    BY <1>1, <2>1
<1>5. CASE NoTunnel \/ OpenTunnel \/ NoRoot
  <2>1. auth /\ ~nic
    BY <1>5 DEF NoTunnel, OpenTunnel, NoRoot, SessionInv, AuthMatches, DeviceMatches, AfterLogin
  <2>2. auth' = auth /\ (exit' \in {exit, "trace"} \/ (exit' # "2" /\ loggedOut' = auth))
    <3>1. CASE NoTunnel \/ NoRoot
      BY <3>1 DEF NoTunnel, NoRoot, LogsOutAndEnds
    <3>2. CASE OpenTunnel
      <4>1. exit' \in {exit, "trace"} \/ (exit' = "3" /\ loggedOut' = auth)
        BY <3>2, Zenon DEF OpenTunnel, LogsOutAndEnds
      <4> QED
        BY <3>2, <4>1 DEF OpenTunnel
    <3> QED
      BY <1>5, <3>1, <3>2
  <2> QED
    BY <1>1, <2>1, <2>2
<1> QED
  BY <1>2, <1>3, <1>4, <1>5 DEF Next, Authenticate, Main

LEMMA StepClean == ASSUME SessionInv, Next PROVE TunnelIsCleanedUp'
<1> SUFFICES ASSUME pc' = "done", form' \in {"body", "frame"}, interrupted' \subseteq Caught
             PROVE  ~nic' /\ loggedOut'
  BY DEF TunnelIsCleanedUp
<1>1. pc # "done" /\ TypePlace /\ TypeCounts
  BY DoneIsLast, TypeParts DEF SessionInv
<1>2. CASE NoRoot \/ CleanUp
  <2>1. auth /\ pc \in {"opened", "cleaning"}
    BY <1>2 DEF NoRoot, CleanUp, SessionInv, AuthMatches, AfterLogin
  <2> QED
    BY <1>2, <2>1 DEF NoRoot, CleanUp, LogsOutAndEnds, SessionInv, DeviceMatches
<1>3. CASE Interrupt
  BY <1>1, <1>3 DEF Interrupt, Ends, Caught
<1>4. CASE Authenticate \/ NoTunnel
  <2>1. form = "none" /\ form' = form
    BY <1>4 DEF Authenticate, Connect, Index, Domains, Image, Login, Judge, Challenge, HostCheck,
                RequestFails, NoTunnel, SessionInv, DeviceMatches, BeforeLogin, Kinds
  <2> QED
    BY <2>1
<1>5. CASE OpenTunnel \/ EntersTry \/ ConfigureNic \/ RunEnds
  BY <1>5 DEF OpenTunnel, Goes, EntersTry, ConfigureNic, NicRaises, RunEnds, SessionInv,
              DeviceMatches
<1> QED
  BY <1>2, <1>3, <1>4, <1>5 DEF Next, Main

LEMMA StepSession == ASSUME SessionInv, [Next]_vars PROVE SessionInv'
<1>1. CASE Next
  <2>1. TypePlace /\ TypeFlags /\ TypeCounts
    BY TypeParts DEF SessionInv
  <2>2. TypeOK' /\ TriesMatch'
    <3>1. TypePlace' /\ TypeFlags' /\ TypeCounts' /\ TriesMatch'
      BY <1>1, <2>1, StepPlaces, StepFlags, StepCounts DEF SessionInv
    <3> QED
      BY <3>1 DEF TypeOK, TypePlace, TypeFlags, TypeCounts, BeforeLogin, AfterLogin
  <2>3. AuthMatches' /\ DeviceMatches' /\ ExitIsLast'
    BY <1>1, <2>1, StepPlace DEF SessionInv
  <2>4. ResultMatches' /\ RepeatedForCaptcha'
    BY <1>1, <2>1, StepResult DEF SessionInv
  <2> QED
    BY <1>1, <2>2, <2>3, <2>4, StepExit, StepClean DEF SessionInv
<1>2. CASE UNCHANGED vars
  BY <1>2 DEF SessionInv, TypeOK, AuthMatches, DeviceMatches, ExitIsLast, ResultMatches, TriesMatch,
              RepeatedForCaptcha, ExitCodesAreRight, TunnelIsCleanedUp, vars, counts
<1> QED
  BY <1>1, <1>2

LEMMA SessionInductive == Spec => []SessionInv
  BY InitSession, StepSession, PTL DEF Spec

\* Type correctness of the backend for any limits of its loops: no login is posted beyond
\* the tries of the captcha loop.
THEOREM TypeCorrect == Spec => []TypeOK
  BY SessionInductive, PTL DEF SessionInv

\* What the plugin makes of the exit codes is true, whichever request fails and however.
THEOREM ExitCodes == Spec => []ExitCodesAreRight
  BY SessionInductive, PTL DEF SessionInv

\* Once the gateway has given its configuration, main ends with the device closed and the
\* logout requested, whatever fails in the try or interrupts it.
THEOREM CleanedUp == Spec => []TunnelIsCleanedUp
  BY SessionInductive, PTL DEF SessionInv

\* The password is posted again only for a wrong captcha, also when late answers are taken
\* for those of other requests.
THEOREM PasswordNotRetried == Spec => PasswordIsNotRetried
<1>1. SessionInv /\ [Next]_vars
        => [logins' > logins /\ logins > 0 => result = "verify" /\ ~opts.preset]_vars
  <2> SUFFICES ASSUME SessionInv, Next, logins' > logins, logins > 0
               PROVE  result = "verify" /\ ~opts.preset
    OBVIOUS
  <2>1. TypeCounts
    BY TypeParts DEF SessionInv
  <2>2. Login \/ logins' = logins
    BY DEF counts, Next, Authenticate, Main, Connect, Index, Domains, Image, Judge, Challenge,
           HostCheck, RequestFails, NoTunnel, OpenTunnel, NoRoot, EntersTry, ConfigureNic, CleanUp,
           RunEnds, Interrupt
  <2> QED
    BY <2>1, <2>2 DEF TypeCounts, Login, SessionInv, RepeatedForCaptcha
<1> QED
  BY <1>1, SessionInductive, PTL DEF Spec, PasswordIsNotRetried

-----------------------------------------------------------------------------
(***************************************************************************)
(* ResolvConf: with backends that run one after another, and a stale file  *)
(* that can be restored, the user's resolv.conf survives every             *)
(* interleaving with SIGKILL.                                              *)
(***************************************************************************)
\* What a backup of the untouched file holds: a missing file counts as empty.
Saved == IF original = "user" THEN "user" ELSE "empty"
Untouched == resolv \in {original, Saved}

\* Only one backend runs.
OneRuns == \A s, t \in Sessions : at[s] # "out" /\ at[t] # "out" => s = t

\* Our file is there only while the backup holds the user's.
FilesOK == Untouched \/ (resolv = "ours" /\ bak = Saved)

\* What a backend knows where it is.
BackendOK(s) ==
  /\ at[s] = "fetch" => resolv = "ours"
  /\ at[s] = "restore" => resolv = "ours" /\ held[s] = Saved
  /\ at[s] \in {"read", "open", "write", "replace"} => Untouched
  /\ at[s] \in {"open", "write", "replace"} => held[s] = Saved
  /\ at[s] = "replace" => bak = Saved
  /\ at[s] = "up" /\ changed[s] => bak = Saved
  /\ at[s] = "putback" => held[s] = Saved /\ bak = Saved
  /\ at[s] = "unlink" => Untouched

FilesInv == FilesTypeOK /\ OneRuns /\ FilesOK /\ \A s \in Sessions : BackendOK(s)

-----------------------------------------------------------------------------

\* Every step of FilesNext is one of these, of one backend.
LEMMA InitFiles == FilesInit => FilesInv
BY DEF FilesInit, FilesInv, FilesTypeOK, OneRuns, FilesOK, BackendOK, Untouched, Saved, Contents

\* Types.
LEMMA StepFilesType == ASSUME FilesTypeOK, NEW s \in Sessions, Program(s) \/ End(s)
                  PROVE  FilesTypeOK'
<1> USE DEF At, Moves, Holds, SetChanged, AtomicWrite, files, Contents, FilesTypeOK
<1>1. CASE Start(s)
  BY <1>1 DEF Start
<1>2. CASE Check(s)
  BY <1>2 DEF Check
<1>3. CASE Fetch(s)
  BY <1>3 DEF Fetch
<1>4. CASE Restore(s)
  BY <1>4 DEF Restore
<1>5. CASE ReadOriginal(s)
  BY <1>5 DEF ReadOriginal
<1>6. CASE OpenBackup(s)
  BY <1>6 DEF OpenBackup
<1>7. CASE WriteBackup(s)
  BY <1>7 DEF WriteBackup
<1>8. CASE Replace(s)
  BY <1>8 DEF Replace
<1>9. CASE Close(s)
  BY <1>9 DEF Close
<1>10. CASE PutBack(s)
  BY <1>10 DEF PutBack
<1>11. CASE Unlink(s)
  BY <1>11 DEF Unlink
<1>12. CASE Killed(s)
  BY <1>12 DEF Killed
<1> QED
  BY <1>1, <1>2, <1>3, <1>4, <1>5, <1>6, <1>7, <1>8, <1>9, <1>10, <1>11, <1>12
  DEF Program, End

\* A backend starts only when no other runs, and a step moves one backend.
LEMMA StepOneRuns == ASSUME ~Overlap, FilesTypeOK, OneRuns, NEW s \in Sessions, Program(s) \/ End(s)
                     PROVE  OneRuns'
<1>1. \A t \in Sessions : t # s => at'[t] = at[t]
  BY DEF Program, End, Start, Check, Fetch, Restore, ReadOriginal, OpenBackup, WriteBackup,
         Replace, Close, PutBack, Unlink, Killed, Moves, FilesTypeOK
<1>2. CASE Start(s)
  BY <1>1, <1>2 DEF Start, OneRuns
<1>3. CASE ~Start(s)
  <2>1. at[s] # "out"
    BY <1>3 DEF Program, End, Check, Fetch, Restore, ReadOriginal, OpenBackup, WriteBackup,
                Replace, Close, PutBack, Unlink, Killed, At
  <2> QED
    BY <1>1, <2>1 DEF OneRuns
<1> QED
  BY <1>2, <1>3

\* The backend that moves finds the files as it expects them and leaves them so.
LEMMA StepMover == ASSUME ~RestoreFails, FilesInv, NEW s \in Sessions, Program(s) \/ End(s)
                   PROVE  FilesOK' /\ BackendOK(s)'
<1> USE DEF FilesInv, At, Moves, Holds, SetChanged, AtomicWrite, files, FilesOK, BackendOK,
            Untouched, Saved, FilesTypeOK, Contents
<1>1. CASE Start(s)
  BY <1>1 DEF Start
<1>2. CASE Check(s)
  BY <1>2 DEF Check
<1>3. CASE Fetch(s)
  BY <1>3 DEF Fetch
<1>4. CASE Restore(s)
  BY <1>4 DEF Restore
<1>5. CASE ReadOriginal(s)
  BY <1>5 DEF ReadOriginal
<1>6. CASE OpenBackup(s)
  BY <1>6 DEF OpenBackup
<1>7. CASE WriteBackup(s)
  BY <1>7 DEF WriteBackup
<1>8. CASE Replace(s)
  BY <1>8 DEF Replace
<1>9. CASE Close(s)
  BY <1>9 DEF Close
<1>10. CASE PutBack(s)
  BY <1>10 DEF PutBack
<1>11. CASE Unlink(s)
  BY <1>11 DEF Unlink
<1>12. CASE Killed(s)
  BY <1>12 DEF Killed
<1> QED
  BY <1>1, <1>2, <1>3, <1>4, <1>5, <1>6, <1>7, <1>8, <1>9, <1>10, <1>11, <1>12
  DEF Program, End

\* The backends that do not move are out, and expect nothing.
LEMMA StepOthers == ASSUME ~Overlap, FilesInv, NEW s \in Sessions, Program(s) \/ End(s),
                           NEW t \in Sessions, t # s
                    PROVE  BackendOK(t)'
<1>1. at'[t] = at[t]
  BY DEF FilesInv, FilesTypeOK, Program, End, Start, Check, Fetch, Restore, ReadOriginal,
         OpenBackup, WriteBackup, Replace, Close, PutBack, Unlink, Killed, Moves
<1>2. at[t] = "out"
  <2>1. CASE Start(s)
    BY <2>1 DEF Start
  <2>2. CASE ~Start(s)
    BY <2>2 DEF FilesInv, OneRuns, Program, End, Check, Fetch, Restore, ReadOriginal, OpenBackup,
                WriteBackup, Replace, Close, PutBack, Unlink, Killed, At
  <2> QED
    BY <2>1, <2>2
<1> QED
  BY <1>1, <1>2 DEF BackendOK

LEMMA NextFiles == ASSUME ~Overlap, ~RestoreFails, FilesInv, [FilesNext]_filesVars PROVE FilesInv'
<1>1. ASSUME NEW s \in Sessions, Program(s) \/ End(s) PROVE FilesInv'
  <2>1. FilesTypeOK' /\ OneRuns'
    BY <1>1, StepFilesType, StepOneRuns DEF FilesInv
  <2>2. FilesOK' /\ BackendOK(s)'
    BY <1>1, StepMover
  <2>3. \A t \in Sessions : t # s => BackendOK(t)'
    BY <1>1, StepOthers
  <2> QED
    BY <2>1, <2>2, <2>3 DEF FilesInv
<1>2. ASSUME UNCHANGED filesVars PROVE FilesInv'
  BY <1>2 DEF FilesInv, FilesTypeOK, OneRuns, FilesOK, BackendOK, Untouched, Saved, filesVars, files
<1> QED
  BY <1>1, <1>2 DEF FilesNext

THEOREM FilesInductive == ASSUME ~Overlap, ~RestoreFails PROVE FilesSpec => []FilesInv
BY InitFiles, NextFiles, PTL DEF FilesSpec

-----------------------------------------------------------------------------

\* Type correctness, whatever runs at once and whatever fails.
THEOREM FilesTypeCorrect == FilesSpec => []FilesTypeOK
<1>1. FilesInit => FilesTypeOK
  BY DEF FilesInit, FilesTypeOK, Contents
<1>2. FilesTypeOK /\ [FilesNext]_filesVars => FilesTypeOK'
  BY StepFilesType DEF FilesNext, filesVars, files, FilesTypeOK
<1> QED
  BY <1>1, <1>2, PTL DEF FilesSpec

\* The user's file is in resolv.conf or in its backup at every moment, for any number
\* of backends that follow each other and wherever each is killed.
THEOREM OriginalKept == ASSUME ~Overlap, ~RestoreFails PROVE FilesSpec => []OriginalIsKept
<1>1. FilesInv => OriginalIsKept
  BY DEF FilesInv, FilesOK, Untouched, Saved, OriginalIsKept
<1> QED
  BY <1>1, FilesInductive, PTL

\* The backup is removed only when resolv.conf is no longer ours.
THEOREM BackupOutlives == ASSUME ~Overlap, ~RestoreFails PROVE FilesSpec => BackupOutlivesOurs
<1>1. FilesInv /\ [FilesNext]_filesVars
        => [bak # "none" /\ bak' = "none" => resolv # "ours"]_filesVars
  <2> SUFFICES ASSUME FilesInv, NEW s \in Sessions, Program(s) \/ End(s),
                      bak # "none", bak' = "none"
               PROVE  resolv # "ours"
    BY DEF FilesNext
  <2>1. bak' = bak \/ bak' = "empty" \/ bak' = held[s] \/ Unlink(s)
    BY DEF Program, End, Start, Check, Fetch, Restore, ReadOriginal, OpenBackup, WriteBackup,
           Replace, Close, PutBack, Killed, files
  <2>2. held[s] # "none"
    BY DEF FilesInv, FilesTypeOK, Contents
  <2>3. Unlink(s)
    BY <2>1, <2>2
  <2> QED
    BY <2>3 DEF Unlink, At, FilesInv, FilesTypeOK, BackendOK, Untouched, Saved
<1> QED
  BY <1>1, FilesInductive, PTL DEF FilesSpec, BackupOutlivesOurs
=============================================================================
