----------------------------- MODULE ResolvConf -----------------------------
(***************************************************************************)
(* What the SSL VPN backend does to /etc/resolv.conf: VirtualNIC's         *)
(* _program_dns, _restore_dns_if_stale and close (h3csvpn/vnic.py).  A     *)
(* step is a system call on one of the two files, between any two of which *)
(* the backend may be killed, as the stop helper kills it.                 *)
(***************************************************************************)
EXTENDS Naturals

CONSTANTS
  Sessions,     \* the backends that run on this machine, at any time
  Overlap,      \* two of them may run at once (another profile, the command line)
  RestoreFails  \* the disk may be full while a stale file is restored

ASSUME FilesAssumption == Overlap \in BOOLEAN /\ RestoreFails \in BOOLEAN

VARIABLES
  original,  \* the file before the first backend: "user" (the user's), or "none"
  resolv,    \* resolv.conf: "user", "ours" (with the marker), "empty", or "none"
  public,    \* resolv.conf can be read by others than root
  bak,       \* resolv.conf.h3c-svpn.bak, likewise
  at,        \* where each backend is, "out" when it does not run
  held,      \* the content a backend has read
  changed    \* _dns_changed

files == <<resolv, public, bak>>
filesVars == <<original, files, at, held, changed>>

FilesInit ==
  /\ original \in {"user", "none"}
  /\ resolv = original /\ public = TRUE /\ bak = "none"
  /\ at = [s \in Sessions |-> "out"]
  /\ held = [s \in Sessions |-> "empty"]
  /\ changed = [s \in Sessions |-> FALSE]

At(s, from) == at[s] = from /\ UNCHANGED original
Moves(s, to) == at' = [at EXCEPT ![s] = to]
Holds(s, content) == held' = [held EXCEPT ![s] = content]
SetChanged(s, b) == changed' = [changed EXCEPT ![s] = b]

\* _atomic_write: a file of mkstemp, whose mode is 0600, takes the place of the old.
AtomicWrite(content) == resolv' = content /\ public' = FALSE

-----------------------------------------------------------------------------
(* _program_dns                                                            *)

Start(s) ==
  /\ At(s, "out")
  /\ ~Overlap => \A t \in Sessions : at[t] = "out"
  /\ Moves(s, "check")
  /\ UNCHANGED <<files, held, changed>>

\* Faulty variant: without _restore_dns_if_stale.
CheckNothing(s) ==
  /\ At(s, "check")
  /\ Moves(s, "read")
  /\ UNCHANGED <<files, held, changed>>

\* _restore_dns_if_stale: the marker, and a backup.
Check(s) ==
  /\ At(s, "check")
  /\ Moves(s, IF resolv = "ours" /\ bak # "none" THEN "fetch" ELSE "read")
  /\ UNCHANGED <<files, held, changed>>

Fetch(s) ==
  /\ At(s, "fetch")
  /\ IF bak = "none" THEN Moves(s, "read") /\ UNCHANGED held
     ELSE Holds(s, bak) /\ Moves(s, "restore")
  /\ UNCHANGED <<files, changed>>

\* An OSError is passed over.
Restore(s) ==
  /\ At(s, "restore")
  /\ Moves(s, "read")
  /\ \/ AtomicWrite(held[s])
     \/ RestoreFails /\ UNCHANGED <<resolv, public>>
  /\ UNCHANGED <<bak, held, changed>>

\* A file that is not there counts as an empty one.
ReadOriginal(s) ==
  /\ At(s, "read")
  /\ Holds(s, IF resolv = "none" THEN "empty" ELSE resolv)
  /\ Moves(s, "open")
  /\ UNCHANGED <<files, changed>>

\* Opening the backup truncates it.  Without a backup resolv.conf is let alone.
OpenBackup(s) ==
  /\ At(s, "open")
  /\ \/ bak' = "empty" /\ Moves(s, "write")
     \/ UNCHANGED bak /\ Moves(s, "up")
  /\ UNCHANGED <<resolv, public, held, changed>>

WriteBackup(s) ==
  /\ At(s, "write")
  /\ \/ bak' = held[s] /\ Moves(s, "replace")
     \/ UNCHANGED bak /\ Moves(s, "up")
  /\ UNCHANGED <<resolv, public, held, changed>>

\* What _atomic_write raises ends the backend, which closes the NIC.
Replace(s) ==
  /\ At(s, "replace") /\ Moves(s, "up")
  /\ \/ AtomicWrite("ours") /\ SetChanged(s, TRUE)
     \/ UNCHANGED <<resolv, public, changed>>
  /\ UNCHANGED <<bak, held>>

-----------------------------------------------------------------------------
(* close                                                                   *)

Close(s) ==
  /\ At(s, "up")
  /\ IF changed[s] /\ bak # "none" THEN Holds(s, bak) /\ Moves(s, "putback")
     ELSE Moves(s, "out") /\ UNCHANGED held
  /\ SetChanged(s, FALSE)
  /\ UNCHANGED files

PutBack(s) ==
  /\ At(s, "putback")
  /\ \/ AtomicWrite(held[s]) /\ Moves(s, "unlink")
     \/ UNCHANGED <<resolv, public>> /\ Moves(s, "out")
  /\ UNCHANGED <<bak, held, changed>>

Unlink(s) ==
  /\ At(s, "unlink")
  /\ bak' = "none" /\ Moves(s, "out")
  /\ UNCHANGED <<resolv, public, held, changed>>

Killed(s) ==
  /\ at[s] # "out" /\ UNCHANGED original
  /\ Moves(s, "out") /\ SetChanged(s, FALSE)
  /\ UNCHANGED <<files, held>>

-----------------------------------------------------------------------------

Program(s) == \/ Start(s) \/ Check(s) \/ Fetch(s) \/ Restore(s) \/ ReadOriginal(s)
              \/ OpenBackup(s) \/ WriteBackup(s) \/ Replace(s)
End(s) == Close(s) \/ PutBack(s) \/ Unlink(s) \/ Killed(s)

FilesNext == \E s \in Sessions : Program(s) \/ End(s)

FilesSpec == FilesInit /\ [][FilesNext]_filesVars

-----------------------------------------------------------------------------

Contents == {"user", "ours", "empty"}

FilesTypeOK ==
  /\ original \in {"user", "none"}
  /\ resolv \in Contents \cup {"none"} /\ bak \in Contents \cup {"none"}
  /\ public \in BOOLEAN
  /\ at \in [Sessions -> {"out", "check", "fetch", "restore", "read", "open", "write",
                          "replace", "up", "putback", "unlink"}]
  /\ held \in [Sessions -> Contents]
  /\ changed \in [Sessions -> BOOLEAN]
  /\ \A s \in Sessions : changed[s] => at[s] = "up"

\* vnic.py:149 "on-disk backup survives a crash": one backend after another, each
\* killed between any two steps, the user's file is always in one of the two places.
OriginalIsKept == original = "user" => "user" \in {resolv, bak}

\* The backup goes only when the user's file is back in its place.
BackupOutlivesOurs == [][bak # "none" /\ bak' = "none" => resolv # "ours"]_filesVars

\* vnic.py:141-142 "restore the real original first so we never capture our own
\* file".
NeverCapturesItself == bak # "ours"

\* vnic.py:8 "everything is restored on close": a backend that has put the file back
\* leaves it as it was, for all who read it.
EverythingIsRestored == \A s \in Sessions : at[s] = "unlink" => resolv = original /\ public
=============================================================================
