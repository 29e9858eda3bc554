-------------------------- MODULE CredentialStore --------------------------
(***************************************************************************)
(* core/CredentialStore.cpp and core/SecretServiceStore.cpp as operators.  *)
(* A password is in up to three places: KWallet, the Secret Service, and a *)
(* QSettings file.  store() writes to the first that is usable, retrieve() *)
(* falls through to the next when one has no password, forget() visits     *)
(* all that it can reach.                                                  *)
(***************************************************************************)
EXTENDS Naturals

CONSTANTS
  Keys,        \* profile ids
  Passwords,
  NoPassword,  \* no entry
  WithWallet   \* the build has KF6 (HAVE_KF6)

ASSUME CredentialAssumption == NoPassword \notin Passwords /\ WithWallet \in BOOLEAN

Daemons == {"wallet", "service"}
Backends == Daemons \cup {"settings"}
Vaults == [Backends -> [Keys -> Passwords \cup {NoPassword}]]
EmptyVaults == [b \in Backends |-> [k \in Keys |-> NoPassword]]

(***************************************************************************)
(* up: the daemons that answer at the moment (KWallet: is open, or the     *)
(* user lets tryOpenWallet open it).  probed: what available() found when  *)
(* the window was built; it is asked once in the life of the process.      *)
(***************************************************************************)
WalletOpens(up) == WithWallet /\ "wallet" \in up
ServiceAnswers(up, probed) == probed /\ "service" \in up

\* The one place store() writes to.
Target(up, probed) ==
  IF WalletOpens(up) THEN "wallet" ELSE IF probed THEN "service" ELSE "settings"

Put(vaults, b, key, pw) == [vaults EXCEPT ![b][key] = pw]

\* Faulty variant: the fallback comes first.
RetrievedBackwards(vaults, up, probed, key) ==
  IF vaults["settings"][key] # NoPassword THEN vaults["settings"][key]
  ELSE IF ServiceAnswers(up, probed) /\ vaults["service"][key] # NoPassword
  THEN vaults["service"][key]
  ELSE IF WalletOpens(up) THEN vaults["wallet"][key] ELSE NoPassword

Retrieved(vaults, up, probed, key) ==
  IF WalletOpens(up) /\ vaults["wallet"][key] # NoPassword THEN vaults["wallet"][key]
  ELSE IF ServiceAnswers(up, probed) /\ vaults["service"][key] # NoPassword
  THEN vaults["service"][key]
  ELSE vaults["settings"][key]

\* Where forget() can erase.
Reached(up, probed) ==
  {"settings"} \cup {b \in Daemons : IF b = "wallet" THEN WalletOpens(up)
                                     ELSE ServiceAnswers(up, probed)}

Forgotten(vaults, up, probed, key) ==
  [b \in Backends |-> IF b \in Reached(up, probed)
                      THEN [vaults[b] EXCEPT ![key] = NoPassword] ELSE vaults[b]]

Holds(vaults, key) == \E b \in Backends : vaults[b][key] # NoPassword
=============================================================================
