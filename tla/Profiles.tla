------------------------------ MODULE Profiles ------------------------------
(***************************************************************************)
(* The profiles and their passwords across the lives of the client: the    *)
(* handlers of MainWindow.cpp that work on them, the store and its file,   *)
(* the credential store, and what goes wrong around them: the process ends *)
(* between two steps of a handler, a file cannot be read or written, a     *)
(* daemon stops answering or refuses a password.                           *)
(***************************************************************************)
EXTENDS ProfileEditor, CredentialStore

CONSTANTS
  FaultKinds,   \* which of "load", "save", "write", "backend" may happen
  MaxImported,  \* bound: profiles in one import
  MaxHandlers   \* bound: handlers in a behaviour

ASSUME ProfilesAssumption ==
  /\ Keys = Ids /\ "Dot1x" \in Kinds
  /\ FaultKinds \subseteq {"load", "save", "write", "backend"} /\ {MaxImported, MaxHandlers} \subseteq Nat

VARIABLES
  running,   \* the client's process is there
  list,      \* m_profiles
  file,      \* profiles.json, a sequence of objects
  todo,      \* what the running handler still has to do
  vaults,    \* the passwords, by backend
  up,        \* the daemons that answer
  probed,    \* secretservice::available() of this process
  used,      \* ids that createUuid() has returned
  typed,     \* history: by id, the password last given to the credential store
  handlers,  \* how many have begun
  faults     \* history: what has gone wrong

stores == <<list, file>>
secrets == <<vaults, probed, typed>>
vars == <<running, list, file, todo, vaults, up, probed, used, typed, handlers, faults>>

Task ==
  [op : {"upsert"}, profile : Profile]
    \cup [op : {"store"}, id : Ids, pw : Passwords]
    \cup [op : {"forget", "remove"}, id : Ids]

Upsert(p) == [op |-> "upsert", profile |-> p]
Store(id, pw) == [op |-> "store", id |-> id, pw |-> pw]
Forget(id) == [op |-> "forget", id |-> id]
Remove(id) == [op |-> "remove", id |-> id]

TypeOK ==
  /\ running \in BOOLEAN /\ probed \in BOOLEAN
  /\ list \in Seq(Profile) /\ Decoded(file) \in Seq(Profile)
  /\ todo \in Seq(Task)
  /\ vaults \in Vaults /\ up \subseteq Daemons
  /\ used \subseteq Ids /\ typed \in [Ids -> Passwords \cup {NoPassword}]
  /\ handlers \in 0..MaxHandlers /\ faults \subseteq FaultKinds

Init ==
  /\ running = FALSE /\ list = <<>> /\ file = <<>> /\ todo = <<>>
  /\ vaults = EmptyVaults /\ up \in SUBSET Daemons /\ probed = FALSE
  /\ used = {} /\ typed = [id \in Ids |-> NoPassword] /\ handlers = 0 /\ faults = {}

Happens(kind) == kind \in FaultKinds /\ faults' = faults \cup {kind}

-----------------------------------------------------------------------------
(***************************************************************************)
(* The process starts: main() loads the profiles, and the window asks      *)
(* isSecureBackend(), which probes the Secret Service.                     *)
(***************************************************************************)
Load ==
  \/ list' = Decoded(file) /\ UNCHANGED faults
  \/ file # <<>> /\ list' = <<>> /\ Happens("load")

Start ==
  /\ ~running /\ running' = TRUE
  /\ Load
  /\ probed' = ("service" \in up)
  /\ UNCHANGED <<file, todo, vaults, up, used, typed, handlers>>

\* It quits, or is killed, also in the middle of a handler.
End ==
  /\ running /\ running' = FALSE
  /\ list' = <<>> /\ todo' = <<>> /\ probed' = FALSE
  /\ UNCHANGED <<file, vaults, up, used, typed, handlers, faults>>

-----------------------------------------------------------------------------
\* persistPassword: what is left to do for the dialog's profile and password.
Persist(p, pw) ==
  IF ~p.save THEN <<Forget(p.id)>>
  ELSE IF pw = NoPassword THEN <<>> ELSE <<Store(p.id, pw)>>

\* A handler begins: nothing else runs, and it leaves its steps to Step.
Begin(steps) ==
  /\ running /\ todo = <<>>
  /\ handlers < MaxHandlers /\ handlers' = handlers + 1
  /\ todo' = steps
  /\ UNCHANGED <<running, up, faults>> /\ UNCHANGED stores /\ UNCHANGED secrets

\* The OK of a dialog on p.
Accepted(p) ==
  \E q \in Edits(p), pw \in Passwords \cup {NoPassword} :
    Begin(<<Upsert(q)>> \o Persist(q, pw))

\* Profile::makeNew has the default kind.
AddProfile ==
  \E id \in Ids \ used :
    /\ used' = used \cup {id}
    /\ Accepted(MakeNew(id, "Dot1x"))

EditProfile ==
  /\ \E n \in 1..Len(list) : Accepted(Find(list, list[n].id))
  /\ UNCHANGED used

\* Faulty variant: the profile goes first.
RemoveStepsSwapped(id) == <<Remove(id), Forget(id)>>
RemoveSteps(id) == <<Forget(id), Remove(id)>>

RemoveProfile ==
  /\ \E n \in 1..Len(list) : Begin(RemoveSteps(list[n].id))
  /\ UNCHANGED used

\* The copy gets no password.
DuplicateProfile ==
  \E n \in 1..Len(list), id \in Ids \ used :
    /\ used' = used \cup {id}
    /\ Begin(<<Upsert([list[n] EXCEPT !.id = id])>>)

\* CustomXmlImporter: a new profile for every connection in the XML.
Imported(ids, kinds) == [n \in DOMAIN ids |-> MakeNew(ids[n], kinds[n])]

Import ==
  \E k \in 1..MaxImported : \E ids \in [1..k -> Ids \ used], kinds \in [1..k -> Kinds] :
    /\ IsInjective(ids)
    /\ used' = used \cup Range(ids)
    /\ Begin([n \in 1..k |-> Upsert(Imported(ids, kinds)[n])])

-----------------------------------------------------------------------------
\* Faulty variant: the file is opened for writing itself, without QSaveFile.
SaveInPlace(new) ==
  /\ list' = new
  /\ \/ file' = Encoded(new) /\ UNCHANGED faults
     \/ file' = <<>> /\ Happens("save")

\* save(): the whole list replaces the file, or nothing does.
Save(new) ==
  /\ list' = new
  /\ \/ file' = Encoded(new) /\ UNCHANGED faults
     \/ file' = file /\ Happens("save")

\* store(): the usable backend takes the password, or refuses it.
Give(id, pw) ==
  /\ typed' = [typed EXCEPT ![id] = pw]
  /\ \/ /\ (Target(up, probed) = "service" => "service" \in up)
        /\ vaults' = Put(vaults, Target(up, probed), id, pw)
        /\ UNCHANGED faults
     \/ vaults' = vaults /\ Target(up, probed) \in Daemons /\ Happens("write")
  /\ UNCHANGED stores

Erase(id) ==
  /\ typed' = [typed EXCEPT ![id] = NoPassword]
  /\ vaults' = Forgotten(vaults, up, probed, id)
  /\ UNCHANGED <<list, file, faults>>

\* The running handler's next call.
Step ==
  /\ running /\ todo # <<>>
  /\ todo' = Tail(todo)
  /\ LET task == Head(todo)
     IN CASE task.op = "upsert" -> Save(Upserted(list, task.profile)) /\ UNCHANGED <<vaults, typed>>
          [] task.op = "remove" ->
               /\ IF task.id \in IdsOf(list) THEN Save(Removed(list, task.id)) ELSE UNCHANGED <<list, file, faults>>
               /\ UNCHANGED <<vaults, typed>>
          [] task.op = "store" -> Give(task.id, task.pw)
          [] task.op = "forget" -> Erase(task.id)
  /\ UNCHANGED <<running, up, probed, used, handlers>>

\* A daemon starts to answer; one that stops is a fault.
DaemonAnswers ==
  /\ \E d \in Daemons \ up : up' = up \cup {d}
  /\ UNCHANGED <<running, todo, used, handlers, faults>> /\ UNCHANGED stores /\ UNCHANGED secrets
DaemonStops ==
  /\ \E d \in up : up' = up \ {d}
  /\ Happens("backend")
  /\ UNCHANGED <<running, todo, used, handlers>> /\ UNCHANGED stores /\ UNCHANGED secrets

Next ==
  \/ Start \/ End \/ AddProfile \/ EditProfile \/ RemoveProfile \/ DuplicateProfile
  \/ Import \/ Step \/ DaemonAnswers \/ DaemonStops

Spec == Init /\ [][Next]_vars

-----------------------------------------------------------------------------
(***************************************************************************)
(* The store keeps the promises of ProfileBook: whatever fails, and        *)
(* wherever the process ends, profiles.json is a whole book that the list  *)
(* was at some time, and a handler's step changes one profile only, in the *)
(* list and in the file alike (upsert, remove, save, load).                *)
(***************************************************************************)
Contents == [kind : Kinds, save : BOOLEAN, host : Hosts \cup {""},
             port : Ports \cup {0}, iface : Interfaces \cup {""}]
BookOf(profiles) ==
  [id \in Ids |->
     IF id \in IdsOf(profiles)
     THEN LET p == Find(profiles, id)
          IN [kind |-> p.kind, save |-> p.save, host |-> p.host, port |-> p.port,
              iface |-> p.iface]
     ELSE NoPassword]
Book == INSTANCE ProfileBook
          WITH None <- NoPassword, open <- running, book <- BookOf(list), saved <- BookOf(Decoded(file))
KeepsBook == Book!Spec

(***************************************************************************)
(* A password that is kept belongs to a profile in profiles.json, as long  *)
(* as no call has failed: wherever the process ends, no entry is left that *)
(* no dialog can reach (the order of the calls in onAddProfile,            *)
(* onRemoveProfile and onImportFromInstall).                               *)
(***************************************************************************)
PasswordHasProfile ==
  faults = {} => \A id \in Ids : Holds(vaults, id) => id \in IdsOf(Decoded(file))

(***************************************************************************)
(* Although a password may be in three places at once, what the plugins    *)
(* get is the one that was given last, and nothing once it was forgotten,  *)
(* as long as no backend stops answering or refuses (store, retrieve and   *)
(* forget agree on the order of the backends, and available() asks once).  *)
(***************************************************************************)
LatestPasswordIsUsed ==
  running /\ faults \cap {"backend", "write"} = {} =>
    \A id \in Ids : Retrieved(vaults, up, probed, id) = typed[id]

(***************************************************************************)
(* A dialog that keeps the protocol changes no more than what the user has *)
(* touched, on that protocol's page or on the common ones.  What he typed  *)
(* on the page of another protocol, which he chose and left again, reaches *)
(* neither the server host that the two share nor the port                 *)
(* (saveToProfile).  Excepted are the interface, see InterfaceIsKept, and  *)
(* a portal's port of 0, which becomes the 2000 that the dialog shows for  *)
(* it (ProfileEditor.cpp:443, :518).                                       *)
(***************************************************************************)
OnlyTouchedFieldsChange ==
  \A p \in Range(list), page \in Kinds, field \in Fields :
    \A q \in Dialog(p, page, field) :
      LET own == IF page = p.kind THEN field ELSE "nothing"
      IN q.kind = p.kind =>
           /\ field # "save" => q.save = p.save
           /\ own # "host" => q.host = p.host
           /\ own # "port" =>
                q.port = IF p.kind = "Portal" /\ p.port = 0 THEN DefaultPort ELSE p.port

(***************************************************************************)
(* ui/ProfileEditor.cpp:163: "Interface, auth mode, rjv3 options etc. are  *)
(* taken from the 802.1X page - switch protocol to edit them".  So a       *)
(* dialog in which nobody touches the protocol or the interface leaves the *)
(* interface of a profile that has one.                                    *)
(***************************************************************************)
InterfaceIsKept ==
  \A p \in Range(list), field \in Fields \ {"iface"} :
    \A q \in Dialog(p, p.kind, field) :
      p.iface # "" /\ q.kind = p.kind => q.iface = p.iface

(***************************************************************************)
(* MainWindow.cpp:334: "When it is off, make sure nothing is left behind   *)
(* in the credential store".                                               *)
(***************************************************************************)
NothingIsLeftBehind ==
  [][\A id \in Ids : typed[id] # NoPassword /\ typed'[id] = NoPassword => ~Holds(vaults', id)]_vars
=============================================================================
