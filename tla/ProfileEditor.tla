--------------------------- MODULE ProfileEditor ---------------------------
(***************************************************************************)
(* ui/ProfileEditor.cpp as operators: what the dialog shows of a profile,  *)
(* what the user may do to it, and the profile that OK makes of it.  Two   *)
(* protocol pages have a server field of their own for the one serverHost; *)
(* one of them has the port, which cannot be 0 there.                      *)
(*                                                                         *)
(* The interface is an editable combo box.  text is the first word of what *)
(* it shows (an item reads "eth0  (address, up)"), item the name behind    *)
(* its current item, "" when there is none.  Setting or typing a text does *)
(* not change the current item; filling the box makes the first current.   *)
(***************************************************************************)
EXTENDS ProfileStore, Functions

CONSTANTS
  Wired, Wireless   \* interfaces InterfaceDiscovery lists, in order

DefaultPort == 2000

ASSUME EditorAssumption == /\ Wired \in Seq(Interfaces) /\ Wireless \in Seq(Interfaces)
                           /\ DefaultPort \in Ports

\* The kinds with a server page.
ServerPages == {"Portal", "L2tp"}

Widgets == [kind : Kinds, save : BOOLEAN, server : [ServerPages -> Hosts \cup {""}],
            port : Ports, text : Interfaces \cup {""}, item : Interfaces \cup {""}]

First(names) == IF names = <<>> THEN "" ELSE names[1]
Listed(kind) == IF kind = "Wlan" THEN Wireless ELSE Wired

\* populateInterfaces: the box is filled anew and shows the text it showed before.
Populated(w, names) ==
  [w EXCEPT !.item = First(names),
            !.text = IF w.text = "" THEN First(names) ELSE w.text]

\* The constructor: buildUi, loadFromProfile, onKindChanged.
Loaded(p) ==
  Populated([kind |-> p.kind, save |-> p.save, item |-> "", text |-> p.iface,
             server |-> [k \in ServerPages |-> IF k = p.kind THEN p.host ELSE ""],
             port |-> IF p.port = 0 THEN DefaultPort ELSE p.port],
            Listed(p.kind))

\* onKindChanged: the box is filled anew for the two kinds that show it.
KindChanged(w, kind) ==
  LET chosen == [w EXCEPT !.kind = kind]
  IN IF kind \in {"Dot1x", "Wlan"} /\ kind # w.kind THEN Populated(chosen, Listed(kind))
     ELSE chosen

(***************************************************************************)
(* What the user may do on the pages the kind shows; field is what it is   *)
(* about.  The interface is on the 802.1X page: it is picked from the      *)
(* list, typed, or typed and confirmed with Return, which makes a new item *)
(* without data of it.                                                     *)
(***************************************************************************)
Touch(w, field) ==
  CASE field = "nothing" -> {w}
    [] field = "save" -> {[w EXCEPT !.save = b] : b \in BOOLEAN}
    [] field = "host" ->
         {[w EXCEPT !.server[k] = h] : k \in {w.kind} \cap ServerPages, h \in Hosts}
    [] field = "port" ->
         IF w.kind # "Portal" THEN {} ELSE {[w EXCEPT !.port = n] : n \in Ports}
    [] field = "iface" ->
         IF w.kind # "Dot1x" THEN {}
         ELSE {[w EXCEPT !.text = i, !.item = i] : i \in Range(Wired)}
              \cup {[w EXCEPT !.text = i] : i \in Interfaces}
              \cup {[w EXCEPT !.text = i, !.item = ""] : i \in Interfaces}

\* Faulty variant: both pages write the host, the portal's last.
SavedBothHosts(w, p) ==
  [p EXCEPT !.kind = w.kind, !.save = w.save,
            !.host = w.server["Portal"],
            !.port = IF w.kind = "Portal" THEN w.port ELSE p.port,
            !.iface = IF w.item # "" THEN w.item ELSE w.text]

\* saveToProfile: host and port come from the page of the chosen kind, if it has them.
Saved(w, p) ==
  [p EXCEPT !.kind = w.kind, !.save = w.save,
            !.host = IF w.kind \in ServerPages THEN w.server[w.kind] ELSE p.host,
            !.port = IF w.kind = "Portal" THEN w.port ELSE p.port,
            !.iface = IF w.item # "" THEN w.item ELSE w.text]

(***************************************************************************)
(* The dialog on p that ends with OK: the user chooses the page of a kind, *)
(* touches a field, which may be one on that page, and may choose another  *)
(* kind then.                                                              *)
(***************************************************************************)
Fields == {"nothing", "save", "host", "port", "iface"}

Dialog(p, page, field) ==
  {Saved(KindChanged(w, last), p) :
     w \in Touch(KindChanged(Loaded(p), page), field), last \in Kinds}

Edits(p) == UNION {Dialog(p, page, field) : page \in Kinds, field \in Fields}
=============================================================================
