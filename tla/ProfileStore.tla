---------------------------- MODULE ProfileStore ----------------------------
(***************************************************************************)
(* core/ProfileStore.cpp as operators: the list of profiles in memory, the *)
(* array of JSON objects in profiles.json, and what leads from one to the  *)
(* other.  A profile keeps the fields that what follows tells apart: the   *)
(* protocol, the "store password" box, the server host that two protocols  *)
(* share, the port that one of them has, and the interface.  The others    *)
(* are left out: a dialog copies them, the texts without the spaces        *)
(* around them, and makes an eadPort of 0 one of 9019.                     *)
(***************************************************************************)
EXTENDS Naturals, Sequences

CONSTANTS
  Ids,         \* what QUuid::createUuid() may return
  Kinds,       \* protocols the profiles may have
  Hosts,       \* server hosts the user may enter
  Ports,       \* server ports the user may enter
  Interfaces   \* interfaces a profile may name

\* ProtocolKind and its numbers.
Code == [Dot1x |-> 8021, Portal |-> 5020, SslVpn |-> 7000, L2tp |-> 2401,
         Wlan |-> 1100, Ead |-> 9019, Sdp |-> 19006]

ASSUME StoreAssumption ==
  /\ Kinds \subseteq DOMAIN Code
  /\ "" \notin Hosts /\ "" \notin Interfaces

ASSUME PortsAssumption == Ports \subseteq 1..65535

Profile == [id : Ids, kind : Kinds, save : BOOLEAN, host : Hosts \cup {""},
            port : Ports \cup {0}, iface : Interfaces \cup {""}]

\* Profile::makeNew; the importer sets the protocol.
MakeNew(id, kind) ==
  [id |-> id, kind |-> kind, save |-> FALSE, host |-> "", port |-> 0, iface |-> ""]

\* toJson: the protocol is written as its number.
ToJson(p) == [p EXCEPT !.kind = Code[p.kind]]

\* protocolFromInt and fromJson.  A number that is no protocol's is 802.1X.
KindNumbered ==
  [code \in {Code[k] : k \in DOMAIN Code} |-> CHOOSE k \in DOMAIN Code : Code[k] = code]
KindOf(code) == IF code \in DOMAIN KindNumbered THEN KindNumbered[code] ELSE "Dot1x"
FromJson(o) == [o EXCEPT !.kind = KindOf(@)]

\* What load() makes of the file, and save() of the list.
Decoded(file) == [n \in 1..Len(file) |-> FromJson(file[n])]
Encoded(list) == [n \in 1..Len(list) |-> ToJson(list[n])]

IdsOf(list) == {list[n].id : n \in 1..Len(list)}

\* find(): the first profile with the id.
Position(list, id) ==
  CHOOSE n \in 1..Len(list) : list[n].id = id /\ \A m \in 1..(n - 1) : list[m].id # id
Find(list, id) == list[Position(list, id)]

Upserted(list, p) ==
  IF p.id \in IdsOf(list) THEN [list EXCEPT ![Position(list, p.id)] = p]
  ELSE Append(list, p)

(***************************************************************************)
(* erase(remove_if(...)) of a list without two equal ids.  The id that     *)
(* onRemoveProfile passes is a reference into the list, whose element the  *)
(* next one overwrites while remove_if still compares with it; MCProfiles  *)
(* has the loop, and checks that this is what it leaves.                   *)
(***************************************************************************)
Removed(list, id) ==
  IF id \notin IdsOf(list) THEN list
  ELSE [n \in 1..(Len(list) - 1) |->
          IF n < Position(list, id) THEN list[n] ELSE list[n + 1]]
=============================================================================
