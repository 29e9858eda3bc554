--------------------------- MODULE ProfilesProofs ---------------------------
(***************************************************************************)
(* The profiles and their passwords for any number of ids, protocols,      *)
(* hosts, interfaces and passwords, and any number of handlers: types, the *)
(* file, and which password the plugins get.                               *)
(***************************************************************************)
EXTENDS Profiles, SequenceTheorems, WellFoundedInduction, TLAPS

-----------------------------------------------------------------------------
(***************************************************************************)
(* Lists of profiles.                                                      *)
(***************************************************************************)
LEMMA LeastNumber ==
  ASSUME NEW T, T \subseteq Nat, T # {}
  PROVE  \E n \in T : \A m \in T : n <= m
<1>1. PICK n \in T : \A m \in T : ~ (<<m, n>> \in OpToRel(<, Nat))
  BY WFMin, NatLessThanWellFounded
<1>2. \A m \in T : ~ (m < n)
  BY <1>1 DEF OpToRel
<1> QED
  BY <1>2

\* find() finds a profile with the id.
LEMMA PositionFinds ==
  ASSUME NEW l \in Seq(Profile), NEW id \in IdsOf(l)
  PROVE  Position(l, id) \in 1..Len(l) /\ l[Position(l, id)].id = id
<1> DEFINE T == {n \in 1..Len(l) : l[n].id = id}
<1>1. T \subseteq Nat /\ T # {}
  BY DEF IdsOf
<1>2. PICK n \in T : \A m \in T : n <= m
  BY <1>1, LeastNumber
<1>3. n \in 1..Len(l) /\ l[n].id = id /\ \A m \in 1..Len(l) : l[m].id = id => n <= m
  BY <1>2
<1> HIDE DEF T
<1>4. n \in Nat /\ \A m \in 1..(n - 1) : m \in 1..Len(l) /\ ~(n <= m)
  BY <1>3, LenProperties
<1>5. n \in 1..Len(l) /\ l[n].id = id /\ \A m \in 1..(n - 1) : l[m].id # id
  BY <1>3, <1>4
<1> QED
  BY <1>5 DEF Position

LEMMA ListedIds ==
  ASSUME NEW l \in Seq(Profile)
  PROVE  IdsOf(l) \subseteq Ids
<1>1. \A n \in 1..Len(l) : l[n] \in Profile
  BY ElementOfSeq
<1>2. \A q \in Profile : q.id \in Ids
  BY DEF Profile
<1> QED
  BY <1>1, <1>2 DEF IdsOf

LEMMA FunctionIsSeq ==
  ASSUME NEW S, NEW n \in Nat, NEW f \in [1..n -> S]
  PROVE  f \in Seq(S) /\ Len(f) = n
<1>1. f \in Seq(S)
  BY SeqDef
<1> QED
  BY <1>1, LenProperties

LEMMA OneAndOne ==
  ASSUME NEW x, NEW y
  PROVE  <<x>> \o <<y>> = <<x, y>>
<1>1. <<x>> \in Seq({x, y}) /\ <<y>> \in Seq({x, y}) /\ <<x, y>> \in Seq({x, y})
  OBVIOUS
<1> DEFINE c == <<x>> \o <<y>>
<1>2. /\ c \in Seq({x, y}) /\ Len(c) = Len(<<x>>) + Len(<<y>>)
      /\ \A i \in 1..Len(<<x>>) + Len(<<y>>) :
           c[i] = IF i <= Len(<<x>>) THEN <<x>>[i] ELSE <<y>>[i - Len(<<x>>)]
  BY <1>1, ConcatProperties
<1> HIDE DEF c
<1>3. Len(c) = 2 /\ c[1] = x /\ c[2] = y
  BY <1>2
<1>4. c = <<x, y>>
  BY <1>1, <1>2, <1>3, SeqEqual
<1> QED
  BY <1>4 DEF c

LEMMA UpsertedType ==
  ASSUME NEW l \in Seq(Profile), NEW p \in Profile
  PROVE  /\ Upserted(l, p) \in Seq(Profile)
         /\ IdsOf(Upserted(l, p)) = IdsOf(l) \cup {p.id}
<1>1. CASE p.id \in IdsOf(l)
  <2> DEFINE at == Position(l, p.id)
             new == [l EXCEPT ![at] = p]
  <2>1. at \in 1..Len(l) /\ l[at].id = p.id
    BY <1>1, PositionFinds
  <2>2. /\ new \in Seq(Profile) /\ Len(new) = Len(l)
        /\ \A n \in 1..Len(l) : new[n] = IF n = at THEN p ELSE l[n]
    BY <2>1, ExceptSeq
  <2>3. Upserted(l, p) = new
    BY <1>1 DEF Upserted
  <2> HIDE DEF at, new
  <2>4. \A n \in 1..Len(l) : new[n].id = l[n].id
    BY <2>1, <2>2
  <2>5. IdsOf(new) = IdsOf(l)
    BY <2>2, <2>4 DEF IdsOf
  <2> QED
    BY <1>1, <2>2, <2>3, <2>5
<1>2. CASE p.id \notin IdsOf(l)
  <2>1. Upserted(l, p) = Append(l, p)
    BY <1>2 DEF Upserted
  <2>2. /\ Append(l, p) \in Seq(Profile) /\ Len(Append(l, p)) = Len(l) + 1 /\ Len(l) \in Nat
        /\ \A n \in 1..Len(l) : Append(l, p)[n] = l[n]
        /\ Append(l, p)[Len(l) + 1] = p
    OBVIOUS
  <2>3. IdsOf(Append(l, p)) = IdsOf(l) \cup {p.id}
    BY <2>2 DEF IdsOf
  <2> QED
    BY <2>1, <2>2, <2>3
<1> QED
  BY <1>1, <1>2

LEMMA RemovedType ==
  ASSUME NEW l \in Seq(Profile), NEW id \in IdsOf(l)
  PROVE  /\ Removed(l, id) \in Seq(Profile)
         /\ IdsOf(l) \ {id} \subseteq IdsOf(Removed(l, id))
         /\ IdsOf(Removed(l, id)) \subseteq IdsOf(l)
<1> DEFINE at == Position(l, id)
           new == [n \in 1..(Len(l) - 1) |-> IF n < at THEN l[n] ELSE l[n + 1]]
<1>1. at \in 1..Len(l) /\ l[at].id = id /\ Len(l) \in Nat
  BY PositionFinds, LenProperties
<1>2. Removed(l, id) = new
  BY DEF Removed
<1>3. \A n \in 1..Len(l) : l[n] \in Profile
  OBVIOUS
<1>4. new \in [1..(Len(l) - 1) -> Profile] /\ Len(l) - 1 \in Nat
  BY <1>1, <1>3
<1>5. new \in Seq(Profile) /\ Len(new) = Len(l) - 1
  BY <1>4, FunctionIsSeq
<1>6. \A n \in 1..(Len(l) - 1) : new[n] = IF n < at THEN l[n] ELSE l[n + 1]
  OBVIOUS
<1> HIDE DEF at, new
<1>7. ASSUME NEW k \in IdsOf(l), k # id PROVE k \in IdsOf(new)
  <2>1. PICK n \in 1..Len(l) : l[n].id = k
    BY DEF IdsOf
  <2>2. n # at
    BY <1>1, <1>7, <2>1
  <2>3. CASE n < at
    <3>1. n \in 1..(Len(l) - 1) /\ new[n].id = k
      BY <1>1, <1>6, <2>1, <2>3
    <3> QED
      BY <1>5, <3>1 DEF IdsOf
  <2>4. CASE n > at
    <3>1. n - 1 \in 1..(Len(l) - 1) /\ ~(n - 1 < at) /\ (n - 1) + 1 = n
      BY <1>1, <2>4
    <3>2. new[n - 1].id = k
      BY <1>6, <2>1, <3>1
    <3> QED
      BY <1>5, <3>1, <3>2 DEF IdsOf
  <2> QED
    BY <1>1, <2>2, <2>3, <2>4
<1>8. IdsOf(new) \subseteq IdsOf(l)
  <2>1. \A n \in 1..(Len(l) - 1) : \E m \in 1..Len(l) : new[n] = l[m]
    BY <1>1, <1>6
  <2> QED
    BY <1>5, <2>1 DEF IdsOf
<1> QED
  BY <1>2, <1>5, <1>7, <1>8

\* What save() writes, load() reads back.
LEMMA CodesReadBack ==
  ASSUME NEW k \in Kinds
  PROVE  KindOf(Code[k]) = k
<1>1. k \in DOMAIN Code
  BY StoreAssumption
<1>2. \A j \in DOMAIN Code : Code[j] = Code[k] => j = k
  BY <1>1 DEF Code
<1>3. (CHOOSE j \in DOMAIN Code : Code[j] = Code[k]) = k
  BY <1>1, <1>2
<1> QED
  BY <1>1, <1>3 DEF KindOf, KindNumbered

LEMMA SavedReadsBack ==
  ASSUME NEW l \in Seq(Profile)
  PROVE  Decoded(Encoded(l)) = l
<1>1. \A p \in Profile : FromJson(ToJson(p)) = p
  <2>1. ASSUME NEW p \in Profile PROVE FromJson(ToJson(p)) = p
    <3>1. KindOf(Code[p.kind]) = p.kind
      BY CodesReadBack DEF Profile
    <3> QED
      BY <3>1 DEF FromJson, ToJson, Profile
  <2> QED
    BY <2>1
<1>2. Len(l) \in Nat /\ l \in [1..Len(l) -> Profile]
  BY LenProperties
<1> DEFINE e == Encoded(l)
<1>3. e = [n \in 1..Len(l) |-> ToJson(l[n])]
  BY DEF Encoded
<1>4. e \in [1..Len(l) -> {ToJson(p) : p \in Profile}]
  BY <1>2, <1>3
<1>5. Len(e) = Len(l)
  BY <1>2, <1>4, FunctionIsSeq
<1>6. \A n \in 1..Len(l) : FromJson(e[n]) = l[n]
  BY <1>1, <1>2, <1>3
<1>7. Decoded(e) = [n \in 1..Len(l) |-> FromJson(e[n])]
  BY <1>5 DEF Decoded
<1> HIDE DEF e
<1>8. Decoded(e) = [n \in 1..Len(l) |-> l[n]]
  BY <1>6, <1>7
<1>9. Decoded(e) = l
  BY <1>2, <1>8
<1> QED
  BY <1>9 DEF e

-----------------------------------------------------------------------------
(***************************************************************************)
(* The dialog: what OK makes of a profile is a profile with the same id.   *)
(***************************************************************************)
LEMMA ListedNames ==
  ASSUME NEW kind
  PROVE  Listed(kind) \in Seq(Interfaces) /\ First(Listed(kind)) \in Interfaces \cup {""}
<1>1. Listed(kind) \in Seq(Interfaces)
  BY EditorAssumption DEF Listed
<1>2. Listed(kind) # <<>> => Listed(kind)[1] \in Interfaces
  BY <1>1, EmptySeq, ElementOfSeq
<1> QED
  BY <1>1, <1>2 DEF First

LEMMA PopulatedType ==
  ASSUME NEW w \in Widgets, NEW kind
  PROVE  Populated(w, Listed(kind)) \in Widgets
  BY ListedNames DEF Populated, Widgets

LEMMA LoadedType ==
  ASSUME NEW p \in Profile
  PROVE  Loaded(p) \in Widgets
<1> DEFINE w == [kind |-> p.kind, save |-> p.save, item |-> "", text |-> p.iface,
                 server |-> [k \in ServerPages |-> IF k = p.kind THEN p.host ELSE ""],
                 port |-> IF p.port = 0 THEN DefaultPort ELSE p.port]
<1>1. w \in Widgets
  BY EditorAssumption DEF Widgets, Profile
<1> HIDE DEF w
<1>2. Populated(w, Listed(p.kind)) \in Widgets
  BY <1>1, PopulatedType
<1> QED
  BY <1>2 DEF Loaded, w

LEMMA KindChangedType ==
  ASSUME NEW w \in Widgets, NEW kind \in Kinds
  PROVE  KindChanged(w, kind) \in Widgets
<1> DEFINE c == [w EXCEPT !.kind = kind]
<1>1. c \in Widgets
  BY DEF Widgets
<1> HIDE DEF c
<1>2. Populated(c, Listed(kind)) \in Widgets
  BY <1>1, PopulatedType
<1>3. KindChanged(w, kind) \in {c, Populated(c, Listed(kind))}
  BY DEF KindChanged, c
<1> QED
  BY <1>1, <1>2, <1>3

LEMMA IfaceTouched ==
  ASSUME NEW w \in Widgets
  PROVE  Touch(w, "iface") =
           IF w.kind # "Dot1x" THEN {}
           ELSE {[w EXCEPT !.text = i, !.item = i] : i \in Range(Wired)}
                \cup {[w EXCEPT !.text = i] : i \in Interfaces}
                \cup {[w EXCEPT !.text = i, !.item = ""] : i \in Interfaces}
  BY DEF Touch

LEMMA TouchType ==
  ASSUME NEW w \in Widgets, NEW field \in Fields
  PROVE  Touch(w, field) \subseteq Widgets
<1>1. CASE field = "nothing"
  <2>1. Touch(w, field) = {w}
    BY <1>1 DEF Touch
  <2> QED
    BY <2>1
<1>2. CASE field = "save"
  <2>1. \A b \in BOOLEAN : [w EXCEPT !.save = b] \in Widgets
    BY DEF Widgets
  <2>2. Touch(w, field) = {[w EXCEPT !.save = b] : b \in BOOLEAN}
    BY <1>2 DEF Touch
  <2> QED
    BY <2>1, <2>2, Zenon
<1>3. CASE field = "host"
  <2>1. \A k \in {w.kind} \cap ServerPages, h \in Hosts : [w EXCEPT !.server[k] = h] \in Widgets
    BY DEF Widgets
  <2> QED
    BY <1>3, <2>1 DEF Touch
<1>4. CASE field = "port"
  <2>1. \A n \in Ports : [w EXCEPT !.port = n] \in Widgets
    BY DEF Widgets
  <2>2. Touch(w, field) = IF w.kind # "Portal" THEN {} ELSE {[w EXCEPT !.port = n] : n \in Ports}
    BY <1>4 DEF Touch
  <2>3. \A v \in Touch(w, field) : \E n \in Ports : v = [w EXCEPT !.port = n]
    BY <2>2
  <2> QED
    BY <2>1, <2>3
<1>5. CASE field = "iface"
  <2>1. Range(Wired) \subseteq Interfaces
    BY EditorAssumption DEF Range
  <2>2. \A i \in Interfaces, j \in Interfaces \cup {""} : [w EXCEPT !.text = i, !.item = j] \in Widgets
    BY DEF Widgets
  <2> DEFINE Picked == {[w EXCEPT !.text = i, !.item = i] : i \in Range(Wired)}
             Typed == {[w EXCEPT !.text = i] : i \in Interfaces}
             Entered == {[w EXCEPT !.text = i, !.item = ""] : i \in Interfaces}
  <2>3. Picked \subseteq Widgets
    <3>1. \A i \in Range(Wired) : [w EXCEPT !.text = i, !.item = i] \in Widgets
      BY <2>1, <2>2, Zenon
    <3> QED
      BY <3>1, Zenon
  <2>4. Typed \subseteq Widgets
    <3>1. \A i \in Interfaces : [w EXCEPT !.text = i] \in Widgets
      BY DEF Widgets
    <3> QED
      BY <3>1, Zenon
  <2>5. Entered \subseteq Widgets
    <3>1. \A i \in Interfaces : [w EXCEPT !.text = i, !.item = ""] \in Widgets
      BY <2>2
    <3> QED
      BY <3>1, Zenon
  <2>6. Touch(w, field) = IF w.kind # "Dot1x" THEN {} ELSE Picked \cup Typed \cup Entered
    BY <1>5, IfaceTouched
  <2> HIDE DEF Picked, Typed, Entered
  <2> QED
    BY <2>3, <2>4, <2>5, <2>6
<1> QED
  BY <1>1, <1>2, <1>3, <1>4, <1>5 DEF Fields

LEMMA EditsType ==
  ASSUME NEW p \in Profile, NEW q \in Edits(p)
  PROVE  q \in Profile /\ q.id = p.id
<1>1. PICK page \in Kinds, field \in Fields : q \in Dialog(p, page, field)
  BY DEF Edits
<1>2. PICK w \in Touch(KindChanged(Loaded(p), page), field), last \in Kinds :
        q = Saved(KindChanged(w, last), p)
  BY <1>1 DEF Dialog
<1>3. KindChanged(Loaded(p), page) \in Widgets
  BY LoadedType, KindChangedType
<1>4. w \in Widgets
  BY <1>3, TouchType
<1>5. KindChanged(w, last) \in Widgets
  BY <1>4, KindChangedType
<1>6. \A v \in Widgets : Saved(v, p) \in Profile /\ Saved(v, p).id = p.id
  <2> SUFFICES ASSUME NEW v \in Widgets
               PROVE  Saved(v, p) \in Profile /\ Saved(v, p).id = p.id
    OBVIOUS
  <2> DEFINE host == IF v.kind \in ServerPages THEN v.server[v.kind] ELSE p.host
             port == IF v.kind = "Portal" THEN v.port ELSE p.port
             iface == IF v.item # "" THEN v.item ELSE v.text
  <2>1. v.kind \in Kinds /\ v.save \in BOOLEAN /\ iface \in Interfaces \cup {""}
    BY DEF Widgets
  <2>2. host \in Hosts \cup {""} /\ port \in Ports \cup {0}
    BY DEF Widgets, Profile
  <2>3. Saved(v, p) = [p EXCEPT !.kind = v.kind, !.save = v.save, !.host = host,
                                !.port = port, !.iface = iface]
    BY DEF Saved
  <2> HIDE DEF host, port, iface
  <2> QED
    BY <2>1, <2>2, <2>3 DEF Profile
<1> QED
  BY <1>2, <1>5, <1>6

\* A box filled anew and a kind chosen leave the other fields of the dialog alone, and
\* what the user does to one field leaves the others.
LEMMA PopulatedKeeps ==
  ASSUME NEW w \in Widgets, NEW names
  PROVE  /\ Populated(w, names).kind = w.kind /\ Populated(w, names).save = w.save
         /\ Populated(w, names).server = w.server /\ Populated(w, names).port = w.port
  BY DEF Populated, Widgets

LEMMA KindChangedKeeps ==
  ASSUME NEW w \in Widgets, NEW kind \in Kinds
  PROVE  /\ KindChanged(w, kind).kind = kind /\ KindChanged(w, kind).save = w.save
         /\ KindChanged(w, kind).server = w.server /\ KindChanged(w, kind).port = w.port
<1> DEFINE c == [w EXCEPT !.kind = kind]
<1>1. c \in Widgets /\ c.kind = kind /\ c.save = w.save /\ c.server = w.server /\ c.port = w.port
  BY DEF Widgets
<1> HIDE DEF c
<1>2. KindChanged(w, kind) \in {c, Populated(c, Listed(kind))}
  BY DEF KindChanged, c
<1> QED
  BY <1>1, <1>2, PopulatedKeeps

\* The port a dialog shows.
Shown(p) == IF p.port = 0 THEN DefaultPort ELSE p.port

LEMMA LoadedShows ==
  ASSUME NEW p \in Profile
  PROVE  /\ Loaded(p).save = p.save /\ Loaded(p).port = Shown(p)
         /\ p.kind \in ServerPages => Loaded(p).server[p.kind] = p.host
<1> DEFINE w == [kind |-> p.kind, save |-> p.save, item |-> "", text |-> p.iface,
                 server |-> [k \in ServerPages |-> IF k = p.kind THEN p.host ELSE ""],
                 port |-> IF p.port = 0 THEN DefaultPort ELSE p.port]
<1>1. /\ w \in Widgets /\ w.save = p.save /\ w.port = Shown(p)
      /\ p.kind \in ServerPages => w.server[p.kind] = p.host
  BY EditorAssumption DEF Widgets, Profile, Shown
<1>2. Loaded(p) = Populated(w, Listed(p.kind))
  BY DEF Loaded
<1> HIDE DEF w
<1> QED
  BY <1>1, <1>2, PopulatedKeeps

\* What the user does to one field leaves the others, and a server field or port is
\* that of the page the kind shows.
LEMMA TouchKeeps ==
  ASSUME NEW w \in Widgets, NEW field \in Fields, NEW v \in Touch(w, field)
  PROVE  /\ field # "save" => v.save = w.save
         /\ \A k \in ServerPages : field # "host" \/ k # w.kind => v.server[k] = w.server[k]
         /\ field # "port" \/ w.kind # "Portal" => v.port = w.port
<1>1. CASE field = "nothing"
  BY <1>1 DEF Touch
<1>2. CASE field = "save"
  <2>1. PICK b \in BOOLEAN : v = [w EXCEPT !.save = b]
    BY <1>2 DEF Touch
  <2> QED
    BY <1>2, <2>1 DEF Widgets
<1>3. CASE field = "host"
  <2>1. PICK k \in {w.kind} \cap ServerPages, h \in Hosts : v = [w EXCEPT !.server[k] = h]
    BY <1>3 DEF Touch
  <2> QED
    BY <1>3, <2>1 DEF Widgets
<1>4. CASE field = "port"
  <2>1. w.kind = "Portal" /\ \E n \in Ports : v = [w EXCEPT !.port = n]
    BY <1>4 DEF Touch
  <2> QED
    BY <1>4, <2>1 DEF Widgets
<1>5. CASE field = "iface"
  <2> DEFINE Picked == {[w EXCEPT !.text = i, !.item = i] : i \in Range(Wired)}
             Typed == {[w EXCEPT !.text = i] : i \in Interfaces}
             Entered == {[w EXCEPT !.text = i, !.item = ""] : i \in Interfaces}
             Same(x) == x.save = w.save /\ x.server = w.server /\ x.port = w.port
  <2>1. Touch(w, field) = IF w.kind # "Dot1x" THEN {} ELSE Picked \cup Typed \cup Entered
    BY <1>5, IfaceTouched
  <2>2. \A i : Same([w EXCEPT !.text = i, !.item = i])
    BY DEF Widgets
  <2>3. \A i : Same([w EXCEPT !.text = i])
    BY DEF Widgets
  <2>4. \A i : Same([w EXCEPT !.text = i, !.item = ""])
    BY DEF Widgets
  <2> HIDE DEF Same
  <2>5. (\A x \in Picked : Same(x)) /\ (\A x \in Typed : Same(x)) /\ (\A x \in Entered : Same(x))
    BY <2>2, <2>3, <2>4, Zenon
  <2> HIDE DEF Picked, Typed, Entered
  <2>6. Same(v)
    BY <2>1, <2>5
  <2> QED
    BY <2>6 DEF Same
<1> QED
  BY <1>1, <1>2, <1>3, <1>4, <1>5 DEF Fields

LEMMA EditsKeep ==
  ASSUME NEW p \in Profile, NEW page \in Kinds, NEW field \in Fields,
         NEW q \in Dialog(p, page, field), q.kind = p.kind
  PROVE  LET own == IF page = p.kind THEN field ELSE "nothing"
         IN /\ field # "save" => q.save = p.save
            /\ own # "host" => q.host = p.host
            /\ own # "port" =>
                 q.port = IF p.kind = "Portal" /\ p.port = 0 THEN DefaultPort ELSE p.port
<1> DEFINE shown == KindChanged(Loaded(p), page)
<1>1. PICK w \in Touch(shown, field), last \in Kinds : q = Saved(KindChanged(w, last), p)
  BY DEF Dialog
<1> DEFINE final == KindChanged(w, last)
<1>2. /\ shown \in Widgets /\ shown.kind = page /\ shown.save = p.save /\ shown.port = Shown(p)
      /\ (p.kind \in ServerPages => shown.server[p.kind] = p.host)
  BY LoadedType, LoadedShows, KindChangedType, KindChangedKeeps
<1>3. w \in Touch(shown, field)
  BY <1>1
<1>4. /\ final.kind = last /\ final.save = w.save /\ final.server = w.server /\ final.port = w.port
      /\ w \in Widgets
  BY <1>2, <1>3, TouchType, KindChangedKeeps
<1>5. q = Saved(final, p)
  BY <1>1
<1> HIDE DEF shown, final
<1>6. /\ q.kind = final.kind /\ q.save = final.save
      /\ q.host = IF final.kind \in ServerPages THEN final.server[final.kind] ELSE p.host
      /\ q.port = IF final.kind = "Portal" THEN final.port ELSE p.port
  BY <1>5 DEF Saved, Profile
<1>7. final.kind = p.kind
  BY <1>6
<1>8. field # "save" => q.save = p.save
  BY <1>2, <1>3, <1>4, <1>6, TouchKeeps
<1>9. ASSUME ~(field = "host" /\ page = p.kind)
      PROVE  q.host = p.host
  <2>1. CASE p.kind \in ServerPages
    <3>1. w.server[p.kind] = shown.server[p.kind]
      BY <1>2, <1>3, <1>9, <2>1, TouchKeeps
    <3> QED
      BY <1>2, <1>4, <1>6, <1>7, <2>1, <3>1
  <2>2. CASE p.kind \notin ServerPages
    BY <1>6, <1>7, <2>2
  <2> QED
    BY <2>1, <2>2
<1>10. ASSUME ~(field = "port" /\ page = p.kind)
       PROVE  q.port = IF p.kind = "Portal" THEN Shown(p) ELSE p.port
  <2>1. CASE p.kind = "Portal"
    <3>1. w.port = shown.port
      BY <1>2, <1>3, <1>10, <2>1, TouchKeeps
    <3> QED
      BY <1>2, <1>4, <1>6, <1>7, <2>1, <3>1
  <2>2. CASE p.kind # "Portal"
    BY <1>6, <1>7, <2>2
  <2> QED
    BY <2>1, <2>2
<1> QED
  BY <1>8, <1>9, <1>10 DEF Shown

-----------------------------------------------------------------------------
(***************************************************************************)
(* The inductive invariant.  A store follows an upsert of its profile, a   *)
(* remove the forget of its password; without a fault the list is the      *)
(* file; and without a fault of a backend an entry is only where the       *)
(* process can still reach it, so that the first one found is the last     *)
(* one given.                                                              *)
(***************************************************************************)
Upserts == [op : {"upsert"}, profile : Profile]

StoreFollows ==
  \/ \E p \in Profile, pw \in Passwords : todo = <<Upsert(p), Store(p.id, pw)>>
  \/ \E id \in IdsOf(list), pw \in Passwords : todo = <<Store(id, pw)>>

ForgetPending ==
  \/ \E p \in Profile : todo = <<Upsert(p), Forget(p.id)>>
  \/ \E id \in Ids : todo = <<Forget(id)>> \/ todo = <<Forget(id), Remove(id)>>

RemoveFollows ==
  \E id \in Ids : todo = <<Remove(id)>> /\ (faults = {} => ~Holds(vaults, id))

TodoShape == todo \in Seq(Upserts) \/ StoreFollows \/ ForgetPending \/ RemoveFollows

Idle == ~running => todo = <<>>

InSync == running /\ faults = {} => list = Decoded(file)

Sound == faults \cap {"backend", "write"} = {}

LatestIn(v, id) ==
  IF v["wallet"][id] # NoPassword THEN v["wallet"][id]
  ELSE IF v["service"][id] # NoPassword THEN v["service"][id]
  ELSE v["settings"][id]

Reachable(v, u) ==
  \A id \in Ids : /\ v["wallet"][id] # NoPassword => WalletOpens(u)
                  /\ v["service"][id] # NoPassword => "service" \in u /\ (running => probed)

SecretsInOrder == Sound => Reachable(vaults, up) /\ \A id \in Ids : LatestIn(vaults, id) = typed[id]

IInv == TypeOK /\ TodoShape /\ Idle /\ InSync /\ SecretsInOrder /\ PasswordHasProfile

LEMMA InitIInv == Init => IInv
<1> SUFFICES ASSUME Init
             PROVE  IInv
  OBVIOUS
<1>1. Decoded(file) = <<>>
  BY DEF Init, Decoded
<1>2. Keys = Ids /\ {MaxHandlers} \subseteq Nat
  BY ProfilesAssumption
<1>3. EmptyVaults \in Vaults /\ \A b \in Backends, id \in Ids : EmptyVaults[b][id] = NoPassword
  BY <1>2 DEF EmptyVaults, Vaults
<1>4. TypeOK
  <2>1. list \in Seq(Profile) /\ Decoded(file) \in Seq(Profile) /\ todo \in Seq(Task)
    BY <1>1, EmptySeq DEF Init
  <2>2. handlers \in 0..MaxHandlers
    BY <1>2 DEF Init
  <2>3. used \subseteq Ids /\ typed \in [Ids -> Passwords \cup {NoPassword}] /\ faults \subseteq FaultKinds
    BY DEF Init
  <2> QED
    BY <1>3, <2>1, <2>2, <2>3 DEF Init, TypeOK
<1>5. TodoShape /\ Idle /\ InSync
  BY <1>1 DEF Init, TodoShape, Idle, InSync
<1>6. SecretsInOrder
  BY <1>3 DEF Init, SecretsInOrder, Reachable, LatestIn, Backends, Daemons
<1>7. PasswordHasProfile
  BY <1>3 DEF Init, PasswordHasProfile, Holds
<1> QED
  BY <1>4, <1>5, <1>6, <1>7 DEF IInv

\* What a pending call is about.
LEMMA ShapeType == TodoShape /\ list \in Seq(Profile) => todo \in Seq(Task)
<1> SUFFICES ASSUME TodoShape, list \in Seq(Profile)
             PROVE  todo \in Seq(Task)
  OBVIOUS
<1>1. Upserts \subseteq Task
  BY DEF Upserts, Task
<1>2. \A p \in Profile : Upsert(p) \in Task /\ p.id \in Ids
  BY DEF Upsert, Task, Profile
<1>3. \A id \in Ids : Forget(id) \in Task /\ Remove(id) \in Task
  BY DEF Forget, Remove, Task
<1>4. \A id \in Ids, pw \in Passwords : Store(id, pw) \in Task
  BY DEF Store, Task
<1>5. IdsOf(list) \subseteq Ids
  BY ListedIds
<1>6. \A a \in Task : <<a>> \in Seq(Task)
  OBVIOUS
<1>7. \A a, b \in Task : <<a, b>> \in Seq(Task)
  OBVIOUS
<1>8. CASE todo \in Seq(Upserts)
  BY <1>1, <1>8, SeqMonotonic
<1>9. CASE StoreFollows
  BY <1>2, <1>4, <1>5, <1>9, <1>6, <1>7 DEF StoreFollows
<1>10. CASE ForgetPending
  BY <1>2, <1>3, <1>10, <1>6, <1>7 DEF ForgetPending
<1>11. CASE RemoveFollows
  BY <1>3, <1>11, <1>6 DEF RemoveFollows
<1> QED
  BY <1>8, <1>9, <1>10, <1>11 DEF TodoShape

-----------------------------------------------------------------------------
(***************************************************************************)
(* A handler begins: the steps it leaves have one of the shapes.           *)
(***************************************************************************)
LEMMA BeginStep ==
  ASSUME IInv, NEW steps, Begin(steps), TodoShape', used' \subseteq Ids
  PROVE  IInv'
<1>1. /\ UNCHANGED <<running, up, faults, list, file, vaults, probed, typed>>
      /\ handlers' \in 0..MaxHandlers
  BY ProfilesAssumption DEF IInv, TypeOK, Begin, stores, secrets
<1>2. todo' \in Seq(Task)
  <2>1. list' \in Seq(Profile)
    BY <1>1 DEF IInv, TypeOK
  <2>2. (TodoShape /\ list \in Seq(Profile) => todo \in Seq(Task))'
    BY ShapeType, PTL
  <2> QED
    BY <2>1, <2>2
<1>3. TypeOK'
  BY <1>1, <1>2 DEF IInv, TypeOK
<1>4. Idle' /\ InSync' /\ PasswordHasProfile'
  BY <1>1 DEF IInv, InSync, PasswordHasProfile, Idle, Begin
<1>5. SecretsInOrder'
  BY <1>1 DEF IInv, SecretsInOrder, Sound, Reachable, LatestIn
<1> QED
  BY <1>3, <1>4, <1>5 DEF IInv

\* The dialog's profile, and what persistPassword does of its password.
LEMMA AcceptedShape ==
  ASSUME NEW p \in Profile, Accepted(p)
  PROVE  TodoShape' /\ \E steps : Begin(steps)
<1>1. PICK q \in Edits(p), pw \in Passwords \cup {NoPassword} :
        Begin(<<Upsert(q)>> \o Persist(q, pw))
  BY DEF Accepted
<1>2. q \in Profile
  BY EditsType
<1>3. todo' = <<Upsert(q)>> \o Persist(q, pw)
  BY <1>1 DEF Begin
<1>4. q \in Profile /\ q.id \in Ids
  BY <1>2 DEF Profile
<1>5. CASE ~q.save
  <2>1. Persist(q, pw) = <<Forget(q.id)>>
    BY <1>5 DEF Persist
  <2>2. todo' = <<Upsert(q), Forget(q.id)>>
    BY <1>3, <2>1, OneAndOne
  <2> QED
    BY <1>1, <1>4, <2>2 DEF TodoShape, ForgetPending
<1>6. CASE q.save /\ pw = NoPassword
  <2>1. todo' = <<Upsert(q)>>
    <3>1. Persist(q, pw) = <<>>
      BY <1>6 DEF Persist
    <3> QED
      BY <1>3, <3>1
  <2>2. Upsert(q) \in Upserts
    BY <1>4 DEF Upsert, Upserts
  <2> QED
    BY <1>1, <2>1, <2>2 DEF TodoShape
<1>7. CASE q.save /\ pw # NoPassword
  <2>1. Persist(q, pw) = <<Store(q.id, pw)>> /\ pw \in Passwords
    BY <1>7 DEF Persist
  <2>2. todo' = <<Upsert(q), Store(q.id, pw)>>
    BY <1>3, <2>1, OneAndOne
  <2> QED
    BY <1>1, <1>4, <2>1, <2>2 DEF TodoShape, StoreFollows
<1> QED
  BY <1>5, <1>6, <1>7

LEMMA HandlerStep ==
  ASSUME IInv, AddProfile \/ EditProfile \/ RemoveProfile \/ DuplicateProfile \/ Import
  PROVE  IInv'
<1>1. list \in Seq(Profile) /\ used \subseteq Ids
  BY DEF IInv, TypeOK
<1>2. \A n \in 1..Len(list) : list[n] \in Profile /\ list[n].id \in Ids
  <2>1. \A n \in 1..Len(list) : list[n] \in Profile
    BY <1>1, ElementOfSeq
  <2>2. \A q \in Profile : q.id \in Ids
    BY DEF Profile
  <2> QED
    BY <2>1, <2>2
<1>3. CASE AddProfile
  <2>1. PICK id \in Ids \ used : used' = used \cup {id} /\ Accepted(MakeNew(id, "Dot1x"))
    BY <1>3 DEF AddProfile
  <2>2. MakeNew(id, "Dot1x") \in Profile
    BY ProfilesAssumption DEF MakeNew, Profile
  <2> QED
    BY <1>1, <2>1, <2>2, AcceptedShape, BeginStep
<1>4. CASE EditProfile
  <2>1. PICK n \in 1..Len(list) : Accepted(Find(list, list[n].id))
    BY <1>4 DEF EditProfile
  <2>2. Find(list, list[n].id) \in Profile
    <3>1. list[n].id \in IdsOf(list)
      BY DEF IdsOf
    <3> QED
      BY <1>1, <1>2, <3>1, PositionFinds DEF Find
  <2>3. used' = used
    BY <1>4 DEF EditProfile
  <2> QED
    BY <1>1, <2>1, <2>2, <2>3, AcceptedShape, BeginStep
<1>5. CASE RemoveProfile
  <2>1. PICK n \in 1..Len(list) : Begin(RemoveSteps(list[n].id))
    BY <1>5 DEF RemoveProfile
  <2>2. todo' = <<Forget(list[n].id), Remove(list[n].id)>>
    BY <2>1 DEF Begin, RemoveSteps
  <2>3. TodoShape'
    BY <1>2, <2>2 DEF TodoShape, ForgetPending
  <2>4. used' = used
    BY <1>5 DEF RemoveProfile
  <2> QED
    BY <1>1, <2>1, <2>3, <2>4, BeginStep
<1>6. CASE DuplicateProfile
  <2>1. PICK n \in 1..Len(list), id \in Ids \ used :
          used' = used \cup {id} /\ Begin(<<Upsert([list[n] EXCEPT !.id = id])>>)
    BY <1>6 DEF DuplicateProfile
  <2>2. [list[n] EXCEPT !.id = id] \in Profile
    BY <1>2 DEF Profile
  <2>3. todo' = <<Upsert([list[n] EXCEPT !.id = id])>>
    BY <2>1 DEF Begin
  <2>4. Upsert([list[n] EXCEPT !.id = id]) \in Upserts
    BY <2>2 DEF Upsert, Upserts
  <2>5. TodoShape'
    BY <2>3, <2>4 DEF TodoShape
  <2> QED
    BY <1>1, <2>1, <2>5, BeginStep
<1>7. CASE Import
  <2>1. PICK k \in 1..MaxImported :
          \E ids \in [1..k -> Ids \ used], kinds \in [1..k -> Kinds] :
            used' = used \cup Range(ids) /\ Begin([n \in 1..k |-> Upsert(Imported(ids, kinds)[n])])
    BY <1>7, Zenon DEF Import
  <2>2. PICK ids \in [1..k -> Ids \ used], kinds \in [1..k -> Kinds] :
          used' = used \cup Range(ids) /\ Begin([n \in 1..k |-> Upsert(Imported(ids, kinds)[n])])
    BY <2>1, Zenon
  <2>3. k \in Nat
    BY ProfilesAssumption
  <2>4. \A n \in 1..k : Upsert(Imported(ids, kinds)[n]) \in Upserts
    BY DEF Imported, MakeNew, Profile, Upsert, Upserts
  <2>5. [n \in 1..k |-> Upsert(Imported(ids, kinds)[n])] \in [1..k -> Upserts]
    BY <2>4
  <2>6. todo' \in Seq(Upserts)
    BY <2>2, <2>3, <2>5, FunctionIsSeq DEF Begin
  <2>7. used' \subseteq Ids
    BY <1>1, <2>2 DEF Range
  <2>8. TodoShape'
    BY <2>6 DEF TodoShape
  <2> QED
    BY <2>2, <2>7, <2>8, BeginStep
<1> QED
  BY <1>3, <1>4, <1>5, <1>6, <1>7

-----------------------------------------------------------------------------
(***************************************************************************)
(* The process and its surroundings.                                       *)
(***************************************************************************)
LEMMA StartStep == ASSUME IInv, Start PROVE IInv'
<1>1. /\ UNCHANGED <<file, todo, vaults, up, used, typed, handlers>>
      /\ running' = TRUE /\ probed' = ("service" \in up)
  BY DEF Start
<1>2. \/ list' = Decoded(file) /\ faults' = faults
      \/ list' = <<>> /\ faults' \subseteq FaultKinds /\ faults' # {} /\ Sound' = Sound
  BY DEF Start, Load, Happens, IInv, TypeOK, Sound
<1>3. Decoded(file)' = Decoded(file)
  BY <1>1 DEF Decoded
<1>4. TypeOK'
  <2>1. list' \in Seq(Profile)
    BY <1>2, EmptySeq DEF IInv, TypeOK
  <2>2. faults' \subseteq FaultKinds
    BY <1>2 DEF IInv, TypeOK
  <2>3. probed' \in BOOLEAN
    BY <1>1
  <2> QED
    BY <1>1, <1>3, <2>1, <2>2, <2>3 DEF IInv, TypeOK
<1>5. todo' = <<>>
  BY <1>1 DEF Start, IInv, Idle
<1>6. TodoShape' /\ Idle'
  BY <1>5 DEF TodoShape, Idle
<1>7. InSync' /\ PasswordHasProfile'
  BY <1>1, <1>2, <1>3 DEF IInv, InSync, PasswordHasProfile
<1>8. SecretsInOrder'
  <2>1. Sound' => Sound
    BY <1>2 DEF Sound
  <2>2. Sound' => Reachable(vaults, up)'
    BY <1>1, <2>1 DEF IInv, SecretsInOrder, Reachable
  <2>3. Sound' => \A id \in Ids : LatestIn(vaults', id) = typed'[id]
    BY <1>1, <2>1 DEF IInv, SecretsInOrder
  <2> QED
    BY <2>2, <2>3 DEF SecretsInOrder
<1> QED
  BY <1>4, <1>6, <1>7, <1>8 DEF IInv

LEMMA EndStep == ASSUME IInv, End PROVE IInv'
<1>1. /\ UNCHANGED <<file, vaults, up, used, typed, handlers, faults>>
      /\ running' = FALSE /\ list' = <<>> /\ todo' = <<>> /\ probed' = FALSE
  BY DEF End
<1>2. TypeOK'
  BY <1>1, EmptySeq DEF IInv, TypeOK
<1>3. TodoShape' /\ Idle' /\ InSync' /\ PasswordHasProfile'
  BY <1>1 DEF IInv, TodoShape, Idle, InSync, PasswordHasProfile
<1>4. SecretsInOrder'
  BY <1>1 DEF IInv, SecretsInOrder, Sound, Reachable
<1> QED
  BY <1>2, <1>3, <1>4 DEF IInv

LEMMA DaemonStep == ASSUME IInv, DaemonAnswers \/ DaemonStops PROVE IInv'
<1>1. /\ UNCHANGED <<running, todo, used, handlers, list, file, vaults, probed, typed>>
      /\ up' \subseteq Daemons /\ faults \subseteq faults' /\ faults' \subseteq FaultKinds
  BY DEF DaemonAnswers, DaemonStops, Happens, stores, secrets, IInv, TypeOK
<1>2. TypeOK'
  BY <1>1 DEF IInv, TypeOK
<1>3. faults' = {} => faults = {}
  BY <1>1
<1>4. TodoShape' /\ Idle' /\ InSync' /\ PasswordHasProfile'
  BY <1>1, <1>3 DEF IInv, TodoShape, StoreFollows, ForgetPending, RemoveFollows, Idle, InSync,
                    PasswordHasProfile
<1>5. SecretsInOrder'
  <2>1. CASE DaemonAnswers
    <3>1. up \subseteq up' /\ faults' = faults
      BY <2>1 DEF DaemonAnswers
    <3> QED
      BY <1>1, <3>1 DEF IInv, SecretsInOrder, Sound, Reachable, WalletOpens
  <2>2. CASE DaemonStops
    <3>1. "backend" \in faults'
      BY <2>2 DEF DaemonStops, Happens
    <3> QED
      BY <3>1 DEF SecretsInOrder, Sound
  <2> QED
    BY <2>1, <2>2
<1> QED
  BY <1>2, <1>4, <1>5 DEF IInv

-----------------------------------------------------------------------------
(***************************************************************************)
(* The calls of a running handler.                                         *)
(***************************************************************************)
\* What save() leaves in the list and in the file.
LEMMA SaveEffect ==
  ASSUME TypeOK, InSync, running, NEW new \in Seq(Profile), Save(new)
  PROVE  /\ list' = new /\ Decoded(file)' \in Seq(Profile)
         /\ faults \subseteq faults' /\ faults' \subseteq FaultKinds
         /\ Sound' = Sound
         /\ faults' = {} => Decoded(file)' = new
<1>1. CASE file' = Encoded(new) /\ UNCHANGED faults
  <2>1. Decoded(file)' = new
    BY <1>1, SavedReadsBack DEF Decoded
  <2> QED
    BY <1>1, <2>1 DEF Save, TypeOK, Sound
<1>2. CASE file' = file /\ Happens("save")
  <2>1. Decoded(file)' = Decoded(file)
    BY <1>2 DEF Decoded
  <2> QED
    BY <1>2, <2>1 DEF Save, Happens, TypeOK, Sound
<1> QED
  BY <1>1, <1>2 DEF Save

\* A call that only the list and the file notice.
LEMMA SaveStep ==
  ASSUME IInv, running, NEW new \in Seq(Profile), Save(new), todo' = Tail(todo), todo # <<>>,
         UNCHANGED <<running, up, probed, used, handlers, vaults, typed>>,
         TodoShape',
         faults = {} => \A id \in Ids : Holds(vaults, id) /\ id \in IdsOf(list) => id \in IdsOf(new)
  PROVE  IInv'
<1>1. /\ list' = new /\ Decoded(file)' \in Seq(Profile)
      /\ faults \subseteq faults' /\ faults' \subseteq FaultKinds
      /\ Sound' = Sound
      /\ faults' = {} => Decoded(file)' = new
  BY SaveEffect DEF IInv
<1>2. TypeOK'
  <2>1. todo' \in Seq(Task)
    BY HeadTailProperties DEF IInv, TypeOK
  <2> QED
    BY <1>1, <2>1 DEF IInv, TypeOK
<1>3. Idle' /\ InSync'
  BY <1>1 DEF Idle, InSync
<1>4. PasswordHasProfile'
  <2>1. faults' = {} => faults = {}
    BY <1>1
  <2> QED
    BY <1>1, <2>1 DEF IInv, PasswordHasProfile, InSync
<1>5. SecretsInOrder'
  BY <1>1 DEF IInv, SecretsInOrder, Reachable
<1> QED
  BY <1>2, <1>3, <1>4, <1>5 DEF IInv

LEMMA UpsertStep ==
  ASSUME IInv, Step, Head(todo).op = "upsert"
  PROVE  IInv'
<1> DEFINE p == Head(todo).profile
           new == Upserted(list, p)
<1>1. /\ running /\ todo # <<>> /\ todo' = Tail(todo) /\ Save(new)
      /\ UNCHANGED <<running, up, probed, used, handlers, vaults, typed>>
  BY DEF Step
<1>2. todo \in Seq(Task) /\ list \in Seq(Profile)
  BY DEF IInv, TypeOK
<1>3. p \in Profile
  <2>1. Head(todo) \in Task
    BY <1>1, <1>2, HeadTailProperties
  <2> QED
    BY <2>1 DEF Task
<1> HIDE DEF p
<1>4. new \in Seq(Profile) /\ IdsOf(new) = IdsOf(list) \cup {p.id}
  BY <1>2, <1>3, UpsertedType
<1>5. list' = new
  BY <1>1 DEF Save
<1> HIDE DEF new
<1>6. TodoShape'
  <2>1. CASE todo \in Seq(Upserts)
    <3>1. todo' \in Seq(Upserts)
      BY <1>1, <2>1, HeadTailProperties
    <3> QED
      BY <3>1 DEF TodoShape
  <2>2. CASE StoreFollows
    <3>1. CASE \E q \in Profile, pw \in Passwords : todo = <<Upsert(q), Store(q.id, pw)>>
      <4>1. PICK q \in Profile, pw \in Passwords : todo = <<Upsert(q), Store(q.id, pw)>>
        BY <3>1
      <4>2. p = q /\ todo' = <<Store(q.id, pw)>>
        BY <1>1, <4>1 DEF p, Upsert
      <4> QED
        BY <1>4, <1>5, <4>2 DEF TodoShape, StoreFollows
    <3>2. CASE \E id \in IdsOf(list), pw \in Passwords : todo = <<Store(id, pw)>>
      BY <3>2 DEF Store
    <3> QED
      BY <2>2, <3>1, <3>2 DEF StoreFollows
  <2>3. CASE ForgetPending
    <3>1. CASE \E q \in Profile : todo = <<Upsert(q), Forget(q.id)>>
      <4>1. PICK q \in Profile : todo = <<Upsert(q), Forget(q.id)>>
        BY <3>1
      <4>2. todo' = <<Forget(q.id)>>
        BY <1>1, <4>1
      <4>3. q.id \in Ids
        BY DEF Profile
      <4> QED
        BY <4>2, <4>3 DEF TodoShape, ForgetPending
    <3>2. CASE \E id \in Ids : todo = <<Forget(id)>> \/ todo = <<Forget(id), Remove(id)>>
      BY <3>2 DEF Forget
    <3> QED
      BY <2>3, <3>1, <3>2 DEF ForgetPending
  <2>4. CASE RemoveFollows
    BY <2>4 DEF RemoveFollows, Remove
  <2> QED
    BY <2>1, <2>2, <2>3, <2>4 DEF IInv, TodoShape
<1> QED
  BY <1>1, <1>4, <1>6, SaveStep

LEMMA RemoveStep ==
  ASSUME IInv, Step, Head(todo).op = "remove"
  PROVE  IInv'
<1>1. RemoveFollows
  <2>1. CASE todo \in Seq(Upserts)
    <3>1. Head(todo) \in Upserts
      BY <2>1, HeadTailProperties DEF Step
    <3> QED
      BY <3>1 DEF Upserts
  <2>2. CASE StoreFollows \/ ForgetPending
    BY <2>2 DEF StoreFollows, ForgetPending, Upsert, Store, Forget
  <2> QED
    BY <2>1, <2>2 DEF IInv, TodoShape
<1>2. PICK id \in Ids : todo = <<Remove(id)>> /\ (faults = {} => ~Holds(vaults, id))
  BY <1>1 DEF RemoveFollows
<1>3. Head(todo) = Remove(id) /\ Remove(id).id = id /\ Tail(todo) = <<>>
  BY <1>2 DEF Remove
<1>4. /\ running /\ todo # <<>> /\ todo' = Tail(todo)
      /\ UNCHANGED <<running, up, probed, used, handlers, vaults, typed>>
      /\ IF id \in IdsOf(list) THEN Save(Removed(list, id)) ELSE UNCHANGED <<list, file, faults>>
  BY <1>3 DEF Step
<1>5. TodoShape'
  <2>1. todo' = <<>>
    BY <1>3, <1>4
  <2> QED
    BY <2>1, EmptySeq DEF TodoShape
<1>6. CASE id \in IdsOf(list)
  <2>1. /\ Removed(list, id) \in Seq(Profile)
        /\ IdsOf(list) \ {id} \subseteq IdsOf(Removed(list, id))
    BY <1>6, RemovedType DEF IInv, TypeOK
  <2> QED
    BY <1>2, <1>4, <1>5, <1>6, <2>1, SaveStep
<1>7. CASE id \notin IdsOf(list)
  <2>1. UNCHANGED <<list, file, faults>>
    BY <1>4, <1>7
  <2>2. TypeOK'
    BY <1>3, <1>4, <2>1 DEF IInv, TypeOK
  <2>3. Idle' /\ InSync' /\ PasswordHasProfile' /\ SecretsInOrder'
    BY <1>4, <2>1 DEF IInv, Idle, InSync, PasswordHasProfile, SecretsInOrder, Sound, Reachable
  <2> QED
    BY <1>5, <2>2, <2>3 DEF IInv
<1> QED
  BY <1>6, <1>7

LEMMA KeyedVaults ==
  ASSUME NEW v \in Vaults
  PROVE  Keys = Ids /\ \A b \in Backends, id \in Ids : v[b][id] \in Passwords \cup {NoPassword}
<1>1. Keys = Ids
  BY ProfilesAssumption
<1> QED
  BY <1>1 DEF Vaults

\* What Put writes is at its place, and nothing else has changed.
LEMMA PutEffect ==
  ASSUME NEW v \in Vaults, NEW b \in Backends, NEW key \in Ids, NEW pw \in Passwords \cup {NoPassword}
  PROVE  /\ Put(v, b, key, pw) \in Vaults
         /\ \A c \in Backends, id \in Ids :
              Put(v, b, key, pw)[c][id] = IF c = b /\ id = key THEN pw ELSE v[c][id]
<1>1. Keys = Ids
  BY ProfilesAssumption
<1> QED
  BY <1>1 DEF Put, Vaults

LEMMA ForgottenEffect ==
  ASSUME NEW v \in Vaults, NEW key \in Ids, NEW u, NEW p
  PROVE  /\ Forgotten(v, u, p, key) \in Vaults
         /\ \A c \in Backends, id \in Ids :
              Forgotten(v, u, p, key)[c][id] =
                IF c \in Reached(u, p) /\ id = key THEN NoPassword ELSE v[c][id]
<1>1. Keys = Ids
  BY ProfilesAssumption
<1> QED
  BY <1>1 DEF Forgotten, Vaults

\* The password goes where retrieve() will look first: what stands before it in the
\* order has no entry.
LEMMA GiveEffect ==
  ASSUME IInv, running, NEW key \in Ids, NEW pw \in Passwords, Give(key, pw),
         UNCHANGED <<running, up, probed>>
  PROVE  /\ vaults' \in Vaults /\ typed' \in [Ids -> Passwords \cup {NoPassword}]
         /\ faults' \subseteq FaultKinds /\ faults \subseteq faults'
         /\ \A id \in Ids : id # key /\ Holds(vaults', id) => Holds(vaults, id)
         /\ SecretsInOrder'
<1>1. /\ vaults \in Vaults /\ typed \in [Ids -> Passwords \cup {NoPassword}] /\ faults \subseteq FaultKinds
      /\ probed \in BOOLEAN
  BY DEF IInv, TypeOK
<1> DEFINE b == Target(up, probed)
<1>2. /\ b \in {"wallet", "service", "settings"} /\ Backends = {"wallet", "service", "settings"}
      /\ b = "wallet" <=> WalletOpens(up)
      /\ b = "service" <=> ~WalletOpens(up) /\ probed
  BY <1>1 DEF Target, Backends, Daemons
<1>3. typed' = [typed EXCEPT ![key] = pw]
  BY DEF Give
<1>4. \/ /\ b = "service" => "service" \in up
         /\ vaults' = Put(vaults, b, key, pw) /\ faults' = faults
      \/ vaults' = vaults /\ Happens("write")
  BY DEF Give
<1> HIDE DEF b
<1>5. CASE vaults' = vaults /\ Happens("write")
  <2>1. ~Sound'
    BY <1>5 DEF Sound, Happens
  <2> QED
    BY <1>1, <1>3, <1>5, <2>1 DEF Happens, SecretsInOrder
<1>6. CASE /\ b = "service" => "service" \in up
           /\ vaults' = Put(vaults, b, key, pw) /\ faults' = faults
  <2>1. /\ vaults' \in Vaults
        /\ \A c \in Backends, id \in Ids : vaults'[c][id] = IF c = b /\ id = key THEN pw ELSE vaults[c][id]
    <3>1. b \in Backends /\ pw \in Passwords \cup {NoPassword}
      BY <1>2
    <3>2. /\ Put(vaults, b, key, pw) \in Vaults
          /\ \A c \in Backends, id \in Ids :
               Put(vaults, b, key, pw)[c][id] = IF c = b /\ id = key THEN pw ELSE vaults[c][id]
      BY <1>1, <3>1, PutEffect
    <3> QED
      BY <1>6, <3>2, Zenon
  <2>2. \A id \in Ids : id # key /\ Holds(vaults', id) => Holds(vaults, id)
    BY <2>1 DEF Holds
  <2>3. Sound' => Reachable(vaults', up')
    BY <1>2, <1>6, <2>1 DEF IInv, SecretsInOrder, Reachable, Sound
  <2>4. ASSUME Sound', NEW id \in Ids PROVE LatestIn(vaults', id) = typed'[id]
    <3>1. Reachable(vaults, up) /\ LatestIn(vaults, id) = typed[id]
      BY <1>6, <2>4 DEF IInv, SecretsInOrder, Sound
    <3>2. CASE id # key
      BY <1>1, <1>2, <1>3, <2>1, <3>1, <3>2 DEF LatestIn
    <3>3. CASE id = key
      <4>1. typed'[id] = pw /\ pw # NoPassword
        BY <1>1, <1>3, <3>3, CredentialAssumption
      <4>2. b # "wallet" => vaults["wallet"][id] = NoPassword
        BY <1>2, <3>1 DEF Reachable
      <4>3. b = "settings" => vaults["service"][id] = NoPassword
        BY <1>2, <3>1 DEF Reachable
      <4> QED
        BY <1>2, <2>1, <3>3, <4>1, <4>2, <4>3 DEF LatestIn
    <3> QED
      BY <3>2, <3>3
  <2>5. SecretsInOrder'
    BY <2>3, <2>4 DEF SecretsInOrder, Reachable
  <2>6. typed' \in [Ids -> Passwords \cup {NoPassword}]
    BY <1>1, <1>3
  <2> QED
    BY <1>1, <1>6, <2>1, <2>2, <2>5, <2>6
<1> QED
  BY <1>4, <1>5, <1>6

LEMMA StoreStep ==
  ASSUME IInv, Step, Head(todo).op = "store"
  PROVE  IInv'
<1>1. \E id \in IdsOf(list), pw \in Passwords : todo = <<Store(id, pw)>>
  <2>1. CASE todo \in Seq(Upserts)
    <3>1. Head(todo) \in Upserts
      BY <2>1, HeadTailProperties DEF Step
    <3> QED
      BY <3>1 DEF Upserts
  <2>2. CASE StoreFollows
    BY <2>2 DEF StoreFollows, Upsert
  <2>3. CASE ForgetPending \/ RemoveFollows
    BY <2>3 DEF ForgetPending, RemoveFollows, Upsert, Forget, Remove
  <2> QED
    BY <2>1, <2>2, <2>3 DEF IInv, TodoShape
<1>2. PICK id \in IdsOf(list), pw \in Passwords : todo = <<Store(id, pw)>>
  BY <1>1
<1>3. Head(todo) = Store(id, pw) /\ Tail(todo) = <<>> /\ Store(id, pw).op = "store"
      /\ Store(id, pw).id = id /\ Store(id, pw).pw = pw
  BY <1>2 DEF Store
<1>4. /\ running /\ todo' = <<>> /\ Give(id, pw)
      /\ UNCHANGED <<running, up, probed, used, handlers>>
  BY <1>3 DEF Step
<1>5. UNCHANGED <<list, file>> /\ id \in Ids
  BY <1>4, ListedIds DEF Give, stores, IInv, TypeOK
<1>6. /\ vaults' \in Vaults /\ typed' \in [Ids -> Passwords \cup {NoPassword}]
      /\ faults' \subseteq FaultKinds /\ faults \subseteq faults'
      /\ \A k \in Ids : k # id /\ Holds(vaults', k) => Holds(vaults, k)
      /\ SecretsInOrder'
  BY <1>4, <1>5, GiveEffect
<1>7. TypeOK'
  BY <1>4, <1>5, <1>6, EmptySeq DEF IInv, TypeOK
<1>8. TodoShape' /\ Idle'
  BY <1>4, EmptySeq DEF TodoShape, Idle
<1>9. faults' = {} => faults = {}
  BY <1>6
<1>10. InSync' /\ PasswordHasProfile'
  BY <1>4, <1>5, <1>6, <1>9 DEF IInv, InSync, PasswordHasProfile
<1> QED
  BY <1>6, <1>7, <1>8, <1>10 DEF IInv

\* Without a fault forget() reaches every entry there is.
LEMMA EraseEffect ==
  ASSUME IInv, running, NEW key \in Ids, Erase(key), UNCHANGED <<running, up, probed>>
  PROVE  /\ vaults' \in Vaults /\ typed' \in [Ids -> Passwords \cup {NoPassword}]
         /\ \A id \in Ids : Holds(vaults', id) => Holds(vaults, id)
         /\ Sound => ~Holds(vaults', key)
         /\ SecretsInOrder'
<1>1. /\ vaults \in Vaults /\ typed \in [Ids -> Passwords \cup {NoPassword}]
      /\ Backends = {"wallet", "service", "settings"} /\ faults' = faults
      /\ typed' = [typed EXCEPT ![key] = NoPassword]
  BY DEF IInv, TypeOK, Backends, Daemons, Erase
<1>2. /\ vaults' \in Vaults
      /\ \A c \in Backends, id \in Ids :
           vaults'[c][id] = IF c \in Reached(up, probed) /\ id = key THEN NoPassword ELSE vaults[c][id]
  BY <1>1, ForgottenEffect DEF Erase
<1>3. \A id \in Ids : Holds(vaults', id) => Holds(vaults, id)
  BY <1>2 DEF Holds
<1>4. Sound => \A c \in Backends : vaults'[c][key] = NoPassword
  <2>1. SUFFICES ASSUME Sound, NEW c \in Backends, c \notin Reached(up, probed)
                 PROVE  vaults[c][key] = NoPassword
    BY <1>2
  <2>2. Reachable(vaults, up)
    BY <2>1 DEF IInv, SecretsInOrder
  <2>3. \/ c = "wallet" /\ ~WalletOpens(up)
        \/ c = "service" /\ ~ServiceAnswers(up, probed)
    BY <1>1, <2>1 DEF Reached, Daemons
  <2> QED
    BY <2>2, <2>3 DEF Reachable, ServiceAnswers
<1>5. SecretsInOrder'
  <2>1. SUFFICES ASSUME Sound PROVE Reachable(vaults', up') /\ \A id \in Ids : LatestIn(vaults', id) = typed'[id]
    BY <1>1 DEF SecretsInOrder, Sound, Reachable
  <2>2. Reachable(vaults, up) /\ \A id \in Ids : LatestIn(vaults, id) = typed[id]
    BY <2>1 DEF IInv, SecretsInOrder
  <2>3. Reachable(vaults', up')
    BY <1>1, <1>2, <2>2 DEF Reachable
  <2>4. \A id \in Ids : LatestIn(vaults', id) = typed'[id]
    BY <1>1, <1>2, <1>4, <2>1, <2>2 DEF LatestIn
  <2> QED
    BY <2>3, <2>4
<1> QED
  BY <1>1, <1>2, <1>3, <1>4, <1>5 DEF Holds

LEMMA ForgetStep ==
  ASSUME IInv, Step, Head(todo).op = "forget"
  PROVE  IInv'
<1>1. PICK id \in Ids : /\ Head(todo) = Forget(id) /\ Forget(id).op = "forget" /\ Forget(id).id = id
                        /\ Tail(todo) \in {<<>>, <<Remove(id)>>}
  <2>1. CASE todo \in Seq(Upserts)
    <3>1. Head(todo) \in Upserts
      BY <2>1, HeadTailProperties DEF Step
    <3> QED
      BY <3>1 DEF Upserts
  <2>2. CASE StoreFollows \/ RemoveFollows
    BY <2>2 DEF StoreFollows, RemoveFollows, Upsert, Store, Remove
  <2>3. CASE ForgetPending
    <3>1. CASE \E p \in Profile : todo = <<Upsert(p), Forget(p.id)>>
      BY <3>1 DEF Upsert
    <3>2. CASE \E id \in Ids : todo = <<Forget(id)>> \/ todo = <<Forget(id), Remove(id)>>
      <4>1. PICK id \in Ids : todo = <<Forget(id)>> \/ todo = <<Forget(id), Remove(id)>>
        BY <3>2
      <4>2. CASE todo = <<Forget(id)>>
        <5>1. Head(todo) = Forget(id) /\ Tail(todo) = <<>>
          BY <4>2
        <5> QED
          BY <5>1 DEF Forget
      <4>3. CASE todo = <<Forget(id), Remove(id)>>
        <5>1. Head(todo) = Forget(id) /\ Tail(todo) = <<Remove(id)>>
          BY <4>3
        <5> QED
          BY <5>1 DEF Forget
      <4> QED
        BY <4>1, <4>2, <4>3
    <3> QED
      BY <2>3, <3>1, <3>2 DEF ForgetPending
  <2> QED
    BY <2>1, <2>2, <2>3 DEF IInv, TodoShape
<1>2. /\ running /\ todo' \in {<<>>, <<Remove(id)>>} /\ Erase(id)
      /\ UNCHANGED <<running, up, probed, used, handlers, list, file, faults>>
  BY <1>1 DEF Step, Erase
<1>3. /\ vaults' \in Vaults /\ typed' \in [Ids -> Passwords \cup {NoPassword}]
      /\ \A k \in Ids : Holds(vaults', k) => Holds(vaults, k)
      /\ Sound => ~Holds(vaults', id)
      /\ SecretsInOrder'
  BY <1>2, EraseEffect
<1>4. TodoShape'
  <2>1. CASE todo' = <<>>
    BY <2>1, EmptySeq DEF TodoShape
  <2>2. CASE todo' = <<Remove(id)>>
    <3>1. faults' = {} => ~Holds(vaults', id)
      BY <1>2, <1>3 DEF Sound
    <3> QED
      BY <2>2, <3>1 DEF TodoShape, RemoveFollows
  <2> QED
    BY <1>2, <2>1, <2>2
<1>5. TypeOK'
  <2>1. Remove(id) \in Task
    BY DEF Remove, Task
  <2>2. \A a \in Task : <<a>> \in Seq(Task)
    OBVIOUS
  <2>3. todo' \in Seq(Task)
    BY <1>2, <2>1, <2>2, EmptySeq
  <2> QED
    BY <1>2, <1>3, <2>3 DEF IInv, TypeOK
<1>6. Idle' /\ InSync' /\ PasswordHasProfile'
  BY <1>2, <1>3 DEF IInv, Idle, InSync, PasswordHasProfile
<1> QED
  BY <1>3, <1>4, <1>5, <1>6 DEF IInv

-----------------------------------------------------------------------------
LEMMA StepIInv == IInv /\ [Next]_vars => IInv'
<1> SUFFICES ASSUME IInv, [Next]_vars
             PROVE  IInv'
  OBVIOUS
<1>1. CASE Start \/ End
  BY <1>1, StartStep, EndStep
<1>2. CASE AddProfile \/ EditProfile \/ RemoveProfile \/ DuplicateProfile \/ Import
  BY <1>2, HandlerStep
<1>3. CASE Step
  <2>1. Head(todo).op \in {"upsert", "remove", "store", "forget"}
    <3>1. Head(todo) \in Task
      BY <1>3, HeadTailProperties DEF IInv, TypeOK, Step
    <3> QED
      BY <3>1 DEF Task
  <2> QED
    BY <1>3, <2>1, UpsertStep, RemoveStep, StoreStep, ForgetStep
<1>4. CASE DaemonAnswers \/ DaemonStops
  BY <1>4, DaemonStep
<1>5. CASE UNCHANGED vars
  BY <1>5 DEF vars, IInv, TypeOK, TodoShape, StoreFollows, ForgetPending, RemoveFollows, Idle, InSync,
              SecretsInOrder, Sound, Reachable, PasswordHasProfile
<1> QED
  BY <1>1, <1>2, <1>3, <1>4, <1>5 DEF Next

\* The variables of Profiles keep their types: what the file holds is always a list of
\* profiles that load() can read.
THEOREM TypeCorrect == Spec => []TypeOK
  BY InitIInv, StepIInv, PTL DEF Spec, IInv

\* As long as no call has failed, every password kept belongs to a profile in the file,
\* wherever in a handler the process ends.
THEOREM NoOrphans == Spec => []PasswordHasProfile
  BY InitIInv, StepIInv, PTL DEF Spec, IInv

\* As long as no backend fails, a plugin gets the password that was given last, and none
\* once it was forgotten, whichever backends came up in between.
THEOREM LatestWins == Spec => []LatestPasswordIsUsed
<1>1. IInv => LatestPasswordIsUsed
  <2> SUFFICES ASSUME IInv, running, Sound, NEW id \in Ids
               PROVE  Retrieved(vaults, up, probed, id) = typed[id]
    BY DEF LatestPasswordIsUsed, Sound
  <2>1. Reachable(vaults, up) /\ LatestIn(vaults, id) = typed[id]
    BY DEF IInv, SecretsInOrder
  <2> QED
    BY <2>1 DEF Reachable, LatestIn, Retrieved, ServiceAnswers
<1> QED
  BY InitIInv, StepIInv, <1>1, PTL DEF Spec

\* Whatever the user does in a dialog that keeps the protocol, also on the pages of
\* other protocols: "store password", the server host and the port change only where
\* they were touched on the protocol's own page, and a portal's port of 0 to 2000; for
\* any hosts, ports, interfaces and protocols.
THEOREM EditsAreExact == Spec => []OnlyTouchedFieldsChange
<1>1. IInv => OnlyTouchedFieldsChange
  <2> SUFFICES ASSUME IInv, NEW p \in Range(list), NEW page \in Kinds, NEW field \in Fields,
                      NEW q \in Dialog(p, page, field), q.kind = p.kind
               PROVE  LET own == IF page = p.kind THEN field ELSE "nothing"
                      IN /\ field # "save" => q.save = p.save
                         /\ own # "host" => q.host = p.host
                         /\ own # "port" =>
                              q.port = IF p.kind = "Portal" /\ p.port = 0
                                         THEN DefaultPort ELSE p.port
    BY DEF OnlyTouchedFieldsChange
  <2>1. p \in Profile
    BY DEF IInv, TypeOK, Range
  <2> QED
    BY <2>1, EditsKeep
<1> QED
  BY InitIInv, StepIInv, <1>1, PTL DEF Spec

-----------------------------------------------------------------------------
(***************************************************************************)
(* The book.  No list has two profiles with one id: that is what makes     *)
(* remove(), which erases all of them, the end of one entry, and find()    *)
(* the inverse of the list.                                                *)
(***************************************************************************)
Distinct(l) == \A m, n \in 1..Len(l) : l[m].id = l[n].id => m = n

OneEach == Distinct(list) /\ Distinct(Decoded(file))

ContentOf(p) ==
  [kind |-> p.kind, save |-> p.save, host |-> p.host, port |-> p.port, iface |-> p.iface]

\* The entry of a listed profile is its own.
LEMMA BookEntry ==
  ASSUME NEW l \in Seq(Profile), Distinct(l)
  PROVE  /\ \A n \in 1..Len(l) : BookOf(l)[l[n].id] = ContentOf(l[n])
         /\ \A id \in Ids : id \notin IdsOf(l) => BookOf(l)[id] = NoPassword
<1>1. ASSUME NEW n \in 1..Len(l)
      PROVE  BookOf(l)[l[n].id] = ContentOf(l[n])
  <2>1. l[n].id \in IdsOf(l) /\ l[n].id \in Ids
    BY ListedIds DEF IdsOf
  <2>2. Position(l, l[n].id) = n
    BY <2>1, PositionFinds DEF Distinct
  <2>3. Find(l, l[n].id) = l[n]
    BY <2>2 DEF Find
  <2> QED
    BY <2>1, <2>3 DEF BookOf, ContentOf
<1>2. \A id \in Ids : id \notin IdsOf(l) => BookOf(l)[id] = NoPassword
  BY DEF BookOf
<1> QED
  BY <1>1, <1>2

LEMMA ContentType == \A p \in Profile : ContentOf(p) \in Contents
  BY DEF ContentOf, Contents, Profile

LEMMA EmptyBook == BookOf(<<>>) = Book!Empty /\ Distinct(<<>>)
<1>1. IdsOf(<<>>) = {}
  BY DEF IdsOf
<1> QED
  BY <1>1 DEF BookOf, Book!Empty, Distinct

\* upsert() writes the profile's own entry.
LEMMA UpsertedBook ==
  ASSUME NEW l \in Seq(Profile), NEW p \in Profile, Distinct(l)
  PROVE  /\ Distinct(Upserted(l, p))
         /\ BookOf(Upserted(l, p)) = [BookOf(l) EXCEPT ![p.id] = ContentOf(p)]
<1> DEFINE new == Upserted(l, p)
<1>1. new \in Seq(Profile) /\ IdsOf(new) = IdsOf(l) \cup {p.id} /\ p.id \in Ids
  BY UpsertedType DEF Profile
<1>2. PICK at \in 1..Len(new) :
        /\ new[at] = p
        /\ \A n \in 1..Len(new) : n # at => n \in 1..Len(l) /\ new[n] = l[n]
        /\ \A n \in 1..Len(l) : n \in 1..Len(new)
        /\ \A n \in 1..Len(l) : n # at <=> l[n].id # p.id
  <2>1. CASE p.id \in IdsOf(l)
    <3> DEFINE k == Position(l, p.id)
    <3>1. k \in 1..Len(l) /\ l[k].id = p.id
      BY <2>1, PositionFinds
    <3>2. new = [l EXCEPT ![k] = p]
      BY <2>1 DEF Upserted
    <3>3. Len(new) = Len(l) /\ \A n \in 1..Len(l) : new[n] = IF n = k THEN p ELSE l[n]
      BY <3>1, <3>2, ExceptSeq
    <3> HIDE DEF k, new
    <3>4. \A n \in 1..Len(l) : n # k <=> l[n].id # p.id
      BY <3>1 DEF Distinct
    <3> QED
      BY <3>1, <3>3, <3>4
  <2>2. CASE p.id \notin IdsOf(l)
    <3>1. new = Append(l, p)
      BY <2>2 DEF Upserted
    <3>2. /\ Len(new) = Len(l) + 1 /\ Len(l) \in Nat /\ new[Len(l) + 1] = p
          /\ \A n \in 1..Len(l) : new[n] = l[n]
      BY <3>1
    <3>3. \A n \in 1..Len(l) : l[n].id # p.id
      BY <2>2 DEF IdsOf
    <3> HIDE DEF new
    <3> QED
      BY <3>2, <3>3
  <2> QED
    BY <2>1, <2>2
<1> HIDE DEF new
<1>3. Distinct(new)
  BY <1>2 DEF Distinct
<1>4. \A id \in Ids : BookOf(new)[id] = [BookOf(l) EXCEPT ![p.id] = ContentOf(p)][id]
  <2>1. SUFFICES ASSUME NEW id \in Ids
                 PROVE  BookOf(new)[id] = IF id = p.id THEN ContentOf(p) ELSE BookOf(l)[id]
    BY DEF BookOf
  <2>2. CASE id = p.id
    BY <1>1, <1>2, <1>3, <2>2, BookEntry
  <2>3. CASE id # p.id /\ id \in IdsOf(l)
    <3>1. PICK n \in 1..Len(l) : l[n].id = id
      BY <2>3 DEF IdsOf
    <3>2. n \in 1..Len(new) /\ new[n] = l[n]
      BY <1>2, <2>3, <3>1
    <3>3. BookOf(new)[new[n].id] = ContentOf(new[n])
      BY <1>1, <1>3, <3>2, BookEntry
    <3>4. BookOf(l)[l[n].id] = ContentOf(l[n])
      BY BookEntry
    <3> QED
      BY <2>3, <3>1, <3>2, <3>3, <3>4
  <2>4. CASE id # p.id /\ id \notin IdsOf(l)
    <3>1. id \notin IdsOf(new)
      BY <1>1, <2>4
    <3> QED
      BY <1>1, <1>3, <2>4, <3>1, BookEntry
  <2> QED
    BY <2>2, <2>3, <2>4
<1>5. BookOf(new) = [BookOf(l) EXCEPT ![p.id] = ContentOf(p)]
  BY <1>4 DEF BookOf
<1> QED
  BY <1>3, <1>5 DEF new

\* remove() takes the profile's entry.
LEMMA RemovedBook ==
  ASSUME NEW l \in Seq(Profile), NEW id \in IdsOf(l), Distinct(l)
  PROVE  /\ Distinct(Removed(l, id))
         /\ BookOf(Removed(l, id)) = [BookOf(l) EXCEPT ![id] = NoPassword]
<1> DEFINE at == Position(l, id)
           new == Removed(l, id)
<1>1. at \in 1..Len(l) /\ l[at].id = id /\ Len(l) \in Nat /\ id \in Ids
  BY PositionFinds, LenProperties, ListedIds
<1>2. new \in Seq(Profile) /\ IdsOf(l) \ {id} \subseteq IdsOf(new) /\ IdsOf(new) \subseteq IdsOf(l)
  BY RemovedType
<1>3. /\ Len(new) = Len(l) - 1
      /\ \A n \in 1..Len(new) : new[n] = IF n < at THEN l[n] ELSE l[n + 1]
  <2>1. new = [n \in 1..(Len(l) - 1) |-> IF n < at THEN l[n] ELSE l[n + 1]]
    BY DEF Removed
  <2>2. \A n \in 1..(Len(l) - 1) : (IF n < at THEN l[n] ELSE l[n + 1]) \in Profile
    BY <1>1
  <2>3. new \in [1..(Len(l) - 1) -> Profile] /\ Len(l) - 1 \in Nat
    BY <1>1, <2>1, <2>2
  <2>4. Len(new) = Len(l) - 1
    BY <2>3, FunctionIsSeq
  <2> QED
    BY <2>1, <2>4
<1> HIDE DEF at, new
<1>4. \A n \in 1..Len(new) : \E m \in 1..Len(l) : m # at /\ m = (IF n < at THEN n ELSE n + 1) /\ new[n] = l[m]
  BY <1>1, <1>3
<1>5. Distinct(new)
  <2>1. SUFFICES ASSUME NEW m \in 1..Len(new), NEW n \in 1..Len(new), new[m].id = new[n].id
                 PROVE  m = n
    BY DEF Distinct
  <2>2. (IF m < at THEN m ELSE m + 1) = (IF n < at THEN n ELSE n + 1)
    BY <1>4, <2>1 DEF Distinct
  <2> QED
    BY <1>1, <1>3, <2>2
<1>6. id \notin IdsOf(new)
  <2>1. \A n \in 1..Len(new) : new[n].id # id
    BY <1>1, <1>4 DEF Distinct
  <2> QED
    BY <2>1 DEF IdsOf
<1>7. \A k \in Ids : BookOf(new)[k] = IF k = id THEN NoPassword ELSE BookOf(l)[k]
  <2>1. SUFFICES ASSUME NEW k \in Ids
                 PROVE  BookOf(new)[k] = IF k = id THEN NoPassword ELSE BookOf(l)[k]
    OBVIOUS
  <2>2. CASE k = id
    BY <1>2, <1>5, <1>6, <2>2, BookEntry
  <2>3. CASE k # id /\ k \in IdsOf(new)
    <3>1. PICK n \in 1..Len(new) : new[n].id = k
      BY <2>3 DEF IdsOf
    <3>2. PICK m \in 1..Len(l) : new[n] = l[m]
      BY <1>4
    <3>3. BookOf(new)[new[n].id] = ContentOf(new[n])
      BY <1>2, <1>5, BookEntry
    <3>4. BookOf(l)[l[m].id] = ContentOf(l[m])
      BY BookEntry
    <3> QED
      BY <2>3, <3>1, <3>2, <3>3, <3>4
  <2>4. CASE k # id /\ k \notin IdsOf(new)
    <3>1. k \notin IdsOf(l)
      BY <1>2, <2>4
    <3> QED
      BY <1>2, <1>5, <2>4, <3>1, BookEntry
  <2> QED
    BY <2>2, <2>3, <2>4
<1>8. BookOf(new) = [BookOf(l) EXCEPT ![id] = NoPassword]
  BY <1>7 DEF BookOf
<1> QED
  BY <1>5, <1>8 DEF new

LEMMA BookType ==
  ASSUME NEW l \in Seq(Profile)
  PROVE  BookOf(l) \in Book!Books
<1>1. ASSUME NEW id \in IdsOf(l)
      PROVE  ContentOf(Find(l, id)) \in Contents
  BY PositionFinds, ContentType, ElementOfSeq DEF Find
<1> QED
  BY <1>1 DEF BookOf, ContentOf, Book!Books

\* save() of a list that differs from the last one in one entry is a change of the book.
LEMMA SaveBook ==
  ASSUME OneEach, running, running' = running,
         NEW new \in Seq(Profile), Distinct(new), Save(new),
         NEW id \in Ids, NEW c \in Contents \cup {NoPassword},
         BookOf(new) = [BookOf(list) EXCEPT ![id] = c]
  PROVE  OneEach' /\ Book!Change
<1>1. list' = new /\ (file' = Encoded(new) \/ file' = file)
  BY DEF Save
<1>2. Decoded(file)' = new \/ Decoded(file)' = Decoded(file)
  BY <1>1, SavedReadsBack DEF Decoded
<1>3. Distinct(list)' /\ Distinct(Decoded(file))'
  BY <1>1, <1>2 DEF OneEach, Distinct
<1>4. /\ BookOf(list)' = BookOf(new)
      /\ BookOf(Decoded(file))' \in {BookOf(Decoded(file)), BookOf(new)}
  BY <1>1, <1>2 DEF BookOf
<1>5. BookOf(list)' \in Book!Books
  BY <1>1, <1>4, BookType
<1>6. \A other \in Ids \ {id} : BookOf(list)'[other] = BookOf(list)[other]
  BY <1>4 DEF BookOf
<1> QED
  BY <1>3, <1>4, <1>5, <1>6 DEF OneEach, Book!Change

LEMMA BookStep ==
  ASSUME IInv, OneEach, [Next]_vars
  PROVE  OneEach' /\ [Book!Next]_Book!vars
<1>0. list \in Seq(Profile) /\ todo \in Seq(Task)
  BY DEF IInv, TypeOK
<1>1. ASSUME UNCHANGED <<running, list, file>>
      PROVE  OneEach' /\ UNCHANGED Book!vars
  <2>1. list' = list /\ Decoded(file)' = Decoded(file)
    BY <1>1 DEF Decoded
  <2>2. OneEach'
    BY <2>1 DEF OneEach, Distinct
  <2>3. BookOf(list)' = BookOf(list) /\ BookOf(Decoded(file))' = BookOf(Decoded(file))
    BY <2>1 DEF BookOf
  <2> QED
    BY <1>1, <2>2, <2>3 DEF Book!vars
<1>2. CASE Start
  <2>1. /\ ~running /\ running' = TRUE /\ file' = file
        /\ list' = Decoded(file) \/ list' = <<>>
    BY <1>2 DEF Start, Load
  <2>2. Decoded(file)' = Decoded(file)
    BY <2>1 DEF Decoded
  <2>3. OneEach'
    BY <2>1, <2>2, EmptyBook DEF OneEach, Distinct
  <2>4. /\ BookOf(Decoded(file))' = BookOf(Decoded(file))
        /\ BookOf(list)' \in {BookOf(Decoded(file)), Book!Empty}
    BY <2>1, <2>2, EmptyBook DEF BookOf
  <2> QED
    BY <2>1, <2>3, <2>4 DEF Book!Next, Book!Open
<1>3. CASE End
  <2>1. running /\ running' = FALSE /\ file' = file /\ list' = <<>>
    BY <1>3 DEF End
  <2>2. Decoded(file)' = Decoded(file)
    BY <2>1 DEF Decoded
  <2>3. OneEach'
    BY <2>1, <2>2, EmptyBook DEF OneEach, Distinct
  <2>4. BookOf(Decoded(file))' = BookOf(Decoded(file)) /\ BookOf(list)' = Book!Empty
    BY <2>1, <2>2, EmptyBook DEF BookOf
  <2> QED
    BY <2>1, <2>3, <2>4 DEF Book!Next, Book!Close
<1>4. CASE AddProfile \/ EditProfile \/ RemoveProfile \/ DuplicateProfile \/ Import
  <2>1. UNCHANGED <<running, list, file>>
    BY <1>4 DEF AddProfile, EditProfile, RemoveProfile, DuplicateProfile, Import, Accepted, Begin, stores
  <2> QED
    BY <1>1, <2>1
<1>5. CASE Step
  <2>1. running /\ running' = running /\ Head(todo) \in Task
    BY <1>0, <1>5, HeadTailProperties DEF Step
  <2>2. CASE Head(todo).op = "upsert"
    <3> DEFINE p == Head(todo).profile
    <3>1. p \in Profile /\ p.id \in Ids
      BY <2>1, <2>2 DEF Task, Profile
    <3>2. Save(Upserted(list, p))
      BY <1>5, <2>2 DEF Step
    <3> HIDE DEF p
    <3>3. Upserted(list, p) \in Seq(Profile)
      BY <1>0, <3>1, UpsertedType
    <3>4. /\ Distinct(Upserted(list, p))
          /\ BookOf(Upserted(list, p)) = [BookOf(list) EXCEPT ![p.id] = ContentOf(p)]
      BY <1>0, <3>1, UpsertedBook DEF OneEach
    <3>5. ContentOf(p) \in Contents
      BY <3>1, ContentType
    <3>6. OneEach' /\ Book!Change
      BY <2>1, <3>1, <3>2, <3>3, <3>4, <3>5, SaveBook
    <3> QED
      BY <3>6 DEF Book!Next
  <2>3. CASE Head(todo).op = "remove"
    <3> DEFINE id == Head(todo).id
    <3>1. IF id \in IdsOf(list) THEN Save(Removed(list, id)) ELSE UNCHANGED <<list, file, faults>>
      BY <1>5, <2>3 DEF Step
    <3> HIDE DEF id
    <3>2. CASE id \in IdsOf(list)
      <4>1. Removed(list, id) \in Seq(Profile) /\ id \in Ids
        BY <1>0, <3>2, RemovedType, ListedIds
      <4>2. /\ Distinct(Removed(list, id))
            /\ BookOf(Removed(list, id)) = [BookOf(list) EXCEPT ![id] = NoPassword]
        BY <1>0, <3>2, RemovedBook DEF OneEach
      <4>3. OneEach' /\ Book!Change
        BY <2>1, <3>1, <3>2, <4>1, <4>2, SaveBook
      <4> QED
        BY <4>3 DEF Book!Next
    <3>3. CASE id \notin IdsOf(list)
      BY <1>1, <2>1, <3>1, <3>3
    <3> QED
      BY <3>2, <3>3
  <2>4. CASE Head(todo).op \in {"store", "forget"}
    <3>1. UNCHANGED <<list, file>>
      BY <1>5, <2>4 DEF Step, Give, Erase, stores
    <3> QED
      BY <1>1, <2>1, <3>1
  <2> QED
    BY <2>1, <2>2, <2>3, <2>4 DEF Task
<1>6. CASE DaemonAnswers \/ DaemonStops \/ UNCHANGED vars
  <2>1. UNCHANGED <<running, list, file>>
    BY <1>6 DEF DaemonAnswers, DaemonStops, stores, vars
  <2> QED
    BY <1>1, <2>1
<1> QED
  BY <1>2, <1>3, <1>4, <1>5, <1>6 DEF Next

\* Whatever fails and wherever the process ends, the file is a whole book that the list
\* was at some time, and one call changes one profile of both: ProfileStore implements
\* ProfileBook.
THEOREM BookIsKept == Spec => KeepsBook
<1>1. Init => OneEach /\ Book!Init
  <2> SUFFICES ASSUME Init
               PROVE  OneEach /\ Book!Init
    OBVIOUS
  <2>1. list = <<>> /\ Decoded(file) = <<>> /\ running = FALSE
    BY DEF Init, Decoded
  <2> QED
    BY <2>1, EmptyBook DEF OneEach, Book!Init
<1>2. IInv /\ OneEach /\ [Next]_vars => OneEach' /\ [Book!Next]_Book!vars
  BY BookStep
<1> QED
  BY InitIInv, StepIInv, <1>1, <1>2, PTL DEF Spec, KeepsBook, Book!Spec
=============================================================================
