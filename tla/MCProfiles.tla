----------------------------- MODULE MCProfiles -----------------------------
EXTENDS Profiles, TLC

CONSTANTS id1, id2, pw1, pw2, h1, h2
Alike == Permutations({id1, id2}) \cup Permutations({pw1, pw2}) \cup Permutations({h1, h2})
OneWired == <<"eth0">>
TwoWired == <<"eth0", "eth1">>
None == <<>>

(***************************************************************************)
(* remove_if as the library runs it, from the element it finds: id is that *)
(* element's own, read anew from its slot for every comparison, and the    *)
(* slot is overwritten by the first element that stays.                    *)
(***************************************************************************)
Compacted(profiles, at) ==
  LET loop[n \in at..Len(profiles)] ==
        IF n = at THEN [slots |-> profiles, first |-> at]
        ELSE LET s == loop[n - 1]
             IN IF s.slots[n].id = s.slots[at].id THEN s
                ELSE [slots |-> [s.slots EXCEPT ![s.first] = s.slots[n]], first |-> s.first + 1]
      done == loop[Len(profiles)]
  IN SubSeq(done.slots, 1, done.first - 1)

Orders(n) == {[k \in 1..n |-> [id |-> perm[k]]] : perm \in Permutations(1..n)}
ASSUME RemoveLoop ==
  \A n \in 1..4 : \A profiles \in Orders(n), at \in 1..n :
    Compacted(profiles, at) = Removed(profiles, profiles[at].id)
=============================================================================
