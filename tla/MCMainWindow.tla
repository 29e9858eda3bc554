---------------------------- MODULE MCMainWindow ----------------------------
(* Instances of MainWindow for TLC. *)
EXTENDS MainWindow

P(id, kind, auto, tries) ==
  [id |-> id, kind |-> kind, auto |-> auto, tries |-> tries, backoff |-> 40]

\* One reconnecting profile of every kind, and the SSL VPN profile after an edit
\* that lowered its tries.
EveryKind == {P(k, k, TRUE, 2) : k \in Kinds} \cup {P("SslVpn", "SslVpn", TRUE, 1)}
=============================================================================
