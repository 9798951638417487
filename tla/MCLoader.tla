------------------------------ MODULE MCLoader ------------------------------
(* Instances of Loader.tla for TLC.                                         *)
EXTENDS LoaderProps, FiniteSets, TLC

CONSTANTS c1, c2, c3, n1, p1, e1, r1

OneCall == {c1}
TwoCalls == {c1, c2}
ThreeCalls == {c1, c2, c3}
OneHostNote == {n1}
OnePeerNote == {p1}
OnePeerError == {e1}
OnePeerRequest == {r1}
Nobody == {}
JustClose == {"close"}
BothClosers == {"close", "force"}
ZeroOrOne == {0, 1}
JustOne == {1}

\* A bound: at most two one-way messages, messages and requests of the plugin's own,
\* or none and the plugin's code ends Listen.
AtMostTwo ==
  LET others == Cardinality({n \in HostNotes : notePc[n] # "idle"}) + Cardinality(peerSent)
  IN others <= IF peer \in {"leaving", "forced"} THEN 0 ELSE 2

CallSymmetry == Permutations(Calls)
=============================================================================
