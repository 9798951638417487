---------------------------- MODULE MCMultiplexer ----------------------------
(* Instances of Multiplexer.tla for TLC: one message beyond the limit, one    *)
(* within it.                                                                *)
EXTENDS MultiplexerProps

CONSTANTS m1, m2

Two == {m1, m2}
JustFirst == {m1}
Nothing == {}
BothEndings == {"eof", "error"}
OneOrTwo == {1, 2}

SmallMessages == [m \in Messages |-> IF m = m1 THEN 2 ELSE 1]
EqualMessages == [m \in Messages |-> 2]
=============================================================================
