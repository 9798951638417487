------------------------------ MODULE MCModule ------------------------------
(* Instances of Module.tla for TLC.                                         *)
EXTENDS WireCodec

CONSTANTS c1, c2, e1, r1

TwoCalls == {c1, c2}
OnePeerError == {e1}
OnePeerRequest == {r1}
Nobody == {}
JustOne == {1}
AllEnds == {"Shutdown", "ForceShutdown", "cancel"}

\* A Loader announces at most one of its two shutdowns; another host may do both.
HostTalk == {Msg("request", 1, c1), Msg("garbled", 2, c2),
             Msg("request_ready", 1, None), Msg("shutdown", 2, None),
             Msg("force_shutdown", 3, None)}
=============================================================================
