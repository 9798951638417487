-------------------------------- MODULE Wire --------------------------------
(***************************************************************************)
(* The messages between a host and its plugin, as the Loader and the        *)
(* Module see them.  One message of the multiplexer is one record; how it   *)
(* is cut into frames, and what happens when two messages use one frame ID  *)
(* at the same time, is the subject of Multiplexer.tla.                     *)
(***************************************************************************)
EXTENDS Naturals, Sequences

CONSTANTS
  Calls,         \* Call / SendRequest invocations of the host, each made once
  HostNotes,     \* SendMessage / SendErrorMessage invocations of the host
  PeerNotes,     \* SendMessage invocations of the plugin (MessageTypeNotify)
  PeerErrors,    \* SendErrorMessage invocations of the plugin (MessageTypeError)
  PeerRequests,  \* SendRequest invocations of the plugin (MessageTypeRequest)
  ClockNumbers,  \* the numbers its clock may give them (generateSequenceID)
  None,          \* no call, no message
  IdSpace        \* number of values of a sequence number (2^32 in the code)

PeerBodies == PeerNotes \cup PeerErrors \cup PeerRequests
Bodies == Calls \cup HostNotes \cup PeerBodies
Ids == 0 .. IdSpace - 1

ASSUME NoneAssumption == None \notin Bodies
ASSUME SpaceAssumption == IdSpace \in Nat \ {0}
ASSUME ClockAssumption == ClockNumbers \subseteq Ids
ASSUME BodiesDisjoint == /\ Calls \cap HostNotes = {}
                         /\ Calls \cap PeerBodies = {}

\* A message as the receiver sees it: its multiplexer sequence number, what
\* its header says, and the invocation it is about.
ToPluginKinds == {"request", "message", "shutdown", "force_shutdown",
                  "request_ready", "garbled"}
ToHostKinds == {"ready", "shutdown_ack", "force_shutdown_ack", "request_ready_ack",
                "response", "error", "notify", "plugin_request", "garbled"}
ToPluginMsgs == [kind : ToPluginKinds, seq : Ids, body : Bodies \cup {None}]
ToHostMsgs == [kind : ToHostKinds, seq : Ids, body : Bodies \cup {None}]

Msg(kind, seq, body) == [kind |-> kind, seq |-> seq, body |-> body]
=============================================================================
