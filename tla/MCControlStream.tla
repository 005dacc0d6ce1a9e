--------------------------- MODULE MCControlStream ---------------------------
(***************************************************************************)
(* Instances of ControlStream for TLC: which events each run lets the      *)
(* environment produce.                                                    *)
(***************************************************************************)
EXTENDS ControlStream

\* Two callers of one connection, timed out, cut off and disconnected.
FaultyEvents == AllEvents \ {"early_call", "malformed", "not_object", "bad_handshake",
                             "reconnect", "cancel"}

\* One caller, two connections, everything that can keep a call from ending.
LiveEvents == AllEvents \ {"malformed", "duplicate"}

\* A server that repeats responses, sends garbage and closes; no caller is
\* interrupted, no send is suspended, and the owner does not disconnect.
SteadyEvents == {"command", "duplicate", "malformed", "close"}

\* A caller that is impatient, and calls again.
TimeoutEvents == {"command", "timeout"}
==============================================================================
