----------------------------- MODULE MCTunnels -----------------------------
(* TunnelProcess, Transports, Proxies and Streams, small.  They model       *)
(* different transports and share nothing: each behaviour runs one of them, *)
(* the others keep their first initial state.                               *)
EXTENDS TunnelProcess, Transports, Proxies, Streams

VARIABLE part

MCTunnelsInit ==
  /\ part \in {"process", "config", "proxy", "stream"}
  /\ NewBase /\ (part # "process" => kind = "direct")
  /\ NewTransport /\ (part # "config" => tunnel = FRP /\ installed)
  /\ NewProxy /\ (part # "proxy" => proxy = "tcp")
  /\ NewStream /\ (part # "stream" => stream = "vless")

MCTunnelsNext ==
  /\ \/ part = "process" /\ ProcessNext /\ UNCHANGED <<tvars, xvars, svars>>
     \/ part = "config" /\ TransportsNext /\ UNCHANGED <<vars, xvars, svars>>
     \/ part = "proxy" /\ ProxiesNext /\ UNCHANGED <<vars, tvars, svars>>
     \/ part = "stream" /\ StreamsNext /\ UNCHANGED <<vars, tvars, xvars>>
  /\ UNCHANGED part

\* A part that does not run has nothing under way, so that its fairness asks
\* nothing of it.
MCTunnelsSpec ==
  MCTunnelsInit /\ [][MCTunnelsNext]_<<part, vars, tvars, xvars, svars>> /\ ProxiesFairness

-----------------------------------------------------------------------------

\* The types of all four.
TunnelsTypeOK == ProcessTypeOK /\ TransportsTypeOK /\ ProxiesTypeOK /\ StreamsTypeOK
=============================================================================
