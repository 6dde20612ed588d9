----------------------------- MODULE MCServices -----------------------------
(* The packages that the orchestrator does not use, on small instances.     *)
(* They share nothing: each behaviour runs one of them, the others keep     *)
(* their first initial state, in which nothing is under way that fairness   *)
(* could ask for.                                                           *)
EXTENDS Watcher, Rotator, RateLimiter, Resolver, Console

VARIABLE part

Text(mode, transports, ports) == [mode |-> mode, transports |-> transports, ports |-> ports]

\* Two valid ones, and one with a port used twice.
Small   == Text("lite", {}, [t \in {} |-> 0])
Listed  == Text("", {"ssh", "tcp"}, [t \in {"ssh"} |-> 22])
Clash   == Text("full", {}, [t \in {"ssh", "tcp"} |-> 22])
Texts   == {Small, Listed, Clash}

\* "n.io" and "nyx.io".
TwoHosts == {<< <<110>>, <<105, 111>> >>, << <<110, 121, 120>>, <<105, 111>> >>}

MCServicesInit ==
  /\ part \in {"watcher", "rotator", "limiter", "resolver", "console"}
  /\ NewWatcher /\ (part # "watcher" => file.text = Small)
  /\ NewRotator /\ NewLimiter /\ NewResolver
  /\ NewConsole /\ (part # "console" => program = "menu")

MCServicesNext ==
  /\ \/ part = "watcher"  /\ WatcherNext  /\ UNCHANGED <<rvars, lvars, nvars, cvars>>
     \/ part = "rotator"  /\ RotatorNext  /\ UNCHANGED <<wvars, lvars, nvars, cvars>>
     \/ part = "limiter"  /\ LimiterNext  /\ UNCHANGED <<wvars, rvars, nvars, cvars>>
     \/ part = "resolver" /\ ResolverNext /\ UNCHANGED <<wvars, rvars, lvars, cvars>>
     \/ part = "console"  /\ ConsoleNext  /\ UNCHANGED <<wvars, rvars, lvars, nvars>>
  /\ UNCHANGED part

MCServicesSpec ==
  /\ MCServicesInit /\ [][MCServicesNext]_<<part, wvars, rvars, lvars, nvars, cvars>>
  /\ WatcherFairness

-----------------------------------------------------------------------------

\* The types of all five.
ServicesTypeOK ==
  WatcherTypeOK /\ RotatorTypeOK /\ LimiterTypeOK /\ ResolverTypeOK /\ ConsoleTypeOK
=============================================================================
