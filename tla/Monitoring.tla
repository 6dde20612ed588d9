----------------------------- MODULE Monitoring ------------------------------
(***************************************************************************)
(* The running system's decision loop: Orchestrator.startMonitoring        *)
(* (src/internal/orchestrator/lifecycle.go) composed with the failover     *)
(* engine (Failover.tla), the routing engine's paths and current path      *)
(* (src/internal/routing/engine.go), the callback Init registers           *)
(* (orchestrator.go) and the scheduler's failover counter (multipath.go).  *)
(*                                                                         *)
(* Three kinds of goroutine interleave: the monitoring loop, the failover  *)
(* evaluator, and one goroutine per callback the evaluator starts.  Each   *)
(* lock section is a step; the three Update calls for one transport are    *)
(* one step, since only the failover engine's is visible to anyone else    *)
(* (the loop is the only reader of the paths between its own writes).      *)
(*                                                                         *)
(* One ping of the REMOTE HOST gives the latency and loss used for every   *)
(* transport of the round.  A score is then a part that comes from the     *)
(* ping, the same for all, plus a part of the transport's own (jitter and  *)
(* stability); a ping with more than half the packets lost scores 0.       *)
(* The loop takes the scores from the manager's List, which asks every     *)
(* registered transport, one after the other: one whose Score does not     *)
(* return keeps the loop there, in its first round and for good.  That of  *)
(* the websocket transport never does: base.go's BaseScore holds the lock  *)
(* that its scoring function takes again.                                  *)
(*                                                                         *)
(* The scheduler's path weights and the manager's copy of them, which no   *)
(* variable here depends on, are left out.                                 *)
(***************************************************************************)
EXTENDS Failover

CONSTANTS
  Primary,      \* the path ConnectToRemote makes current: "wireguard"
  Bases,        \* the ping's part of a score
  Qualities,    \* the transport's own part of a score
  ScoreDiff,    \* the loop switches for a score better by more than this (15)
  MayFail,      \* transports whose tunnel process may die
  MayHang,      \* transports whose Score may be one that does not return
  MaxCount      \* bound: failovers are not counted beyond this

ASSUME PrimaryAssumption == Primary \in Transports

ASSUME MayFailAssumption == MayFail \subseteq Transports /\ MayHang \subseteq Transports

ASSUME ScoreAssumption ==
  /\ Bases \subseteq Nat
  /\ Qualities \subseteq Nat
  /\ ScoreDiff \in Nat

ASSUME CountAssumption == MaxCount \in Nat

VARIABLES
  up,             \* o.running \/ o.connected
  pc,             \* where the monitoring loop is
  ping,           \* the round's measurement of the host
  pending,        \* the transports the round has not updated yet
  best,           \* the loop's local best
  paths,          \* routing engine: the score of each path
  current,        \* routing engine: the current path
  failoverCount,  \* scheduler: FailoverCount
  counting,       \* callback goroutines between SetCurrent and RecordFailover
  switches,       \* ghost: how often a failover set the current path
  failed,         \* transports whose tunnel process has died
  hanging         \* registered transports whose Score does not return

loopVars  == <<pc, ping, pending, best, paths>>
routeVars == <<current, failoverCount, counting, switches>>
mvars     == <<vars, loopVars, routeVars, up, failed, hanging>>

NoScore == -1

Pings == [lost : {FALSE}, good : BOOLEAN, base : Bases]
           \cup {[lost |-> TRUE, good |-> FALSE, base |-> 0]}

Score(p, q) == IF p.lost THEN 0 ELSE p.base + q

\* getCurrentScore: a current path that is not among the paths scores 0.
CurrentScore == IF paths[current] = NoScore THEN 0 ELSE paths[current]

BestPaths == {b \in Transports : \A t \in Transports : paths[t] <= paths[b]}

Saturate(n) == IF n < MaxCount THEN n + 1 ELSE n

MonitoringTypeOK ==
  /\ TypeOK
  /\ up \in BOOLEAN
  /\ pc \in {"check", "list", "update", "best", "current", "switch", "count", "recount", "exit"}
  /\ ping \in Pings
  /\ pending \subseteq Transports
  /\ best \in Transports
  /\ paths \in [Transports -> Nat \cup {NoScore}]
  /\ current \in Transports
  /\ failoverCount \in 0 .. MaxCount
  /\ counting \in Nat
  /\ switches \in 0 .. MaxCount
  /\ failed \subseteq Transports /\ hanging \subseteq MayHang

\* Orchestrator.Init has registered the callbacks, ConnectToRemote has made
\* Primary current and is about to start the loop; nothing was measured yet.
MonitoringInit ==
  /\ states = [t \in Transports |-> Absent]
  /\ onFailoverCb = TRUE
  /\ onRecoverCb = TRUE
  /\ running = FALSE
  /\ stopCh = "open"
  /\ loops = [l \in Loops |-> "unborn"]
  /\ failoverCalls = [d \in Transports |-> [h \in Transports |-> 0]]
  /\ recoverCalls = [t \in Transports |-> 0]
  /\ panicked = FALSE
  /\ up = TRUE
  /\ pc = "check"
  /\ ping \in Pings
  /\ pending = {}
  /\ best = Primary
  /\ paths = [t \in Transports |-> NoScore]
  /\ current = Primary
  /\ failoverCount = 0
  /\ counting = 0
  /\ switches = 0
  /\ failed = {}
  /\ hanging \in SUBSET MayHang

------------------------------------------------------------------------------
(* The monitoring loop.                                                    *)


\* The top of the loop: the flags are read under o.mu, then the host is pinged.
BeginRound ==
  /\ pc = "check"
  /\ up
  /\ ping' \in Pings
  /\ ping'.good \/ \A t \in Transports : states[t].FailCount < FailCountCap
  /\ pc' = "list"
  /\ UNCHANGED <<vars, pending, best, paths, routeVars, up, failed, hanging>>

\* List returns when every registered transport has measured the host; UpdateOne
\* picks what it measured.
ListReturns ==
  /\ pc = "list"
  /\ hanging = {}
  /\ pending' = Transports
  /\ pc' = "update"
  /\ UNCHANGED <<vars, ping, best, paths, routeVars, up, failed, hanging>>

EndMonitoring ==
  /\ pc = "check"
  /\ ~up
  /\ pc' = "exit"
  /\ UNCHANGED <<vars, ping, pending, best, paths, routeVars, up, failed, hanging>>

\* Mutant of UpdateOne: the transport's health comes from a ping of its own.
UpdateOneByOwnPing(t) ==
  /\ pc = "update"
  /\ t \in pending
  /\ \E q \in Qualities : paths' = [paths EXCEPT ![t] = Score(ping, q)]
  /\ \E good \in BOOLEAN : Update(t, good)
  /\ pending' = pending \ {t}
  /\ pc' = IF pending = {t} THEN "best" ELSE "update"
  /\ UNCHANGED <<ping, best, routeVars, up, failed, hanging>>

\* routeEngine.Update and fail.Update for the next transport of the list,
\* which is in an order of its own every round.
UpdateOne(t) ==
  /\ pc = "update"
  /\ t \in pending
  /\ \E q \in Qualities : paths' = [paths EXCEPT ![t] = Score(ping, q)]
  /\ Update(t, ping.good)
  /\ pending' = pending \ {t}
  /\ pc' = IF pending = {t} THEN "best" ELSE "update"
  /\ UNCHANGED <<ping, best, routeVars, up, failed, hanging>>

\* BestPath: the maximum, ties broken by map order.
PickBest ==
  /\ pc = "best"
  /\ best' \in BestPaths
  /\ pc' = "current"
  /\ UNCHANGED <<vars, ping, pending, paths, routeVars, up, failed, hanging>>

\* Mutant of ReadCurrent: the difference is taken the other way round.
ReadCurrentReversed ==
  /\ pc = "current"
  /\ pc' = IF best # current /\ CurrentScore - paths[best] > ScoreDiff
           THEN "switch" ELSE "check"
  /\ UNCHANGED <<vars, ping, pending, best, paths, routeVars, up, failed, hanging>>

\* Current is read after BestPath, under a lock of its own, and the decision
\* is taken on what was read.
ReadCurrent ==
  /\ pc = "current"
  /\ pc' = IF best # current /\ paths[best] - CurrentScore > ScoreDiff
           THEN "switch" ELSE "check"
  /\ UNCHANGED <<vars, ping, pending, best, paths, routeVars, up, failed, hanging>>

\* Mutant of SwitchToBest: the callback's arguments are swapped.
SwitchToBestSwapped ==
  /\ pc = "switch"
  /\ current' = current
  /\ switches' = Saturate(switches)
  /\ pc' = "count"
  /\ UNCHANGED <<vars, ping, pending, best, paths, failoverCount, counting,
                 up, failed, hanging>>

\* The loop calls the callback itself: SetCurrent(best) ...
SwitchToBest ==
  /\ pc = "switch"
  /\ current' = best
  /\ switches' = Saturate(switches)
  /\ pc' = "count"
  /\ UNCHANGED <<vars, ping, pending, best, paths, failoverCount, counting,
                 up, failed, hanging>>

\* Mutant of CountSwitch: the failover is not recorded.
CountSwitchForgets ==
  /\ pc \in {"count", "recount"}
  /\ pc' = IF pc = "count" THEN "recount" ELSE "check"
  /\ UNCHANGED <<vars, ping, pending, best, paths, current, failoverCount, counting,
                 switches, up, failed, hanging>>

\* ... and RecordFailover, and then records the failover once more itself.
CountSwitch ==
  /\ pc \in {"count", "recount"}
  /\ failoverCount' = Saturate(failoverCount)
  /\ pc' = IF pc = "count" THEN "recount" ELSE "check"
  /\ UNCHANGED <<vars, ping, pending, best, paths, current, counting, switches,
                 up, failed, hanging>>

------------------------------------------------------------------------------
(* The evaluator, its callbacks, and the rest of the process.              *)

\* Orchestrator.Start runs fail.Start in a goroutine, which may be as late as
\* after Stop: then nothing ends the evaluator.
StartEvaluator(l) ==
  /\ Start(l)
  /\ UNCHANGED <<loopVars, routeVars, up, failed, hanging>>

EvaluatorStep(l) ==
  /\ Evaluate(l) \/ LoopExit(l)
  /\ UNCHANGED <<loopVars, routeVars, up, failed, hanging>>

\* The failover callback, in a goroutine of its own: SetCurrent(to) whatever
\* the current path is by then ...
CallbackSwitch(d, h) ==
  /\ counting < MaxInFlight
  /\ RunFailoverCall(d, h)
  /\ current' = h
  /\ switches' = Saturate(switches)
  /\ counting' = counting + 1
  /\ UNCHANGED <<failoverCount, loopVars, up, failed, hanging>>

\* Mutant of CallbackCount: a failover is recorded that did not happen.
CallbackCountAnyway ==
  /\ counting' = counting - 1
  /\ failoverCount' = Saturate(failoverCount)
  /\ UNCHANGED <<current, switches, vars, loopVars, up, failed, hanging>>

\* ... then RecordFailover.
CallbackCount ==
  /\ counting > 0
  /\ counting' = counting - 1
  /\ failoverCount' = Saturate(failoverCount)
  /\ UNCHANGED <<current, switches, vars, loopVars, up, failed, hanging>>

RecoverCallback(t) ==
  /\ RunRecoverCall(t)
  /\ UNCHANGED <<loopVars, routeVars, up, failed, hanging>>

\* Orchestrator.Stop: both flags down and fail.Stop, all under o.mu.
Shutdown ==
  /\ up
  /\ up' = FALSE
  /\ IF running THEN Stop ELSE UNCHANGED vars
  /\ UNCHANGED <<loopVars, routeVars, failed, hanging>>

\* The process behind a tunnel exits; at most its waiter sets the status Failed,
\* which neither the loop nor a score looks at.
TunnelFails(t) ==
  /\ t \in MayFail \ failed
  /\ failed' = failed \cup {t}
  /\ UNCHANGED <<vars, loopVars, routeVars, up, hanging>>

------------------------------------------------------------------------------
LoopStep ==
  \/ BeginRound \/ EndMonitoring \/ ListReturns
  \/ PickBest \/ ReadCurrent \/ SwitchToBest \/ CountSwitch
  \/ \E t \in Transports : UpdateOne(t)

MonitoringNext ==
  \/ BeginRound \/ EndMonitoring \/ ListReturns
  \/ PickBest \/ ReadCurrent \/ SwitchToBest \/ CountSwitch
  \/ \E t \in Transports : UpdateOne(t)
  \/ \E l \in Loops : StartEvaluator(l) \/ EvaluatorStep(l)
  \/ \E d, h \in Transports : CallbackSwitch(d, h)
  \/ CallbackCount
  \/ \E t \in Transports : RecoverCallback(t)
  \/ Shutdown
  \/ \E t \in MayFail : TunnelFails(t)

MonitoringSpec == MonitoringInit /\ [][MonitoringNext]_mvars

\* The loop is driven by a ticker and every goroutine that can run does, which a
\* loop that waits in List cannot; that Start or Stop is called or a tunnel dies
\* is never owed.
MonitoringFairness ==
  /\ WF_mvars(LoopStep)
  /\ \A l \in Loops : WF_mvars(EvaluatorStep(l))
  /\ \A d, h \in Transports : WF_mvars(CallbackSwitch(d, h))
  /\ WF_mvars(CallbackCount)
  /\ \A t \in Transports : WF_mvars(RecoverCallback(t))

FairMonitoringSpec == MonitoringSpec /\ MonitoringFairness

------------------------------------------------------------------------------
(* Properties.                                                             *)

\* Outside the update phase of a round all transports are in the same state:
\* they were all given the same measurements.  Within it, those already
\* updated agree, those still pending agree, and the two groups are exactly
\* one measurement of the host apart.
Agree(S) == \A t, u \in S : states[t] = states[u]
RoundsAreUniform ==
  /\ pc # "update" => Agree(Transports)
  /\ pc = "update" =>
       /\ Agree(pending)
       /\ Agree(Transports \ pending)
       /\ \A t \in Transports \ pending, u \in pending :
            IF ping.good THEN states[t].Status = "healthy"
            ELSE states[t].FailCount = states[u].FailCount + 1

\* So the evaluator can tell transports apart, and call for a failover, only
\* by catching a round half way through while the host is coming BACK: never
\* when transports go down, and never between rounds (MaxFailCount >= 2).
EvaluatorActsOnRecoveryOnly ==
  [][(\E d, h \in Transports : failoverCalls'[d][h] > failoverCalls[d][h])
       => pc = "update" /\ ping.good]_mvars

\* The loop's own switch goes to a path no other path beats at that moment,
\* although other goroutines may have moved current since the loop read it.
LoopSwitchesToBest ==
  [][pc = "switch" /\ pc' = "count" => current' \in BestPaths]_mvars

\* RecordFailover follows every SetCurrent of a failover, at least once and at
\* most twice (the loop records what its callback has recorded already).
Uncounted == counting + (IF pc = "count" THEN 1 ELSE 0)
SwitchesAreCounted ==
  /\ switches <= failoverCount + Uncounted
  /\ failoverCount <= 2 * switches

\* The current path does not stay more than ScoreDiff behind the best one for
\* ever, whatever the callbacks do to it meanwhile.  (A loop that never returns
\* from its first List leaves no path with a score to compare.)
Lagging == \E b \in Transports : paths[b] - CurrentScore > ScoreDiff
LaggardAbandoned == []<>~(up /\ Lagging)


\* README: degraded tunnels are detected and switched away from.
FailedTunnelAbandoned ==
  \A t \in MayFail :
    (up /\ current = t /\ t \in failed) ~> (~up \/ current # t)
==============================================================================
