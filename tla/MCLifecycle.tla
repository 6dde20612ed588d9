----------------------------- MODULE MCLifecycle -----------------------------
(* Lifecycle on a small instance; the constants are in the .cfg file.  The  *)
(* bounds are on the callers, on the attempts and on go fail.Start(), none  *)
(* of which is assumed to be fair: they take nothing from the fairness.     *)
EXTENDS Lifecycle, TLC

CONSTANT MaxCalls

Begun == {a \in Attempts : apc[a] # "idle"}

\* At most MaxCalls calls of Start, Stop and ConnectToRemote are made.
Called ==
  Cardinality(Begun) + Cardinality({s \in Stoppers : spc[s] # "idle"})

\* Calls of one kind are interchangeable: they begin in the order of their
\* numbers.
InOrder(pc, calls) ==
  \A i, j \in calls : i < j /\ pc[j] # "idle" => pc[i] # "idle"

\* An attempt begins when the one before it is over; Start and Stop overlap it.
OneAttempt == Cardinality(InFlight) <= 1

\* The third call comes when no attempt is in flight and hangs are left to two
\* calls.  It is a Start or a Stop: after an attempt, one Start and a Stop that
\* is not its own; or after an attempt that succeeded and one that failed.
ThirdCall ==
  Called = MaxCalls =>
    /\ InFlight = {} /\ hasWg /\ ~hangs /\ hlock = {}
    /\ Begun # {} => spc[2] = "idle"
    /\ Begun = Attempts => apc[1] = "done" /\ apc[2] = "failed"
    /\ spc[Caller] # "idle" => apc[1] \in {"idle", "done"}

\* Where only the best tunnel is active, Start and Stop do what they do in the
\* other mode: there, only attempts.
BestMode ==
  ~allActive => \A s \in Stoppers : spc[s] = "idle"

\* An evaluator that starts late meets a Stop, not an attempt.
EvaluatorStarted ==
  InFlight # {} => fail.pending = 0

\* With an attempt, the other caller's Stop comes before Start has made its
\* tasks, and Start's own when the evaluator runs.
StopsInOrder ==
  Begun # {} =>
    /\ spc[Caller] = "idle" /\ spc'[Caller] # "idle"
         => \A s \in Sessions : spc[s] \in {"idle", "tui"}
    /\ \A s \in Stoppers : spc[s] # "stop" /\ spc'[s] = "stop" => fail.pending = 0

MCLifecycleNext ==
  /\ LifecycleNext
  /\ StopsInOrder
  /\ (/\ Called <= MaxCalls /\ OneAttempt /\ ThirdCall /\ BestMode
      /\ EvaluatorStarted
      /\ InOrder(apc, Attempts) /\ InOrder(spc, Sessions))'

MCLifecycleSpec ==
  LifecycleInit /\ [][MCLifecycleNext]_lvars /\ LifecycleFairness
==============================================================================
