---------------------------- MODULE RateLimiter ----------------------------
(***************************************************************************)
(* Token buckets, one for each key, and the calls that spend from them.  A *)
(* call gets its bucket under the limiter's lock and spends under the      *)
(* bucket's: between the two, Remove may take the bucket off the map.      *)
(***************************************************************************)
EXTENDS Integers, Sequences, Functions

CONSTANTS
  Clients,     \* goroutines that ask
  Keys,        \* what the buckets are named after
  Amounts,     \* tokens asked for
  MaxTokens, RefillRate,
  Timeout,     \* of Wait
  MaxTime,     \* bound: ticks of the clock
  MaxBuckets   \* bound: buckets made

ASSUME RateLimiterAssumption ==
  /\ Amounts \subseteq Nat /\ MaxTokens \in Nat /\ RefillRate \in Nat
  /\ Timeout \in Nat /\ MaxTime \in Nat /\ MaxBuckets \in Nat

VARIABLES
  clock,
  made,        \* the buckets made so far; a bucket is known by its number
  bucketOf,    \* the limiter's map: key -> bucket
  calls        \* client -> the call it is in

lvars == <<clock, made, bucketOf, calls>>

NoCall == [at |-> "idle"]

NewLimiter ==
  /\ clock = 0 /\ made = <<>>
  /\ bucketOf = [k \in {} |-> 0]
  /\ calls = [c \in Clients |-> NoCall]

\* born and spent are a history: when it was made, and what it has granted.
NewTokenBucket == [tokens |-> MaxTokens, lastRefill |-> clock, born |-> clock, spent |-> 0]

Smaller(a, b) == IF a < b THEN a ELSE b

\* Mutant: the time of the refill is not kept.
RefillAgain(b) ==
  [b EXCEPT !.tokens = Smaller(MaxTokens, @ + (clock - b.lastRefill) * RefillRate)]

Refill(b) ==
  [b EXCEPT !.tokens = Smaller(MaxTokens, @ + (clock - b.lastRefill) * RefillRate),
            !.lastRefill = clock]

-----------------------------------------------------------------------------

Pass == clock < MaxTime /\ clock' = clock + 1 /\ UNCHANGED <<made, bucketOf, calls>>

\* The first half of Allow, or of a Wait until the deadline.
GetBucket(c, key, amount, deadline) ==
  /\ calls[c] = NoCall
  /\ key \in DOMAIN bucketOf \/ Len(made) < MaxBuckets
  /\ IF key \in DOMAIN bucketOf
     THEN UNCHANGED <<made, bucketOf>>
     ELSE /\ made' = Append(made, NewTokenBucket)
          /\ bucketOf' = [k \in DOMAIN bucketOf \cup {key} |->
                            IF k = key THEN Len(made') ELSE bucketOf[k]]
  /\ calls' = [calls EXCEPT ![c] =
       [at |-> "bucket", bucket |-> bucketOf'[key], amount |-> amount, deadline |-> deadline]]
  /\ UNCHANGED clock

\* The second half, when the bucket has enough.
Granted(c) ==
  /\ calls[c].at = "bucket"
  /\ LET b == Refill(made[calls[c].bucket])
     IN /\ b.tokens >= calls[c].amount
        /\ made' = [made EXCEPT ![calls[c].bucket] =
                      [b EXCEPT !.tokens = @ - calls[c].amount, !.spent = @ + calls[c].amount]]
  /\ calls' = [calls EXCEPT ![c] = NoCall]
  /\ UNCHANGED <<clock, bucketOf>>

\* When it has not: Allow returns, and Wait too once its deadline is past.
Refused(c) ==
  /\ calls[c].at = "bucket"
  /\ LET b == Refill(made[calls[c].bucket])
     IN b.tokens < calls[c].amount /\ made' = [made EXCEPT ![calls[c].bucket] = b]
  /\ calls' = [calls EXCEPT ![c] = IF clock > @.deadline THEN NoCall ELSE @]
  /\ UNCHANGED <<clock, bucketOf>>

RemoveBucket(key) ==
  /\ key \in DOMAIN bucketOf
  /\ bucketOf' = Restrict(bucketOf, DOMAIN bucketOf \ {key})
  /\ UNCHANGED <<clock, made, calls>>

\* Allow has no deadline: it has passed before.
LimiterNext ==
  \/ Pass
  \/ \E c \in Clients :
       \/ \E key \in Keys, amount \in Amounts, deadline \in {-1, clock + Timeout} :
            GetBucket(c, key, amount, deadline)
       \/ Granted(c) \/ Refused(c)
  \/ \E key \in Keys : RemoveBucket(key)

LimiterSpec == NewLimiter /\ [][LimiterNext]_lvars

-----------------------------------------------------------------------------

\* The types; a bucket holds between nothing and MaxTokens.
LimiterTypeOK ==
  /\ clock \in 0 .. MaxTime
  /\ \A i \in DOMAIN made : made[i].tokens \in 0 .. MaxTokens /\ made[i].lastRefill \in 0 .. clock
  /\ DOMAIN bucketOf \subseteq Keys /\ Range(bucketOf) \subseteq DOMAIN made
  /\ \A c \in Clients : calls[c] = NoCall \/ calls[c].bucket \in DOMAIN made

\* However the calls of several clients and the removals interleave, a bucket grants at
\* most one burst and what it was refilled with since it was made.
BoundedSpending ==
  \A i \in DOMAIN made :
    made[i].spent <= MaxTokens + (clock - made[i].born) * RefillRate
=============================================================================
