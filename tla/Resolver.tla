------------------------------ MODULE Resolver ------------------------------
(***************************************************************************)
(* The two caches of names and addresses.  The Resolver asks its name      *)
(* servers, and then the system, with its lock held; the DoHClient asks    *)
(* its server without.  Both may be told to clear their cache meanwhile.   *)
(* The entries of either carry, as a history, the number of clearings that *)
(* had happened when the address was asked for.                            *)
(***************************************************************************)
EXTENDS Integers, SequencesExt

CONSTANTS
  Askers,       \* goroutines that call Resolver.Lookup, the monitor's among them
  DoHAskers,    \* goroutines that call DoHClient.Lookup
  Hosts,        \* host names: sequences of labels, each a sequence of bytes
  Nameservers,  \* how many
  MaxClears     \* bound: clearings of each cache

NoAsker == "none"

\* A label is not empty and fits its length byte.
ASSUME ResolverAssumption ==
  /\ NoAsker \notin Askers
  /\ Hosts \subseteq Seq(Seq(1 .. 255)) /\ MaxClears \in Nat /\ Nameservers \in Nat

VARIABLES
  cache,        \* host -> entry
  lockedBy,     \* the writer that holds r.mu, or NoAsker
  lookups,      \* asker -> the call of Lookup it is in
  clears,       \* calls of ClearCache
  dohCache, dohLookups, dohClears

nvars == <<cache, lockedBy, lookups, clears, dohCache, dohLookups, dohClears>>

-----------------------------------------------------------------------------
(* Messages, as sequences of bytes.                                        *)

Header(flags, answers) == <<18, 52>> \o flags \o <<0, 1, 0, answers, 0, 0, 0, 0>>

\* makeDNSQuery after its header: the name, type A, class IN.
Question(host) ==
  FoldLeft(LAMBDA msg, label : msg \o <<Len(label)>> \o label, <<>>, host) \o <<0, 0, 1, 0, 1>>

MakeDNSQuery(host) == Header(<<1, 0>>, 0) \o Question(host)

\* What a name server makes of it: the question, and one address as the answer.
Respond(query) ==
  Header(<<129, 128>>, 1) \o SubSeq(query, 13, Len(query))
    \o <<192, 12, 0, 1, 0, 1, 0, 0, 1, 44, 0, 4, 10, 0, 0, 1>>

\* Byte i of the message, counted from 0.
Byte(data, i) == data[i + 1]
Word(data, i) == 256 * Byte(data, i) + Byte(data, i + 1)

\* Where the answers are taken to begin: after the first zero byte of the message,
\* which is one of the header's, and a type and a class.
AnswersAt(data) ==
  LET zeros == {i \in 0 .. 11 : Byte(data, i) = 0}
  IN IF zeros = {} THEN 12 ELSE (CHOOSE i \in zeros : \A j \in zeros : i <= j) + 5

\* The addresses found, as a sequence; f walks the answers.
ParseDNSResponse(data) ==
  LET answers == Word(data, 6)
      walk[n \in 0 .. answers, at \in 0 .. Len(data) + 65547] ==
        IF n = answers \/ at + 12 > Len(data) THEN <<>>
        ELSE LET len == Word(data, at + 10)
                 ip  == IF Word(data, at + 2) = 1 /\ len = 4 /\ at + 16 <= Len(data)
                        THEN <<SubSeq(data, at + 13, at + 16)>> ELSE <<>>
             IN ip \o walk[n + 1, at + 12 + len]
  IN IF answers = 0 THEN <<>> ELSE walk[0, AnswersAt(data)]

\* What lookupUDP may find: no server, no answer, or its answer parsed.
LookupUDP(host) == {<<>>, ParseDNSResponse(Respond(MakeDNSQuery(host)))}

-----------------------------------------------------------------------------

Idle == [at |-> "idle"]

Entry(epoch) == [epoch |-> epoch, fresh |-> TRUE]

Fresh(entries, host) == host \in DOMAIN entries /\ entries[host].fresh

Put(entries, host, entry) ==
  [h \in DOMAIN entries \cup {host} |-> IF h = host THEN entry ELSE entries[h]]

NewResolver ==
  /\ cache = [h \in {} |-> Idle] /\ dohCache = [h \in {} |-> Idle]
  /\ lockedBy = NoAsker /\ clears = 0 /\ dohClears = 0
  /\ lookups = [a \in Askers |-> Idle] /\ dohLookups = [a \in DoHAskers |-> Idle]

\* An entry found at once, under the read lock, is returned; otherwise the lock
\* must be had for writing.
Lookup(a, host) ==
  /\ lookups[a] = Idle /\ lockedBy = NoAsker
  /\ ~Fresh(cache, host)
  /\ lookups' = [lookups EXCEPT ![a] = [at |-> "lock", host |-> host]]
  /\ UNCHANGED <<cache, lockedBy, clears, dohCache, dohLookups, dohClears>>

\* Another may have stored the entry meanwhile.
LockAndLook(a) ==
  /\ lookups[a].at = "lock" /\ lockedBy = NoAsker
  /\ IF Fresh(cache, lookups[a].host)
     THEN /\ lookups' = [lookups EXCEPT ![a] = Idle]
          /\ UNCHANGED lockedBy
     ELSE /\ lockedBy' = a
          /\ lookups' = [lookups EXCEPT ![a] =
                           [at |-> "ask", host |-> @.host, server |-> 1, epoch |-> clears]]
  /\ UNCHANGED <<cache, clears, dohCache, dohLookups, dohClears>>

Store(a) ==
  /\ cache' = Put(cache, lookups[a].host, Entry(lookups[a].epoch))
  /\ lookups' = [lookups EXCEPT ![a] = Idle]
  /\ lockedBy' = NoAsker

\* One name server after the other, until one has an address.
AskNameserver(a) ==
  /\ lookups[a].at = "ask" /\ lookups[a].server <= Nameservers
  /\ \E ips \in LookupUDP(lookups[a].host) :
       IF ips # <<>> THEN Store(a)
       ELSE /\ lookups' = [lookups EXCEPT ![a].server = @ + 1]
            /\ UNCHANGED <<cache, lockedBy>>
  /\ UNCHANGED <<clears, dohCache, dohLookups, dohClears>>

\* And the system in the end, which may not know it either.
AskSystem(a) ==
  /\ lookups[a].at = "ask" /\ lookups[a].server > Nameservers
  /\ \/ Store(a)
     \/ /\ lookups' = [lookups EXCEPT ![a] = Idle] /\ lockedBy' = NoAsker
        /\ UNCHANGED cache
  /\ UNCHANGED <<clears, dohCache, dohLookups, dohClears>>

\* Mutant: the map is replaced without the lock.
ClearCacheUnlocked ==
  /\ clears < MaxClears
  /\ cache' = [h \in {} |-> Idle] /\ clears' = clears + 1
  /\ UNCHANGED <<lockedBy, lookups, dohCache, dohLookups, dohClears>>

ClearCache ==
  /\ lockedBy = NoAsker /\ clears < MaxClears
  /\ cache' = [h \in {} |-> Idle] /\ clears' = clears + 1
  /\ UNCHANGED <<lockedBy, lookups, dohCache, dohLookups, dohClears>>

\* The time to live of an entry of one of the caches runs out.
Expire ==
  \/ \E h \in DOMAIN cache :
       /\ cache' = [cache EXCEPT ![h].fresh = FALSE]
       /\ UNCHANGED <<lockedBy, lookups, clears, dohCache, dohLookups, dohClears>>
  \/ \E h \in DOMAIN dohCache :
       /\ dohCache' = [dohCache EXCEPT ![h].fresh = FALSE]
       /\ UNCHANGED <<cache, lockedBy, lookups, clears, dohLookups, dohClears>>

\* DoHClient.Lookup: the lock is held for the first look and for the store alone.
DoHLookup(a, host) ==
  /\ dohLookups[a] = Idle /\ ~Fresh(dohCache, host)
  /\ dohLookups' = [dohLookups EXCEPT ![a] = [at |-> "get", host |-> host, epoch |-> dohClears]]
  /\ UNCHANGED <<cache, lockedBy, lookups, clears, dohCache, dohClears>>

DoHAnswer(a) ==
  /\ dohLookups[a].at = "get"
  /\ dohCache' = Put(dohCache, dohLookups[a].host, Entry(dohLookups[a].epoch))
  /\ dohLookups' = [dohLookups EXCEPT ![a] = Idle]
  /\ UNCHANGED <<cache, lockedBy, lookups, clears, dohClears>>

\* No answer, one that does not parse, or a status that is not 0: nothing is stored.
DoHFails(a) ==
  /\ dohLookups[a].at = "get"
  /\ dohLookups' = [dohLookups EXCEPT ![a] = Idle]
  /\ UNCHANGED <<cache, lockedBy, lookups, clears, dohCache, dohClears>>

DoHClearCache ==
  /\ dohClears < MaxClears
  /\ dohCache' = [h \in {} |-> Idle] /\ dohClears' = dohClears + 1
  /\ UNCHANGED <<cache, lockedBy, lookups, clears, dohLookups>>

ResolverNext ==
  \/ \E a \in Askers :
       \/ \E host \in Hosts : Lookup(a, host)
       \/ LockAndLook(a) \/ AskNameserver(a) \/ AskSystem(a)
  \/ \E a \in DoHAskers :
       \/ \E host \in Hosts : DoHLookup(a, host)
       \/ DoHAnswer(a) \/ DoHFails(a)
  \/ ClearCache \/ DoHClearCache \/ Expire

ResolverSpec == NewResolver /\ [][ResolverNext]_nvars

-----------------------------------------------------------------------------

\* The types; a lookup asks exactly while it holds the lock.
ResolverTypeOK ==
  /\ DOMAIN cache \subseteq Hosts /\ DOMAIN dohCache \subseteq Hosts
  /\ Range(cache) \cup Range(dohCache) \subseteq [epoch : 0 .. MaxClears, fresh : BOOLEAN]
  /\ clears \in 0 .. MaxClears /\ dohClears \in 0 .. MaxClears
  /\ \A a \in Askers : lookups[a].at = "ask" <=> lockedBy = a
  /\ \A a \in DoHAskers : dohLookups[a] = Idle \/ dohLookups[a].at = "get"

\* A cleared resolver forgets: an address that was asked for before the latest clearing
\* is in the cache neither then nor later, though the lookup may have been under way; and
\* no host is asked for whose address is in the cache and fresh, however many ask at once.
CacheIsTrue ==
  /\ \A h \in DOMAIN cache : cache[h].epoch = clears
  /\ \A a \in Askers : lookups[a].at = "ask" => ~Fresh(cache, lookups[a].host)
=============================================================================
