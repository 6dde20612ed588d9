--------------------------- MODULE ServicesProofs ---------------------------
(***************************************************************************)
(* Theorems about the watcher, the rotator, the rate limiter, the resolver *)
(* and the console programs, each by itself and side by side as in         *)
(* MCServices, for any number of goroutines, configurations, keys, hosts   *)
(* and tokens.                                                             *)
(***************************************************************************)
EXTENDS MCServices, FiniteSetTheorems, TLAPS

-----------------------------------------------------------------------------
(* The watcher.  A time that a loop has seen is one the file has had.      *)

LoopAt == {"none", "start", "wait", "due", "load", "call", "ended"}

Loops == [at : LoopAt, mod : Nat, config : Configs \cup {NoConfig}]

FileTypes ==
  /\ file \in [mod : Nat, text : Configs \cup {Partial}]
  /\ saving \in Configs \cup {NoConfig} /\ (file.text = Partial <=> saving # NoConfig)
  /\ file.mod <= 2 * MaxSaves + 1 /\ (saving # NoConfig => file.mod <= 2 * MaxSaves)

FlagsTyped ==
  wrunning \in BOOLEAN /\ news \in BOOLEAN /\ wstop \in {"open", "closed", "panicked"}

LoopsTyped ==
  /\ wloops \in [1 .. MaxLoops -> Loops]
  /\ \A i \in 1 .. MaxLoops : wloops[i].at = "call" => Validate(wloops[i].config)

SeenTimes ==
  /\ lastMod \in Nat /\ lastMod <= file.mod
  /\ \A i \in 1 .. MaxLoops : wloops[i].at \in {"start", "due"} => wloops[i].mod <= file.mod

HandedValid == handed # NoConfig => Validate(handed)

WatcherInv == FileTypes /\ FlagsTyped /\ LoopsTyped /\ SeenTimes /\ HandedValid

\* A new loop that has nothing to hand over, or something valid, keeps the loops typed.
LEMMA OneLoopChanges ==
  ASSUME LoopsTyped, NEW i \in 1 .. MaxLoops, NEW l \in Loops,
         l.at = "call" => Validate(l.config), wloops' = [wloops EXCEPT ![i] = l]
  PROVE  /\ LoopsTyped'
         /\ \A j \in 1 .. MaxLoops : wloops'[j] = IF j = i THEN l ELSE wloops[j]
  BY DEF LoopsTyped

\* A step of a loop that leaves the file alone.
LEMMA LoopKeepsInv ==
  ASSUME WatcherInv, NEW i \in 1 .. MaxLoops, NEW l \in Loops,
         l.at = "call" => Validate(l.config), l.at \in {"start", "due"} => l.mod <= file.mod,
         wloops' = [wloops EXCEPT ![i] = l], UNCHANGED <<file, saving, wstop, news>>,
         wrunning' \in BOOLEAN, lastMod' \in Nat /\ lastMod' <= file.mod, HandedValid'
  PROVE  WatcherInv'
<1>1. /\ LoopsTyped'
      /\ \A j \in 1 .. MaxLoops : wloops'[j] = IF j = i THEN l ELSE wloops[j]
  BY OneLoopChanges DEF WatcherInv
<1>2. SeenTimes'
  BY <1>1 DEF WatcherInv, SeenTimes
<1>3. QED
  BY <1>1, <1>2 DEF WatcherInv, FileTypes, FlagsTyped

LEMMA WatcherInvInit == NewWatcher => WatcherInv
<1> SUFFICES ASSUME NewWatcher PROVE WatcherInv
  OBVIOUS
<1> USE WatcherAssumption DEF WatcherAssumption
<1>1. FileTypes
  BY DEF NewWatcher, FileTypes
<1>2. Loop("none", 0, NoConfig) \in Loops
  BY DEF Loop, Loops, LoopAt
<1>3. LoopsTyped /\ \A i \in 1 .. MaxLoops : wloops[i].at = "none"
  BY <1>2 DEF NewWatcher, LoopsTyped, Loop
<1>4. SeenTimes
  BY <1>1, <1>3 DEF NewWatcher, SeenTimes, FileTypes
<1>5. QED
  BY <1>1, <1>3, <1>4 DEF WatcherInv, NewWatcher, FlagsTyped, HandedValid

LEMMA WatcherInvNext ==
  ASSUME WatcherInv, [WatcherNext]_wvars
  PROVE  WatcherInv'
<1> USE WatcherAssumption DEF WatcherAssumption
<1>1. ASSUME NEW c \in Configs, BeginSave(c)
      PROVE  WatcherInv'
  <2>1. FileTypes' /\ file.mod <= file'.mod
    BY <1>1 DEF BeginSave, WatcherInv, FileTypes
  <2>2. SeenTimes'
    BY <1>1, <2>1 DEF BeginSave, WatcherInv, SeenTimes, FileTypes, LoopsTyped, Loops
  <2>3. QED
    BY <1>1, <2>1, <2>2 DEF BeginSave, WatcherInv, FlagsTyped, LoopsTyped, HandedValid
<1>2. CASE EndSave
  <2>1. FileTypes' /\ file.mod <= file'.mod
    BY <1>2 DEF EndSave, WatcherInv, FileTypes
  <2>2. SeenTimes'
    BY <1>2, <2>1 DEF EndSave, WatcherInv, SeenTimes, FileTypes, LoopsTyped, Loops
  <2>3. news' \in BOOLEAN
    BY <1>2 DEF EndSave
  <2>4. QED
    BY <1>2, <2>1, <2>2, <2>3 DEF EndSave, WatcherInv, FlagsTyped, LoopsTyped, HandedValid
<1>3. CASE WatcherStop
  <2>1. CASE wstop = "closed"
    <3>1. /\ wstop' = "panicked"
          /\ wloops' = [j \in DOMAIN wloops |-> Loop("ended", 0, NoConfig)]
      BY <1>3, <2>1 DEF WatcherStop
    <3>2. Loop("ended", 0, NoConfig) \in Loops /\ Loop("ended", 0, NoConfig).at = "ended"
      BY DEF Loop, Loops, LoopAt
    <3>3. LoopsTyped' /\ \A i \in 1 .. MaxLoops : wloops'[i].at = "ended"
      BY <3>1, <3>2 DEF WatcherInv, LoopsTyped
    <3>4. QED
      BY <1>3, <3>1, <3>3 DEF WatcherStop, WatcherInv, FileTypes, FlagsTyped, SeenTimes, HandedValid
  <2>2. CASE wstop # "closed"
    BY <1>3, <2>2 DEF WatcherStop, WatcherInv, FileTypes, FlagsTyped, SeenTimes, LoopsTyped, HandedValid
  <2>3. QED
    BY <2>1, <2>2
<1>4. ASSUME NEW i \in 1 .. MaxLoops, WatcherStart(i) \/ WatcherRuns(i) \/ LoopStep(i)
      PROVE  WatcherInv'
  <2> DEFINE l == wloops'[i]
  <2>1. wloops[i] \in Loops /\ wloops \in [1 .. MaxLoops -> Loops]
    BY DEF WatcherInv, LoopsTyped
  <2>2. \A a \in LoopAt : [wloops[i] EXCEPT !.at = a] \in Loops
    BY <2>1 DEF Loops
  <2>3. lastMod \in Nat /\ lastMod <= file.mod /\ file.mod \in Nat /\ wrunning \in BOOLEAN
    BY DEF WatcherInv, SeenTimes, FileTypes, FlagsTyped
  <2>11. UNCHANGED handed => HandedValid'
    BY DEF WatcherInv, HandedValid
  <2>4. CASE WatcherStart(i)
    <3> DEFINE n == Loop("start", file.mod, NoConfig)
    <3>1. n \in Loops /\ n.at = "start" /\ n.mod <= file.mod /\ wloops' = [wloops EXCEPT ![i] = n]
      BY <2>3, <2>4 DEF WatcherStart, LoopAt, Loop, Loops
    <3>2. UNCHANGED <<file, saving, wstop, news, wrunning, lastMod, handed>>
      BY <2>4 DEF WatcherStart
    <3> HIDE DEF n
    <3>3. QED
      BY <2>3, <2>11, <3>1, <3>2, LoopKeepsInv
  <2>12. CASE WatcherRuns(i)
    <3> DEFINE n == Loop("wait", 0, NoConfig)
    <3>1. n \in Loops /\ n.at = "wait" /\ wloops' = [wloops EXCEPT ![i] = n]
      BY <2>12 DEF WatcherRuns, LoopAt, Loop, Loops
    <3>2. /\ UNCHANGED <<file, saving, wstop, news, handed>>
          /\ wrunning' \in BOOLEAN /\ lastMod' \in Nat /\ lastMod' <= file.mod
      BY <2>1, <2>12 DEF WatcherRuns, WatcherInv, SeenTimes, Loops
    <3> HIDE DEF n
    <3>3. QED
      BY <2>11, <3>1, <3>2, LoopKeepsInv
  <2>5. CASE Stat(i)
    <3> DEFINE n == Loop("due", file.mod, NoConfig)
    <3>1. n \in Loops /\ n.at = "due" /\ n.mod = file.mod /\ wloops' = [wloops EXCEPT ![i] = n]
      BY <2>3, <2>5 DEF Stat, LoopAt, Loop, Loops
    <3>2. /\ UNCHANGED <<file, saving, wstop, news, wrunning, lastMod>>
          /\ n.mod <= file.mod
      BY <2>3, <2>5, <3>1 DEF Stat
    <3> HIDE DEF n
    <3>3. QED
      BY <2>3, <2>5, <2>11, <3>1, <3>2, LoopKeepsInv DEF Stat
  <2>6. CASE Advance(i)
    <3> DEFINE n == [wloops[i] EXCEPT !.at = "load"]
    <3>1. n \in Loops /\ n.at = "load" /\ wloops' = [wloops EXCEPT ![i] = n]
      BY <2>1, <2>2, <2>6 DEF Advance, LoopAt, Loops
    <3>2. lastMod' \in Nat /\ lastMod' <= file.mod
      BY <2>1, <2>6 DEF Advance, WatcherInv, SeenTimes, Loops
    <3> HIDE DEF n
    <3>3. QED
      BY <2>3, <2>6, <2>11, <3>1, <3>2, LoopKeepsInv DEF Advance
  <2>7. CASE Reload(i)
    <3> DEFINE n == IF Loads(file.text) THEN Loop("call", 0, file.text)
                                        ELSE Loop("wait", 0, NoConfig)
    <3>1. /\ n \in Loops /\ n.at \in {"call", "wait"}
          /\ n.at = "call" => Validate(n.config)
      <4>1. CASE Loads(file.text)
        <5>1. file.text \in Configs /\ Validate(file.text)
          BY <4>1 DEF Loads, WatcherInv, FileTypes
        <5>2. n = Loop("call", 0, file.text)
          BY <4>1
        <5>3. QED
          BY <5>1, <5>2 DEF Loop, Loops, LoopAt
      <4>2. CASE ~Loads(file.text)
        BY <4>2 DEF Loop, Loops, LoopAt
      <4>3. QED
        BY <4>1, <4>2
    <3>2. wloops' = [wloops EXCEPT ![i] = n]
      BY <2>7 DEF Reload
    <3> HIDE DEF n
    <3>3. QED
      BY <2>3, <2>7, <2>11, <3>1, <3>2, LoopKeepsInv DEF Reload
  <2>8. CASE OnChange(i)
    <3> DEFINE n == Loop("wait", 0, NoConfig)
    <3>1. n \in Loops /\ n.at = "wait" /\ wloops' = [wloops EXCEPT ![i] = n]
      BY <2>8 DEF OnChange, LoopAt, Loop, Loops
    <3>2. HandedValid'
      BY <2>8 DEF OnChange, WatcherInv, LoopsTyped, HandedValid
    <3> HIDE DEF n
    <3>3. QED
      BY <2>3, <2>8, <3>1, <3>2, LoopKeepsInv DEF OnChange
  <2>9. CASE WatcherExit(i)
    <3> DEFINE n == [wloops[i] EXCEPT !.at = "ended"]
    <3>1. n \in Loops /\ n.at = "ended" /\ wloops' = [wloops EXCEPT ![i] = n]
      BY <2>1, <2>2, <2>9 DEF WatcherExit, LoopAt, Loops
    <3> HIDE DEF n
    <3>2. QED
      BY <2>3, <2>9, <2>11, <3>1, LoopKeepsInv DEF WatcherExit
  <2>10. QED
    BY <1>4, <2>4, <2>12, <2>5, <2>6, <2>7, <2>8, <2>9 DEF LoopStep
<1>5. CASE UNCHANGED wvars
  BY <1>5 DEF wvars, WatcherInv, FileTypes, FlagsTyped, LoopsTyped, SeenTimes, HandedValid
<1>6. QED
  BY <1>1, <1>2, <1>3, <1>4, <1>5 DEF WatcherNext

LEMMA WatcherInvTypes == WatcherInv => WatcherTypeOK
  BY WatcherAssumption
  DEF WatcherAssumption, WatcherInv, FileTypes, FlagsTyped, LoopsTyped, SeenTimes,
      HandedValid, WatcherTypeOK, Loops, LoopAt

-----------------------------------------------------------------------------
(* The rotator.  A value is numbered by when it was made, so a new one is  *)
(* held by no secret and has not been announced.                           *)

SecretTypes ==
  /\ DOMAIN secrets \subseteq SecretNames
  /\ secrets \in [DOMAIN secrets -> [value : Nat, old : BOOLEAN]]
  /\ values \in 0 .. MaxValues

ValuesDistinct ==
  /\ \A n \in DOMAIN secrets : secrets[n].value <= values
  /\ \A n, m \in DOMAIN secrets : secrets[n].value = secrets[m].value => n = m

RotatorFlags ==
  /\ rrunning \in BOOLEAN /\ rstop \in {"open", "closed", "panicked"}
  /\ rloops \in [1 .. MaxRotators -> {"none", "wait", "ended"}]

AnnouncedOnce ==
  /\ renewed \subseteq 1 .. values
  /\ callbacks \cup announced = renewed /\ callbacks \cap announced = {}

RotatorInv == SecretTypes /\ ValuesDistinct /\ RotatorFlags /\ AnnouncedOnce

LEMMA RotatorInvInit == NewRotator => RotatorInv
<1> USE RotatorAssumption DEF RotatorAssumption
<1> SUFFICES ASSUME NewRotator PROVE RotatorInv
  OBVIOUS
<1>1. DOMAIN secrets = {} /\ SecretTypes
  BY DEF NewRotator, SecretTypes
<1>2. QED
  BY <1>1 DEF NewRotator, RotatorInv, ValuesDistinct, RotatorFlags, AnnouncedOnce

\* A round of renewals makes as many values as there are old secrets.
LEMMA RenewKeepsInv ==
  ASSUME RotatorInv, Renew
  PROVE  RotatorInv'
<1> USE RotatorAssumption DEF RotatorAssumption
<1> DEFINE last == values + Cardinality(Old)
<1>1. last \in Nat /\ values \in Nat /\ values <= last /\ last <= MaxValues /\ values' = last
  <2>1. IsFiniteSet(Old)
    BY FS_Subset DEF Old, RotatorInv, SecretTypes
  <2>2. Cardinality(Old) \in Nat
    BY <2>1, FS_CardinalityType
  <2>3. QED
    BY <2>2 DEF Renew, RotatorInv, SecretTypes
<1>2. PICK fresh \in [Old -> values + 1 .. last] :
        /\ \A n, m \in Old : fresh[n] = fresh[m] => n = m
        /\ secrets' = [n \in DOMAIN secrets |->
                         IF n \in Old THEN [secrets[n] EXCEPT !.value = fresh[n]] ELSE secrets[n]]
        /\ callbacks' = callbacks \cup {fresh[n] : n \in Old}
        /\ renewed' = renewed \cup {fresh[n] : n \in Old}
  BY DEF Renew
<1> HIDE DEF last
<1>3. Old \subseteq DOMAIN secrets /\ \A n \in Old : fresh[n] \in Nat /\ fresh[n] \in values + 1 .. last
  BY <1>1, <1>2 DEF Old
<1>4. /\ DOMAIN secrets' = DOMAIN secrets
      /\ \A n \in DOMAIN secrets :
           /\ secrets'[n] \in [value : Nat, old : BOOLEAN]
           /\ secrets'[n].value = IF n \in Old THEN fresh[n] ELSE secrets[n].value
  BY <1>2, <1>3 DEF RotatorInv, SecretTypes
<1>5. SecretTypes'
  BY <1>1, <1>2, <1>4 DEF RotatorInv, SecretTypes
<1>6. ValuesDistinct'
  <2>1. \A n \in DOMAIN secrets : secrets[n].value \in Nat /\ secrets[n].value <= values
    BY DEF RotatorInv, SecretTypes, ValuesDistinct
  <2>2. \A n \in DOMAIN secrets : secrets'[n].value <= last
    BY <1>1, <1>3, <1>4, <2>1
  <2>3. ASSUME NEW n \in DOMAIN secrets, NEW m \in DOMAIN secrets,
               secrets'[n].value = secrets'[m].value
        PROVE  n = m
    <3>1. CASE n \in Old /\ m \in Old
      BY <1>2, <1>4, <2>3, <3>1
    <3>2. CASE n \notin Old /\ m \notin Old
      BY <1>4, <2>3, <3>2 DEF RotatorInv, ValuesDistinct
    <3>3. CASE n \in Old /\ m \notin Old
      BY <1>1, <1>3, <1>4, <2>1, <2>3, <3>3
    <3>4. CASE n \notin Old /\ m \in Old
      BY <1>1, <1>3, <1>4, <2>1, <2>3, <3>4
    <3>5. QED
      BY <3>1, <3>2, <3>3, <3>4
  <2>4. QED
    BY <1>1, <1>4, <2>2, <2>3 DEF ValuesDistinct
<1>7. AnnouncedOnce'
  <2> DEFINE new == {fresh[n] : n \in Old}
  <2>1. \A v \in new : v \in 1 .. last /\ ~(v <= values)
    BY <1>1, <1>3
  <2>2. announced' = announced
    BY DEF Renew
  <2>3. /\ callbacks' = callbacks \cup new /\ renewed' = renewed \cup new
    BY <1>2
  <2>4. \A v \in renewed : v \in 1 .. values
    BY DEF RotatorInv, AnnouncedOnce
  <2>5. 1 .. values \subseteq 1 .. last /\ \A v \in 1 .. values : v <= values
    BY <1>1
  <2> HIDE DEF new
  <2>6. renewed' \subseteq 1 .. values'
    BY <1>1, <2>1, <2>3, <2>4, <2>5
  <2>7. new \cap announced = {}
    BY <2>1, <2>4, <2>5 DEF RotatorInv, AnnouncedOnce
  <2>8. QED
    BY <2>2, <2>3, <2>6, <2>7 DEF RotatorInv, AnnouncedOnce
<1>8. QED
  BY <1>5, <1>6, <1>7 DEF Renew, RotatorInv, RotatorFlags

LEMMA RotatorInvNext ==
  ASSUME RotatorInv, [RotatorNext]_rvars
  PROVE  RotatorInv'
<1> USE RotatorAssumption DEF RotatorAssumption
<1>1. ASSUME NEW name \in SecretNames, Register(name)
      PROVE  RotatorInv'
  <2>1. /\ values \in Nat /\ values' = values + 1 /\ values' \in 0 .. MaxValues
        /\ secrets' = [n \in DOMAIN secrets \cup {name} |->
                         IF n = name THEN Secret(values') ELSE secrets[n]]
    BY <1>1 DEF Register, RotatorInv, SecretTypes
  <2>2. Secret(values') \in [value : Nat, old : BOOLEAN] /\ Secret(values').value = values'
    BY <2>1 DEF Secret
  <2>3. /\ DOMAIN secrets' = DOMAIN secrets \cup {name}
        /\ \A n \in DOMAIN secrets' : secrets'[n] = IF n = name THEN Secret(values') ELSE secrets[n]
    BY <2>1
  <2>4. SecretTypes'
    BY <2>1, <2>2, <2>3 DEF RotatorInv, SecretTypes
  <2>5. ValuesDistinct'
    BY <2>1, <2>2, <2>3 DEF RotatorInv, SecretTypes, ValuesDistinct
  <2>6. AnnouncedOnce'
    BY <1>1, <2>1 DEF Register, RotatorInv, AnnouncedOnce
  <2>7. QED
    BY <1>1, <2>4, <2>5, <2>6 DEF Register, RotatorInv, RotatorFlags
<1>2. ASSUME NEW name \in SecretNames, GrowOld(name)
      PROVE  RotatorInv'
  <2>1. /\ DOMAIN secrets' = DOMAIN secrets
        /\ \A n \in DOMAIN secrets : /\ secrets'[n] \in [value : Nat, old : BOOLEAN]
                                     /\ secrets'[n].value = secrets[n].value
    BY <1>2 DEF GrowOld, RotatorInv, SecretTypes
  <2>2. SecretTypes'
    <3>1. secrets' \in [DOMAIN secrets -> [value : Nat, old : BOOLEAN]]
      BY <1>2, <2>1 DEF GrowOld
    <3>2. QED
      BY <1>2, <2>1, <3>1 DEF GrowOld, RotatorInv, SecretTypes
  <2>3. ValuesDistinct'
    BY <1>2, <2>1 DEF GrowOld, RotatorInv, ValuesDistinct
  <2>4. QED
    BY <1>2, <2>2, <2>3 DEF GrowOld, RotatorInv, RotatorFlags, AnnouncedOnce
<1>3. ASSUME NEW i \in 1 .. MaxRotators, RotatorStart(i) \/ RotatorExit(i)
      PROVE  RotatorInv'
  BY <1>3 DEF RotatorStart, RotatorExit, RotatorInv, SecretTypes, ValuesDistinct, RotatorFlags,
              AnnouncedOnce
<1>4. CASE RotatorStop
  BY <1>4 DEF RotatorStop, RotatorInv, SecretTypes, ValuesDistinct, RotatorFlags, AnnouncedOnce
<1>5. CASE Renew
  BY <1>5, RenewKeepsInv
<1>6. ASSUME NEW v \in callbacks, Announce(v)
      PROVE  RotatorInv'
  BY <1>6 DEF Announce, RotatorInv, SecretTypes, ValuesDistinct, RotatorFlags, AnnouncedOnce
<1>7. CASE UNCHANGED rvars
  BY <1>7 DEF rvars, RotatorInv, SecretTypes, ValuesDistinct, RotatorFlags, AnnouncedOnce
<1>8. QED
  BY <1>1, <1>2, <1>3, <1>4, <1>5, <1>6, <1>7 DEF RotatorNext, Tick, RotateNow

LEMMA RotatorInvTypes == RotatorInv => RotatorTypeOK
  BY DEF RotatorInv, SecretTypes, ValuesDistinct, RotatorFlags, AnnouncedOnce, RotatorTypeOK

-----------------------------------------------------------------------------
(* The update checker.  What it shows says where its command is.           *)

UpdateInv ==
  /\ fetch # "none" \/ ustate = "found" => program = "update"
  /\ fetch = "check" => ustate = "checking"
  /\ fetch \in {"download", "failed", "renamed"} => ustate = "downloading"
  /\ fetch = "renamed" \/ ustate = "done" => replaced
  /\ replaced => fetch = "renamed" \/ ustate = "done" \/ run # "running"

LEMMA UpdateInvInit == NewConsole => UpdateInv
  BY DEF NewConsole, UpdateInv

LEMMA UpdateInvNext ==
  ASSUME UpdateInv, [ConsoleNext]_cvars
  PROVE  UpdateInv'
<1> USE DEF UpdateInv, Update, Menu, menuOnly, updateOnly
<1>1. CASE ScreenKey \/ KeyQuit \/ KeyMove \/ KeyScreen \/ KeyEnter \/ KeyOther
  BY <1>1 DEF ScreenKey, Key, KeyQuit, KeyMove, KeyScreen, KeyEnter, KeyOther
<1>2. CASE MenuTick \/ MenuMessage \/ MenuQuits
  BY <1>2 DEF MenuTick, MenuMessage, MenuQuits
<1>3. CASE Checked
  BY <1>3 DEF Checked
<1>4. CASE UpdateEnter
  <2>1. CASE ustate = "found" /\ ustate' = "downloading" /\ fetch' = "download"
    BY <1>4, <2>1 DEF UpdateEnter
  <2>2. CASE UNCHANGED <<ustate, fetch>>
    BY <1>4, <2>2 DEF UpdateEnter
  <2>3. QED
    BY <1>4, <2>1, <2>2 DEF UpdateEnter
<1>5. CASE UpdateKeyQuit \/ UpdateQuits
  BY <1>5 DEF UpdateKeyQuit, UpdateQuits
<1>6. CASE DownloadToTmp \/ DownloadFails
  BY <1>6 DEF DownloadToTmp, DownloadFails
<1>7. CASE Replace
  BY <1>7 DEF Replace
<1>8. CASE Downloaded
  BY <1>8 DEF Downloaded
<1>9. CASE UNCHANGED cvars
  BY <1>9 DEF cvars
<1>10. QED
  BY <1>1, <1>2, <1>3, <1>4, <1>5, <1>6, <1>7, <1>8, <1>9 DEF ConsoleNext

\* What the update checker of update.go shows is so, whatever is pressed and whenever its
\* commands end: the executable is the new one when it says done, and not when it shows an
\* error or offers the download.
THEOREM UpdateTellsTruthTheorem == ConsoleSpec => []UpdateTellsTruth
<1>1. UpdateInv => UpdateTellsTruth
  BY DEF UpdateInv, UpdateTellsTruth
<1>2. QED
  BY <1>1, UpdateInvInit, UpdateInvNext, PTL DEF ConsoleSpec

-----------------------------------------------------------------------------
(* The rate limiter.  What a bucket holds and what it has granted are      *)
(* together no more than its burst and its refills.                        *)

Bucket == [tokens : Nat, lastRefill : Nat, born : Nat, spent : Nat]

CallsInBuckets == [at : {"bucket"}, bucket : Nat, amount : Nat, deadline : Int]

Balanced(b) ==
  /\ b.born <= b.lastRefill /\ b.lastRefill <= clock /\ b.tokens <= MaxTokens
  /\ b.tokens + b.spent <= MaxTokens + (b.lastRefill - b.born) * RefillRate

LimiterInv ==
  /\ clock \in Nat /\ clock <= MaxTime
  /\ made \in Seq(Bucket)
  /\ DOMAIN bucketOf \subseteq Keys
  /\ \A k \in DOMAIN bucketOf : bucketOf[k] \in 1 .. Len(made)
  /\ calls \in [Clients -> {NoCall} \cup CallsInBuckets]
  /\ \A c \in Clients : calls[c] # NoCall => calls[c].bucket \in 1 .. Len(made)
  /\ \A i \in 1 .. Len(made) : Balanced(made[i])

\* A refill adds to the tokens what it adds to the time.
LEMMA RefillBalances ==
  ASSUME NEW b \in Bucket, Balanced(b), clock \in Nat
  PROVE  /\ Refill(b) \in Bucket /\ Balanced(Refill(b))
         /\ Refill(b).lastRefill = clock
<1> DEFINE more == (clock - b.lastRefill) * RefillRate
           r == Refill(b)
<1>1. more \in Nat
  <2>1. clock - b.lastRefill \in Nat
    BY DEF Bucket, Balanced
  <2>2. \A m, n \in Nat : m * n \in Nat
    OBVIOUS
  <2>3. QED
    BY <2>1, <2>2, RateLimiterAssumption DEF RateLimiterAssumption
<1>2. /\ r \in Bucket /\ r.lastRefill = clock /\ r.born = b.born /\ r.spent = b.spent
      /\ r.tokens <= b.tokens + more /\ r.tokens <= MaxTokens
  <2> DEFINE t == Smaller(MaxTokens, b.tokens + more)
  <2>1. t \in Nat /\ t <= b.tokens + more /\ t <= MaxTokens
    BY <1>1, RateLimiterAssumption DEF Smaller, Bucket, RateLimiterAssumption
  <2>2. \A x, y \in Nat : LET n == [b EXCEPT !.tokens = x, !.lastRefill = y]
                          IN /\ n \in Bucket /\ n.tokens = x /\ n.lastRefill = y
                             /\ n.born = b.born /\ n.spent = b.spent
    BY DEF Bucket
  <2>3. r = [b EXCEPT !.tokens = t, !.lastRefill = clock]
    BY DEF Refill
  <2> HIDE DEF t, r, more
  <2>4. QED
    BY <2>1, <2>2, <2>3
<1>3. (b.lastRefill - b.born) * RefillRate + more = (clock - b.born) * RefillRate
  <2>1. \A l, n, t, f \in Nat : (l - n) * f + (t - l) * f = (t - n) * f
    OBVIOUS
  <2>2. b.lastRefill \in Nat /\ b.born \in Nat /\ RefillRate \in Nat
    BY RateLimiterAssumption DEF Bucket, RateLimiterAssumption
  <2>3. QED
    BY <2>1, <2>2
<1>4. Balanced(r)
  <2> DEFINE p == (b.lastRefill - b.born) * RefillRate
             q == (clock - b.born) * RefillRate
  <2>1. /\ r.spent = b.spent /\ r.born = b.born /\ r.lastRefill = clock
        /\ r.tokens \in Nat /\ r.tokens <= b.tokens + more /\ r.tokens <= MaxTokens
    BY <1>2 DEF Bucket
  <2>2. p \in Int /\ q \in Int /\ p + more = q
    <3>1. \A m, n \in Int : m * n \in Int
      OBVIOUS
    <3>2. b.lastRefill - b.born \in Int /\ clock - b.born \in Int /\ RefillRate \in Int
      BY RateLimiterAssumption DEF Bucket, RateLimiterAssumption
    <3>3. QED
      BY <1>3, <3>1, <3>2
  <2>3. b.tokens + b.spent <= MaxTokens + p
    BY DEF Balanced
  <2>4. r.tokens + r.spent <= MaxTokens + q
    <3> HIDE DEF p, q, more, r
    <3>1. b.tokens \in Nat /\ b.spent \in Nat /\ MaxTokens \in Nat
      BY RateLimiterAssumption DEF Bucket, RateLimiterAssumption
    <3>2. QED
      BY <1>1, <2>1, <2>2, <2>3, <3>1
  <2>5. QED
    BY <2>1, <2>4 DEF Balanced, Bucket
<1>5. QED
  BY <1>2, <1>4 DEF Bucket

\* What is granted is no longer held.
LEMMA SpendBalances ==
  ASSUME NEW b \in Bucket, Balanced(b), NEW amount \in Nat, b.tokens >= amount
  PROVE  LET g == [b EXCEPT !.tokens = @ - amount, !.spent = @ + amount]
         IN  g \in Bucket /\ Balanced(g)
<1> DEFINE x == b.tokens - amount
           y == b.spent + amount
           g == [b EXCEPT !.tokens = x, !.spent = y]
<1>1. /\ x \in Nat /\ y \in Nat /\ x + y = b.tokens + b.spent
      /\ x <= MaxTokens
  BY RateLimiterAssumption DEF Bucket, Balanced, RateLimiterAssumption
<1>2. \A t, n \in Nat : LET r == [b EXCEPT !.tokens = t, !.spent = n]
                        IN /\ r \in Bucket /\ r.tokens = t /\ r.spent = n
                           /\ r.born = b.born /\ r.lastRefill = b.lastRefill
  BY DEF Bucket
<1>3. /\ g \in Bucket /\ g.born = b.born /\ g.lastRefill = b.lastRefill
      /\ g.tokens = x /\ g.spent = y
  <2> HIDE DEF x, y
  <2>1. QED
    BY <1>1, <1>2
<1>4. Balanced(g)
  <2> HIDE DEF x, y, g
  <2>1. QED
    BY <1>1, <1>3 DEF Balanced
<1>5. QED
  BY <1>3, <1>4

\* An update of one bucket by a balanced one, as Granted and Refused make it.
LEMMA OneBucketChanges ==
  ASSUME LimiterInv, NEW i \in 1 .. Len(made), NEW b \in Bucket, Balanced(b),
         made' = [made EXCEPT ![i] = b], clock' = clock, UNCHANGED bucketOf,
         calls' \in [Clients -> {NoCall} \cup CallsInBuckets],
         \A c \in Clients : calls'[c] \in {calls[c], NoCall}
  PROVE  LimiterInv'
<1>1. made' \in Seq(Bucket) /\ Len(made') = Len(made)
  BY DEF LimiterInv
<1>2. \A j \in 1 .. Len(made) : made'[j] = IF j = i THEN b ELSE made[j]
  BY DEF LimiterInv
<1>3. \A j \in 1 .. Len(made') : Balanced(made[j])'
  BY <1>1, <1>2 DEF LimiterInv, Balanced
<1>4. \A c \in Clients : calls'[c] # NoCall => calls'[c].bucket \in 1 .. Len(made')
  BY <1>1 DEF LimiterInv
<1>5. QED
  BY <1>1, <1>3, <1>4 DEF LimiterInv

LEMMA LimiterInvInit == NewLimiter => LimiterInv
<1> SUFFICES ASSUME NewLimiter PROVE LimiterInv
  OBVIOUS
<1>1. /\ made \in Seq(Bucket) /\ Len(made) = 0
      /\ clock \in Nat /\ clock <= MaxTime
  BY RateLimiterAssumption DEF NewLimiter, RateLimiterAssumption
<1>2. calls \in [Clients -> {NoCall} \cup CallsInBuckets] /\ \A c \in Clients : calls[c] = NoCall
  BY DEF NewLimiter
<1>3. DOMAIN bucketOf = {}
  BY DEF NewLimiter
<1>4. QED
  BY <1>1, <1>2, <1>3 DEF LimiterInv

LEMMA LimiterInvNext ==
  ASSUME LimiterInv, [LimiterNext]_lvars
  PROVE  LimiterInv'
<1>1. CASE Pass
  <2>1. \A i \in 1 .. Len(made) : Balanced(made[i])'
    <3> SUFFICES ASSUME NEW i \in 1 .. Len(made) PROVE Balanced(made[i])'
      OBVIOUS
    <3>1. made' = made /\ clock' = clock + 1 /\ Balanced(made[i]) /\ made[i] \in Bucket /\ clock \in Nat
      BY <1>1 DEF Pass, LimiterInv
    <3>2. made[i].lastRefill <= clock + 1
      BY <3>1 DEF Balanced, Bucket
    <3>3. QED
      BY <3>1, <3>2 DEF Balanced
  <2>2. clock' \in Nat /\ clock' <= MaxTime
    BY <1>1, RateLimiterAssumption DEF Pass, LimiterInv, RateLimiterAssumption
  <2>3. QED
    BY <1>1, <2>1, <2>2 DEF Pass, LimiterInv
<1>2. ASSUME NEW c \in Clients, NEW key \in Keys, NEW amount \in Amounts,
             NEW deadline \in {-1, clock + Timeout}, GetBucket(c, key, amount, deadline)
      PROVE  LimiterInv'
  <2>1. amount \in Nat /\ deadline \in Int /\ clock \in Nat /\ made \in Seq(Bucket)
    BY RateLimiterAssumption DEF RateLimiterAssumption, LimiterInv
  <2> DEFINE call == [at |-> "bucket", bucket |-> bucketOf'[key], amount |-> amount,
                      deadline |-> deadline]
  <2>2. calls' = [calls EXCEPT ![c] = call] /\ clock' = clock
    BY <1>2 DEF GetBucket
  <2>3. CASE key \in DOMAIN bucketOf
    <3>1. made' = made /\ bucketOf' = bucketOf /\ call \in CallsInBuckets
      BY <1>2, <2>1, <2>3 DEF GetBucket, LimiterInv, CallsInBuckets
    <3>2. call.bucket \in 1 .. Len(made)
      BY <3>1, <2>3 DEF LimiterInv
    <3> HIDE DEF call
    <3>3. calls' \in [Clients -> {NoCall} \cup CallsInBuckets]
      BY <2>2, <3>1 DEF LimiterInv
    <3>4. \A d \in Clients : calls'[d] # NoCall => calls'[d].bucket \in 1 .. Len(made)
      BY <2>2, <3>2 DEF LimiterInv
    <3>5. QED
      BY <2>2, <3>1, <3>3, <3>4 DEF LimiterInv, Balanced
  <2>4. CASE key \notin DOMAIN bucketOf
    <3>1. NewTokenBucket \in Bucket /\ Balanced(NewTokenBucket)
      <4>1. RefillRate \in Nat /\ MaxTokens \in Nat /\ (clock - clock) * RefillRate = 0
        BY <2>1, RateLimiterAssumption DEF RateLimiterAssumption
      <4>2. QED
        BY <2>1, <4>1 DEF NewTokenBucket, Bucket, Balanced
    <3>2. made' = Append(made, NewTokenBucket)
      BY <1>2, <2>4 DEF GetBucket
    <3>3. /\ made' \in Seq(Bucket) /\ Len(made') = Len(made) + 1
          /\ \A i \in 1 .. Len(made) : made'[i] = made[i]
          /\ made'[Len(made')] = NewTokenBucket
      BY <2>1, <3>1, <3>2
    <3>4. bucketOf' = [k \in DOMAIN bucketOf \cup {key} |-> IF k = key THEN Len(made') ELSE bucketOf[k]]
      BY <1>2, <2>4 DEF GetBucket
    <3>5. \A k \in DOMAIN bucketOf' : bucketOf'[k] \in 1 .. Len(made')
      BY <2>1, <3>3, <3>4 DEF LimiterInv
    <3>6. call \in CallsInBuckets /\ call.bucket \in 1 .. Len(made')
      BY <2>1, <3>3, <3>4, <3>5 DEF CallsInBuckets
    <3>7. calls' \in [Clients -> {NoCall} \cup CallsInBuckets]
      <4> HIDE DEF call
      <4>1. QED
        BY <2>2, <3>6 DEF LimiterInv
    <3>8. \A d \in Clients : calls'[d] # NoCall => calls'[d].bucket \in 1 .. Len(made')
      <4> HIDE DEF call
      <4>1. QED
        BY <2>1, <2>2, <3>3, <3>6 DEF LimiterInv
    <3>9. \A i \in 1 .. Len(made') : Balanced(made[i])'
      <4>1. \A i \in 1 .. Len(made) : Balanced(made[i])
        BY DEF LimiterInv
      <4>2. \A i \in 1 .. Len(made') : Balanced(made'[i])
        <5>1. \A i \in 1 .. Len(made') : i \in 1 .. Len(made) \/ i = Len(made')
          BY <2>1, <3>3
        <5>2. QED
          BY <3>1, <3>3, <4>1, <5>1
      <4>3. QED
        BY <2>2, <4>2 DEF Balanced
    <3>10. DOMAIN bucketOf' \subseteq Keys
      BY <3>4 DEF LimiterInv
    <3>11. QED
      BY <2>1, <2>2, <3>3, <3>5, <3>7, <3>8, <3>9, <3>10 DEF LimiterInv
  <2>5. QED
    BY <2>3, <2>4
<1>3. ASSUME NEW c \in Clients, Granted(c) \/ Refused(c)
      PROVE  LimiterInv'
  <2> DEFINE i == calls[c].bucket
             b == Refill(made[i])
  <2>1. i \in 1 .. Len(made) /\ calls[c].amount \in Nat
    <3>1. calls[c] # NoCall
      BY <1>3 DEF Granted, Refused, NoCall
    <3>2. QED
      BY <3>1 DEF LimiterInv, CallsInBuckets
  <2>2. b \in Bucket /\ Balanced(b)
    <3>1. made[i] \in Bucket /\ Balanced(made[i]) /\ clock \in Nat
      BY <2>1 DEF LimiterInv
    <3>2. QED
      BY <3>1, RefillBalances
  <2>3. CASE Granted(c)
    <3> DEFINE g == [b EXCEPT !.tokens = @ - calls[c].amount, !.spent = @ + calls[c].amount]
    <3>1. /\ b.tokens >= calls[c].amount /\ made' = [made EXCEPT ![i] = g]
          /\ calls' = [calls EXCEPT ![c] = NoCall] /\ UNCHANGED <<clock, bucketOf>>
      BY <2>3 DEF Granted
    <3>2. g \in Bucket /\ Balanced(g)
      <4> HIDE DEF b, i
      <4>1. b.tokens >= calls[c].amount
        BY <3>1
      <4>2. QED
        BY <2>1, <2>2, <4>1, SpendBalances
    <3>3. /\ calls' \in [Clients -> {NoCall} \cup CallsInBuckets]
          /\ \A d \in Clients : calls'[d] \in {calls[d], NoCall}
      BY <3>1 DEF LimiterInv
    <3> HIDE DEF g, i
    <3>4. QED
      BY <2>1, <3>1, <3>2, <3>3, OneBucketChanges
  <2>4. CASE Refused(c)
    <3>1. /\ made' = [made EXCEPT ![i] = b] /\ UNCHANGED <<clock, bucketOf>>
          /\ calls' \in {calls, [calls EXCEPT ![c] = NoCall]}
      BY <2>4 DEF Refused, LimiterInv
    <3>2. /\ calls' \in [Clients -> {NoCall} \cup CallsInBuckets]
          /\ \A d \in Clients : calls'[d] \in {calls[d], NoCall}
      BY <3>1 DEF LimiterInv
    <3> HIDE DEF b, i
    <3>3. QED
      BY <2>1, <2>2, <3>1, <3>2, OneBucketChanges
  <2>5. QED
    BY <1>3, <2>3, <2>4
<1>4. ASSUME NEW key \in Keys, RemoveBucket(key)
      PROVE  LimiterInv'
  <2>1. \A k \in DOMAIN bucketOf' : k \in DOMAIN bucketOf /\ bucketOf'[k] = bucketOf[k]
    BY <1>4 DEF RemoveBucket, Restrict
  <2>2. QED
    BY <1>4, <2>1 DEF RemoveBucket, LimiterInv, Balanced
<1>5. CASE UNCHANGED lvars
  BY <1>5 DEF lvars, LimiterInv, Balanced
<1>6. QED
  BY <1>1, <1>2, <1>3, <1>4, <1>5 DEF LimiterNext

\* A token bucket of ratelimit.go grants at most one burst and what it was refilled with
\* since it was made, however Allow, Wait and Remove interleave.
THEOREM BoundedSpendingTheorem == LimiterSpec => []BoundedSpending
<1>1. LimiterInv => BoundedSpending
  <2> SUFFICES ASSUME LimiterInv, NEW i \in 1 .. Len(made)
               PROVE  made[i].spent <= MaxTokens + (clock - made[i].born) * RefillRate
    BY DEF BoundedSpending, LimiterInv
  <2> DEFINE b == Refill(made[i])
  <2>1. made[i] \in Bucket /\ Balanced(made[i]) /\ clock \in Nat
    BY DEF LimiterInv
  <2>2. b \in Bucket /\ Balanced(b) /\ b.lastRefill = clock
    BY <2>1, RefillBalances
  <2>3. b.spent = made[i].spent /\ b.born = made[i].born
    BY <2>1 DEF Refill, Bucket
  <2> DEFINE q == (clock - b.born) * RefillRate
  <2>4. q \in Int /\ MaxTokens \in Nat
    <3>1. \A m, n \in Int : m * n \in Int
      OBVIOUS
    <3>2. QED
      BY <2>1, <2>2, <3>1, RateLimiterAssumption DEF Bucket, RateLimiterAssumption
  <2>5. b.tokens + b.spent <= MaxTokens + q /\ b.tokens \in Nat /\ b.spent \in Nat
    BY <2>2 DEF Balanced, Bucket
  <2>6. b.spent <= MaxTokens + q
    <3> HIDE DEF b, q
    <3>1. QED
      BY <2>4, <2>5
  <2>7. QED
    BY <2>3, <2>6
<1>2. QED
  BY <1>1, LimiterInvInit, LimiterInvNext, PTL DEF LimiterSpec

LEMMA LimiterInvTypes == LimiterInv => LimiterTypeOK
<1> SUFFICES ASSUME LimiterInv PROVE LimiterTypeOK
  OBVIOUS
<1>1. clock \in 0 .. MaxTime /\ DOMAIN made = 1 .. Len(made)
  BY RateLimiterAssumption DEF RateLimiterAssumption, LimiterInv
<1>2. \A i \in 1 .. Len(made) :
        made[i].tokens \in 0 .. MaxTokens /\ made[i].lastRefill \in 0 .. clock
  <2>1. \A i \in 1 .. Len(made) : made[i] \in Bucket /\ Balanced(made[i])
    BY DEF LimiterInv
  <2>2. QED
    BY <2>1, RateLimiterAssumption DEF RateLimiterAssumption, LimiterInv, Bucket, Balanced
<1>3. Range(bucketOf) \subseteq 1 .. Len(made)
  BY DEF LimiterInv, Range
<1>4. QED
  BY <1>1, <1>2, <1>3 DEF LimiterInv, LimiterTypeOK

-----------------------------------------------------------------------------
(* The resolver.  Whoever asks has the lock, so the cache is his meanwhile. *)

CallStates ==
  {Idle} \cup [at : {"lock"}, host : Hosts]
         \cup [at : {"ask"}, host : Hosts, server : Int, epoch : Nat]

Asks(a) == lookups[a].at = "ask"

ResolverInv ==
  /\ lookups \in [Askers -> CallStates]
  /\ clears \in Nat
  /\ \A a \in Askers :
       /\ Asks(a) => lockedBy = a /\ lookups[a].epoch = clears
       /\ Asks(a) => ~Fresh(cache, lookups[a].host)
  /\ \A h \in DOMAIN cache : cache[h].epoch = clears

LEMMA ResolverInvInit == NewResolver => ResolverInv
  BY DEF NewResolver, ResolverInv, CallStates, Idle, Asks

\* The lookup that stores has asked since the latest clearing, and nobody else asks.
LEMMA StoreKeepsInv ==
  ASSUME ResolverInv, NEW a \in Askers, Asks(a), Store(a), UNCHANGED clears
  PROVE  ResolverInv'
<1>1. lookups' = [lookups EXCEPT ![a] = Idle] /\ lookups' \in [Askers -> CallStates]
  BY DEF Store, ResolverInv, CallStates
<1>2. \A b \in Askers : ~Asks(b)'
  BY <1>1 DEF ResolverInv, Asks, Idle
<1>3. \A h \in DOMAIN cache' : cache'[h].epoch = clears
  BY DEF Store, Put, Entry, ResolverInv
<1>4. QED
  BY <1>1, <1>2, <1>3 DEF ResolverInv

LEMMA ResolverInvNext ==
  ASSUME ResolverInv, [ResolverNext]_nvars
  PROVE  ResolverInv'
<1>1. ASSUME NEW a \in Askers, NEW host \in Hosts, Lookup(a, host)
      PROVE  ResolverInv'
  <2>1. /\ lookups' \in [Askers -> CallStates]
        /\ \A b \in Askers : Asks(b)' => Asks(b) /\ lookups'[b] = lookups[b]
    BY <1>1 DEF Lookup, ResolverInv, CallStates, Asks
  <2>2. QED
    BY <1>1, <2>1 DEF Lookup, ResolverInv, Fresh, Asks
<1>2. ASSUME NEW a \in Askers, LockAndLook(a)
      PROVE  ResolverInv'
  <2>1. \A b \in Askers : ~Asks(b)
    BY <1>2, ResolverAssumption DEF LockAndLook, ResolverInv, ResolverAssumption
  <2>2. CASE Fresh(cache, lookups[a].host)
    <3>1. lookups' = [lookups EXCEPT ![a] = Idle] /\ UNCHANGED <<cache, clears>>
      BY <1>2, <2>2 DEF LockAndLook
    <3>2. lookups' \in [Askers -> CallStates] /\ \A b \in Askers : ~Asks(b)'
      BY <2>1, <3>1 DEF ResolverInv, CallStates, Asks, Idle
    <3>3. QED
      BY <3>1, <3>2 DEF ResolverInv
  <2>3. CASE ~Fresh(cache, lookups[a].host)
    <3> DEFINE call == [at |-> "ask", host |-> lookups[a].host, server |-> 1, epoch |-> clears]
    <3>1. lookups' = [lookups EXCEPT ![a] = call] /\ lockedBy' = a /\ UNCHANGED <<cache, clears>>
      BY <1>2, <2>3 DEF LockAndLook
    <3>2. lookups[a].host \in Hosts /\ clears \in Nat
      BY <1>2 DEF LockAndLook, ResolverInv, CallStates, Idle
    <3>3. lookups' \in [Askers -> CallStates] /\ lookups'[a] = call
      BY <3>1, <3>2 DEF ResolverInv, CallStates
    <3>4. \A b \in Askers : b # a => ~Asks(b)'
      BY <2>1, <3>1 DEF ResolverInv, Asks
    <3>5. QED
      BY <2>3, <3>1, <3>3, <3>4 DEF ResolverInv, Asks, Fresh
  <2>4. QED
    BY <2>2, <2>3
<1>3. ASSUME NEW a \in Askers, AskNameserver(a) \/ AskSystem(a)
      PROVE  ResolverInv'
  <2>1. Asks(a) /\ UNCHANGED clears
    BY <1>3 DEF AskNameserver, AskSystem, Asks
  <2>2. CASE Store(a)
    BY <2>1, <2>2, StoreKeepsInv
  <2>3. CASE lookups' = [lookups EXCEPT ![a].server = @ + 1] /\ UNCHANGED <<cache, lockedBy>>
    <3>1. /\ lookups' \in [Askers -> CallStates]
          /\ \A b \in Askers : /\ lookups'[b].at = lookups[b].at
                               /\ Asks(b) => /\ lookups'[b].host = lookups[b].host
                                             /\ lookups'[b].epoch = lookups[b].epoch
      BY <2>1, <2>3 DEF ResolverInv, CallStates, Asks, Idle
    <3>2. QED
      BY <2>1, <2>3, <3>1 DEF ResolverInv, Asks, Fresh
  <2>4. CASE lookups' = [lookups EXCEPT ![a] = Idle] /\ UNCHANGED cache
    <3>1. lookups' \in [Askers -> CallStates] /\ \A b \in Askers : ~Asks(b)'
      BY <2>1, <2>4 DEF ResolverInv, CallStates, Asks, Idle
    <3>2. QED
      BY <2>1, <2>4, <3>1 DEF ResolverInv
  <2>5. QED
    BY <1>3, <2>2, <2>3, <2>4 DEF AskNameserver, AskSystem
<1>4. CASE ClearCache
  <2>1. \A b \in Askers : ~Asks(b)
    BY <1>4, ResolverAssumption DEF ClearCache, ResolverInv, ResolverAssumption
  <2>2. \A h \in DOMAIN cache' : FALSE
    BY <1>4 DEF ClearCache
  <2>3. lookups' = lookups /\ clears' \in Nat /\ \A b \in Askers : ~Asks(b)'
    BY <1>4, <2>1 DEF ClearCache, ResolverInv, Asks
  <2>4. QED
    BY <2>2, <2>3 DEF ResolverInv
<1>5. CASE Expire
  <2>1. CASE UNCHANGED <<cache, lockedBy, lookups, clears>>
    BY <2>1 DEF ResolverInv, Asks, Fresh
  <2>2. ASSUME NEW h \in DOMAIN cache, cache' = [cache EXCEPT ![h].fresh = FALSE],
               UNCHANGED <<lockedBy, lookups, clears>>
        PROVE  ResolverInv'
    <3>1. /\ DOMAIN cache' = DOMAIN cache
          /\ \A g \in DOMAIN cache : /\ cache'[g].epoch = cache[g].epoch
                                     /\ cache'[g].fresh => cache[g].fresh
      BY <2>2
    <3>2. QED
      BY <2>2, <3>1 DEF ResolverInv, Asks, Fresh
  <2>3. QED
    BY <1>5, <2>1, <2>2 DEF Expire
<1>6. CASE UNCHANGED <<cache, lockedBy, lookups, clears>>
  BY <1>6 DEF ResolverInv, Asks, Fresh
<1>7. QED
  BY <1>1, <1>2, <1>3, <1>4, <1>5, <1>6
  DEF ResolverNext, DoHLookup, DoHAnswer, DoHFails, DoHClearCache, nvars

\* The entries of either cache, and who holds the lock.
DoHStates == {Idle} \cup [at : {"get"}, host : Hosts, epoch : 0 .. MaxClears]

Typed(entries) ==
  /\ DOMAIN entries \subseteq Hosts
  /\ entries \in [DOMAIN entries -> [epoch : 0 .. MaxClears, fresh : BOOLEAN]]

CachesTyped ==
  /\ Typed(cache) /\ Typed(dohCache)
  /\ clears <= MaxClears /\ dohClears \in 0 .. MaxClears
  /\ dohLookups \in [DoHAskers -> DoHStates]
  /\ \A a \in Askers : lockedBy = a => Asks(a)

LEMMA PutKeepsType ==
  ASSUME NEW entries, Typed(entries), NEW host \in Hosts, NEW epoch \in 0 .. MaxClears
  PROVE  Typed(Put(entries, host, Entry(epoch)))
  BY DEF Typed, Put, Entry

LEMMA CachesTypedInit == NewResolver => CachesTyped
<1> SUFFICES ASSUME NewResolver PROVE CachesTyped
  OBVIOUS
<1>1. Typed(cache) /\ Typed(dohCache)
  BY DEF NewResolver, Typed
<1>2. \A a \in Askers : lockedBy # a
  BY ResolverAssumption DEF NewResolver, ResolverAssumption
<1>3. QED
  BY <1>1, <1>2, ResolverAssumption DEF NewResolver, CachesTyped, DoHStates, ResolverAssumption

LEMMA CachesTypedNext ==
  ASSUME ResolverInv, CachesTyped, [ResolverNext]_nvars
  PROVE  CachesTyped'
<1> USE ResolverAssumption DEF ResolverAssumption
<1>1. ASSUME NEW a \in Askers, NEW host \in Hosts, Lookup(a, host)
      PROVE  CachesTyped'
  BY <1>1 DEF Lookup, ResolverInv, CachesTyped, Typed, Asks
<1>2. ASSUME NEW a \in Askers, LockAndLook(a)
      PROVE  CachesTyped'
  BY <1>2 DEF LockAndLook, ResolverInv, CachesTyped, Typed, Asks
<1>3. ASSUME NEW a \in Askers, AskNameserver(a) \/ AskSystem(a)
      PROVE  CachesTyped'
  <2>1. /\ Asks(a) /\ lockedBy = a /\ lookups[a].epoch = clears /\ lookups[a].host \in Hosts
        /\ clears \in 0 .. MaxClears
    BY <1>3 DEF AskNameserver, AskSystem, Asks, ResolverInv, CallStates, Idle, CachesTyped
  <2>2. UNCHANGED <<clears, dohCache, dohLookups, dohClears>>
    BY <1>3 DEF AskNameserver, AskSystem
  <2>3. CASE Store(a)
    <3>1. Typed(cache')
      BY <2>1, <2>3, PutKeepsType DEF Store, CachesTyped
    <3>2. QED
      BY <2>2, <2>3, <3>1 DEF Store, CachesTyped, Typed
  <2>4. CASE lookups' = [lookups EXCEPT ![a].server = @ + 1] /\ UNCHANGED <<cache, lockedBy>>
    BY <2>1, <2>2, <2>4 DEF ResolverInv, CachesTyped, Typed, Asks, CallStates, Idle
  <2>5. CASE lookups' = [lookups EXCEPT ![a] = Idle] /\ lockedBy' = NoAsker /\ UNCHANGED cache
    BY <2>2, <2>5 DEF CachesTyped, Typed
  <2>6. QED
    BY <1>3, <2>3, <2>4, <2>5 DEF AskNameserver, AskSystem
<1>4. ASSUME NEW a \in DoHAskers, NEW host \in Hosts, DoHLookup(a, host)
      PROVE  CachesTyped'
  <2>1. dohLookups' \in [DoHAskers -> DoHStates]
    BY <1>4 DEF DoHLookup, CachesTyped, DoHStates
  <2>2. QED
    BY <1>4, <2>1 DEF DoHLookup, CachesTyped, Typed, Asks
<1>5. ASSUME NEW a \in DoHAskers, DoHAnswer(a) \/ DoHFails(a)
      PROVE  CachesTyped'
  <2>1. dohLookups' \in [DoHAskers -> DoHStates]
    BY <1>5 DEF DoHAnswer, DoHFails, CachesTyped, DoHStates
  <2>2. Typed(dohCache')
    <3>1. CASE DoHAnswer(a)
      <4>1. dohLookups[a].host \in Hosts /\ dohLookups[a].epoch \in 0 .. MaxClears
        BY <3>1 DEF DoHAnswer, CachesTyped, DoHStates, Idle
      <4>2. QED
        BY <3>1, <4>1, PutKeepsType DEF DoHAnswer, CachesTyped
    <3>2. CASE DoHFails(a)
      BY <3>2 DEF DoHFails, CachesTyped
    <3>3. QED
      BY <1>5, <3>1, <3>2
  <2>3. UNCHANGED <<cache, lockedBy, lookups, clears, dohClears>>
    BY <1>5 DEF DoHAnswer, DoHFails
  <2>4. QED
    BY <2>1, <2>2, <2>3 DEF CachesTyped, Typed, Asks
<1>6. CASE ClearCache
  <2>1. Typed(cache') /\ clears' <= MaxClears
    BY <1>6 DEF ClearCache, Typed, ResolverInv
  <2>2. QED
    BY <1>6, <2>1 DEF ClearCache, CachesTyped, Typed, Asks
<1>7. CASE DoHClearCache
  <2>1. Typed(dohCache') /\ dohClears' \in 0 .. MaxClears
    BY <1>7 DEF DoHClearCache, Typed, CachesTyped
  <2>2. QED
    BY <1>7, <2>1 DEF DoHClearCache, CachesTyped, Typed, Asks
<1>8. CASE Expire
  <2>1. \A entries : \A h \in DOMAIN entries :
          Typed(entries) => Typed([entries EXCEPT ![h].fresh = FALSE])
    BY DEF Typed
  <2>2. Typed(cache') /\ Typed(dohCache')
    BY <1>8, <2>1 DEF Expire, CachesTyped
  <2>3. UNCHANGED <<lockedBy, lookups, clears, dohLookups, dohClears>>
    BY <1>8 DEF Expire
  <2>4. QED
    BY <2>2, <2>3 DEF CachesTyped, Asks
<1>9. CASE UNCHANGED nvars
  BY <1>9 DEF nvars, CachesTyped, Typed, Asks
<1>10. QED
  BY <1>1, <1>2, <1>3, <1>4, <1>5, <1>6, <1>7, <1>8, <1>9 DEF ResolverNext

LEMMA ResolverInvTypes == ResolverInv /\ CachesTyped => ResolverTypeOK
<1> SUFFICES ASSUME ResolverInv, CachesTyped PROVE ResolverTypeOK
  OBVIOUS
<1>1. Range(cache) \cup Range(dohCache) \subseteq [epoch : 0 .. MaxClears, fresh : BOOLEAN]
  BY DEF CachesTyped, Typed, Range
<1>2. \A a \in DoHAskers : dohLookups[a] = Idle \/ dohLookups[a].at = "get"
  BY DEF CachesTyped, DoHStates
<1>3. QED
  BY <1>1, <1>2, ResolverAssumption
  DEF ResolverTypeOK, ResolverInv, CachesTyped, Typed, Asks, ResolverAssumption

\* The resolver of dns.go never keeps an address it asked for before its cache was cleared,
\* and does not ask for one that is there and fresh, however many look up at once.
THEOREM CacheIsTrueTheorem == ResolverSpec => []CacheIsTrue
<1>1. ResolverInv => CacheIsTrue
  BY DEF ResolverInv, CacheIsTrue, Asks
<1>2. QED
  BY <1>1, ResolverInvInit, ResolverInvNext, PTL DEF ResolverSpec

-----------------------------------------------------------------------------
(* The types of the console programs.                                      *)

ScreenNames == {Screens[i] : i \in 1 .. Entries} \cup {"menu"}

LEMMA ScreenOfEntry ==
  /\ \A n \in 0 .. Entries - 1 : Screens[n + 1] \in ScreenNames
  /\ {"help", "topology", "menu"} \subseteq ScreenNames
<1>1. \A n \in 0 .. Entries - 1 : n + 1 \in 1 .. Entries
  BY DEF Entries
<1>2. Screens[7] = "topology" /\ Screens[8] = "help" /\ 7 \in 1 .. Entries /\ 8 \in 1 .. Entries
  BY DEF Screens, Entries
<1>3. QED
  BY <1>1, <1>2 DEF ScreenNames

LEMMA ConsoleTypesInit == NewConsole => ConsoleTypeOK
<1>1. NewConsole => view \in ScreenNames /\ cursor \in 0 .. Entries - 1 /\ boot \in 0 .. BootSteps
  BY ScreenOfEntry DEF NewConsole, Entries, BootSteps
<1>2. QED
  BY <1>1 DEF NewConsole, ConsoleTypeOK, ScreenNames

LEMMA ConsoleTypesNext ==
  ASSUME ConsoleTypeOK, [ConsoleNext]_cvars
  PROVE  ConsoleTypeOK'
<1> USE DEF Update, Menu, menuOnly, updateOnly, BootSteps
<1>0. view \in ScreenNames /\ cursor \in 0 .. Entries - 1 /\ boot \in 0 .. 25
  BY DEF ConsoleTypeOK, ScreenNames
<1>1. CASE ScreenKey
  BY <1>1 DEF ScreenKey, ConsoleTypeOK
<1>2. CASE KeyQuit
  BY <1>2 DEF KeyQuit, Key, ConsoleTypeOK
<1>3. CASE KeyMove
  <2>1. cursor' \in 0 .. Entries - 1
    BY <1>0, <1>3 DEF KeyMove, Entries
  <2>2. QED
    BY <1>3, <2>1 DEF KeyMove, Key, ConsoleTypeOK
<1>4. CASE KeyScreen
  <2>1. view' \in ScreenNames
    BY <1>4, ScreenOfEntry DEF KeyScreen
  <2>2. QED
    BY <1>4, <2>1 DEF KeyScreen, Key, ConsoleTypeOK, ScreenNames
<1>5. CASE KeyEnter
  <2>1. view' \in ScreenNames
    BY <1>0, <1>5, ScreenOfEntry DEF KeyEnter
  <2>2. quitSent' \in BOOLEAN
    BY <1>5 DEF KeyEnter
  <2>3. QED
    BY <1>5, <2>1, <2>2 DEF KeyEnter, Key, ConsoleTypeOK, ScreenNames
<1>6. CASE KeyOther \/ MenuMessage \/ MenuQuits
  BY <1>6 DEF KeyOther, Key, MenuMessage, MenuQuits, ConsoleTypeOK
<1>7. CASE MenuTick
  <2>1. boot' \in 0 .. 25
    BY <1>0, <1>7 DEF MenuTick, Booted
  <2>2. QED
    BY <1>7, <2>1 DEF MenuTick, ConsoleTypeOK
<1>8. CASE Checked
  BY <1>8 DEF Checked, ConsoleTypeOK
<1>9. CASE UpdateEnter
  BY <1>9 DEF UpdateEnter, ConsoleTypeOK
<1>10. CASE UpdateKeyQuit \/ UpdateQuits
  BY <1>10 DEF UpdateKeyQuit, UpdateQuits, ConsoleTypeOK
<1>11. CASE DownloadToTmp \/ DownloadFails \/ Replace
  BY <1>11 DEF DownloadToTmp, DownloadFails, Replace, ConsoleTypeOK
<1>12. CASE Downloaded
  BY <1>12 DEF Downloaded, ConsoleTypeOK
<1>13. CASE UNCHANGED cvars
  BY <1>13 DEF cvars, ConsoleTypeOK
<1>14. QED
  BY <1>1, <1>2, <1>3, <1>4, <1>5, <1>6, <1>7, <1>8, <1>9, <1>10, <1>11, <1>12, <1>13
  DEF ConsoleNext

-----------------------------------------------------------------------------
(* The packages side by side.  A step of one of them is a step of each:    *)
(* its own, or one that changes nothing.                                   *)

LEMMA StepOfEach ==
  ASSUME [MCServicesNext]_<<part, wvars, rvars, lvars, nvars, cvars>>
  PROVE  /\ [WatcherNext]_wvars /\ [RotatorNext]_rvars /\ [LimiterNext]_lvars
         /\ [ResolverNext]_nvars /\ [ConsoleNext]_cvars
  BY DEF MCServicesNext

\* What the proofs above keep, of all five.
ServicesInv ==
  /\ WatcherInv /\ RotatorInv /\ LimiterInv
  /\ ResolverInv /\ CachesTyped
  /\ ConsoleTypeOK /\ UpdateInv

LEMMA ServicesInvHolds == MCServicesSpec => []ServicesInv
<1>1. MCServicesInit => ServicesInv
  BY WatcherInvInit, RotatorInvInit, LimiterInvInit, ResolverInvInit, CachesTypedInit,
     ConsoleTypesInit, UpdateInvInit
  DEF MCServicesInit, ServicesInv
<1>2. ServicesInv /\ [MCServicesNext]_<<part, wvars, rvars, lvars, nvars, cvars>> => ServicesInv'
  BY StepOfEach, WatcherInvNext, RotatorInvNext, LimiterInvNext, ResolverInvNext,
     CachesTypedNext, ConsoleTypesNext, UpdateInvNext
  DEF ServicesInv
<1>3. QED
  BY <1>1, <1>2, PTL DEF MCServicesSpec

\* Every variable of the five packages keeps its type: a value a loop of the watcher hands
\* over is valid, no two secrets share a value and each renewal is announced once, a bucket
\* holds between nothing and its burst, a lookup asks exactly while it has the lock, and the
\* cursor of the menu is on an entry.
THEOREM ServicesTypeTheorem == MCServicesSpec => []ServicesTypeOK
<1>1. ServicesInv => ServicesTypeOK
  BY WatcherInvTypes, RotatorInvTypes, LimiterInvTypes, ResolverInvTypes
  DEF ServicesInv, ServicesTypeOK
<1>2. QED
  BY <1>1, ServicesInvHolds, PTL
=============================================================================
