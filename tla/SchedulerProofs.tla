-------------------------- MODULE SchedulerProofs --------------------------
(***************************************************************************)
(* The safety properties of Scheduler for every number of feeds and of     *)
(* goroutines that schedule them.                                          *)
(***************************************************************************)
EXTENDS Scheduler, TLAPS

(* Callers and the feeds they want; a channel is open until its updater    *)
(* was unscheduled.                                                        *)
CallerInv ==
  \A c \in Callers :
    /\ pc[c] # "idle" => want[c] \in Feeds
    /\ pc[c] \in {"idle", "calling"} => updater[c] = "none"
    /\ pc[c] = "storing" => updater[c] # "none"
    /\ chan[c] = "closed" => updater[c] = "gone"

(* The map and the running updaters are each other's inverse.              *)
MapInv ==
  /\ \A c \in Callers : Running(c) => feedMap[want[c]] = c
  /\ \A f \in Feeds : feedMap[f] # None =>
       Running(feedMap[f]) /\ want[feedMap[f]] = f

(* Updaters are unscheduled only after the cancellation, and one that      *)
(* starts after another one of its feed has gone finds the context         *)
(* cancelled at its first check.                                           *)
EndInv ==
  /\ \A c \in Callers : updater[c] \in {"unschedule", "gone"} => cancelled
  /\ \A c, d \in Callers :
       c # d /\ want[c] = want[d] /\ updater[c] = "gone" =>
         updater[d] \in {"none", "check", "unschedule", "gone"}

SInv == TypeOK /\ CallerInv /\ MapInv /\ EndInv /\ NoPanic /\ SerialStores

USE NoneAssumption

LEMMA InitSInv == Init => SInv
<1> SUFFICES ASSUME Init PROVE SInv
  OBVIOUS
<1>1. TypeOK
  BY DEF Init, TypeOK, UpdaterStates
<1>2. CallerInv /\ EndInv /\ SerialStores
  BY DEF Init, CallerInv, EndInv, SerialStores
<1>3. MapInv
  BY DEF Init, MapInv, Running
<1>4. NoPanic
  BY DEF Init, NoPanic
<1> QED BY <1>1, <1>2, <1>3, <1>4 DEF SInv

LEMMA NextTypeOK == TypeOK /\ [Next]_vars => TypeOK'
<1> SUFFICES ASSUME TypeOK, [Next]_vars PROVE TypeOK'
  OBVIOUS
<1> USE DEF TypeOK, UpdaterStates, updaterVars
<1>1. ASSUME NEW c \in Callers, NEW f \in Feeds, Call(c, f) PROVE TypeOK'
  BY <1>1 DEF Call
<1>2. ASSUME NEW c \in Callers, Schedule(c) PROVE TypeOK'
  <2>1. CASE feedMap[want[c]] = None
    BY <1>2, <2>1 DEF Schedule
  <2>2. CASE feedMap[want[c]] # None
    BY <1>2, <2>2 DEF Schedule
  <2> QED BY <2>1, <2>2
<1>3. ASSUME NEW c \in Callers, Unschedule(c) PROVE TypeOK'
  BY <1>3 DEF Unschedule
<1>4. ASSUME NEW c \in Callers, Check(c) PROVE TypeOK'
  BY <1>4 DEF Check
<1>5. ASSUME NEW c \in Callers, Skip(c) PROVE TypeOK'
  BY <1>5 DEF Skip
<1>6. ASSUME NEW c \in Callers, DownloadFails(c) PROVE TypeOK'
  BY <1>6 DEF DownloadFails
<1>7. ASSUME NEW c \in Callers, NEW d \in Contents, Download(c, d)
      PROVE  TypeOK'
  <2>1. Parsed(d, hash[c]) \in {"nothing", "update", "error"}
    BY DEF Parsed
  <2> QED BY <1>7, <2>1 DEF Download
<1>8. ASSUME NEW c \in Callers, Recheck(c) PROVE TypeOK'
  BY <1>8 DEF Recheck
<1>9. ASSUME NEW c \in Callers, Send(c) PROVE TypeOK'
  BY <1>9 DEF Send
<1>10. ASSUME NEW c \in Callers, Store(c) PROVE TypeOK'
  BY <1>10 DEF Store
<1>11. ASSUME NEW c \in Callers, RangeEnds(c) PROVE TypeOK'
  BY <1>11 DEF RangeEnds
<1>12. ASSUME Cancel PROVE TypeOK'
  BY <1>12 DEF Cancel
<1>13. ASSUME LoopExit PROVE TypeOK'
  BY <1>13 DEF LoopExit
<1>14. ASSUME UNCHANGED vars PROVE TypeOK'
  BY <1>14 DEF vars
<1> QED
  BY <1>1, <1>2, <1>3, <1>4, <1>5, <1>6, <1>7, <1>8, <1>9, <1>10, <1>11,
     <1>12, <1>13, <1>14
  DEF Next, UpdaterStep

(* A channel is closed by the updater that owns it.                         *)
LEMMA NextCallerInv == TypeOK /\ CallerInv /\ MapInv /\ [Next]_vars => CallerInv'
<1> SUFFICES ASSUME TypeOK, CallerInv, MapInv, [Next]_vars PROVE CallerInv'
  OBVIOUS
<1> USE DEF TypeOK, UpdaterStates, updaterVars, CallerInv
<1>1. ASSUME NEW c \in Callers, NEW f \in Feeds, Call(c, f) PROVE CallerInv'
  BY <1>1 DEF Call
<1>2. ASSUME NEW c \in Callers, Schedule(c) PROVE CallerInv'
  <2>1. CASE feedMap[want[c]] = None
    BY <1>2, <2>1 DEF Schedule
  <2>2. CASE feedMap[want[c]] # None
    BY <1>2, <2>2 DEF Schedule
  <2> QED BY <2>1, <2>2
<1>3. ASSUME NEW c \in Callers, Unschedule(c) PROVE CallerInv'
  <2>1. feedMap[want[c]] = c
    BY <1>3 DEF Unschedule, MapInv, Running
  <2> QED BY <1>3, <2>1 DEF Unschedule
<1>4. ASSUME NEW c \in Callers, Check(c) PROVE CallerInv'
  BY <1>4 DEF Check
<1>5. ASSUME NEW c \in Callers, Skip(c) PROVE CallerInv'
  BY <1>5 DEF Skip
<1>6. ASSUME NEW c \in Callers, DownloadFails(c) PROVE CallerInv'
  BY <1>6 DEF DownloadFails
<1>7. ASSUME NEW c \in Callers, NEW d \in Contents, Download(c, d) PROVE CallerInv'
  BY <1>7 DEF Download
<1>8. ASSUME NEW c \in Callers, Recheck(c) PROVE CallerInv'
  BY <1>8 DEF Recheck
<1>9. ASSUME NEW c \in Callers, Send(c) PROVE CallerInv'
  BY <1>9 DEF Send
<1>10. ASSUME NEW c \in Callers, Store(c) PROVE CallerInv'
  BY <1>10 DEF Store
<1>11. ASSUME NEW c \in Callers, RangeEnds(c) PROVE CallerInv'
  BY <1>11 DEF RangeEnds
<1>12. ASSUME Cancel PROVE CallerInv'
  BY <1>12 DEF Cancel
<1>13. ASSUME LoopExit PROVE CallerInv'
  BY <1>13 DEF LoopExit
<1>14. ASSUME UNCHANGED vars PROVE CallerInv'
  BY <1>14 DEF vars
<1> QED
  BY <1>1, <1>2, <1>3, <1>4, <1>5, <1>6, <1>7, <1>8,
     <1>9, <1>10, <1>11, <1>12, <1>13, <1>14
  DEF Next, UpdaterStep

LEMMA NextMapInv == TypeOK /\ CallerInv /\ MapInv /\ [Next]_vars => MapInv'
<1> SUFFICES ASSUME TypeOK, CallerInv, MapInv, [Next]_vars PROVE MapInv'
  OBVIOUS
<1> USE DEF TypeOK, UpdaterStates, updaterVars, CallerInv, MapInv, Running
<1>1. ASSUME NEW c \in Callers, NEW f \in Feeds, Call(c, f) PROVE MapInv'
  BY <1>1 DEF Call
<1>2. ASSUME NEW c \in Callers, Schedule(c) PROVE MapInv'
  <2>1. CASE feedMap[want[c]] = None
    BY <1>2, <2>1 DEF Schedule
  <2>2. CASE feedMap[want[c]] # None
    BY <1>2, <2>2 DEF Schedule
  <2> QED BY <2>1, <2>2
<1>3. ASSUME NEW c \in Callers, Unschedule(c) PROVE MapInv'
  BY <1>3 DEF Unschedule
<1>4. ASSUME NEW c \in Callers, Check(c) PROVE MapInv'
  BY <1>4 DEF Check
<1>5. ASSUME NEW c \in Callers, Skip(c) PROVE MapInv'
  BY <1>5 DEF Skip
<1>6. ASSUME NEW c \in Callers, DownloadFails(c) PROVE MapInv'
  BY <1>6 DEF DownloadFails
<1>7. ASSUME NEW c \in Callers, NEW d \in Contents, Download(c, d) PROVE MapInv'
  BY <1>7 DEF Download
<1>8. ASSUME NEW c \in Callers, Recheck(c) PROVE MapInv'
  BY <1>8 DEF Recheck
<1>9. ASSUME NEW c \in Callers, Send(c) PROVE MapInv'
  BY <1>9 DEF Send
<1>10. ASSUME NEW c \in Callers, Store(c) PROVE MapInv'
  BY <1>10 DEF Store
<1>11. ASSUME NEW c \in Callers, RangeEnds(c) PROVE MapInv'
  BY <1>11 DEF RangeEnds
<1>12. ASSUME Cancel PROVE MapInv'
  BY <1>12 DEF Cancel
<1>13. ASSUME LoopExit PROVE MapInv'
  BY <1>13 DEF LoopExit
<1>14. ASSUME UNCHANGED vars PROVE MapInv'
  BY <1>14 DEF vars
<1> QED
  BY <1>1, <1>2, <1>3, <1>4, <1>5, <1>6, <1>7, <1>8,
     <1>9, <1>10, <1>11, <1>12, <1>13, <1>14
  DEF Next, UpdaterStep

LEMMA NextEndInv == TypeOK /\ CallerInv /\ MapInv /\ EndInv /\ [Next]_vars => EndInv'
<1> SUFFICES ASSUME TypeOK, CallerInv, MapInv, EndInv, [Next]_vars PROVE EndInv'
  OBVIOUS
<1> USE DEF TypeOK, UpdaterStates, updaterVars, CallerInv, MapInv, EndInv, Running
<1>1. ASSUME NEW c \in Callers, NEW f \in Feeds, Call(c, f) PROVE EndInv'
  BY <1>1 DEF Call
<1>2. ASSUME NEW c \in Callers, Schedule(c) PROVE EndInv'
  <2>1. CASE feedMap[want[c]] = None
    BY <1>2, <2>1 DEF Schedule
  <2>2. CASE feedMap[want[c]] # None
    BY <1>2, <2>2 DEF Schedule
  <2> QED BY <2>1, <2>2
<1>3. ASSUME NEW c \in Callers, Unschedule(c) PROVE EndInv'
  BY <1>3 DEF Unschedule
<1>4. ASSUME NEW c \in Callers, Check(c) PROVE EndInv'
  BY <1>4 DEF Check
<1>5. ASSUME NEW c \in Callers, Skip(c) PROVE EndInv'
  BY <1>5 DEF Skip
<1>6. ASSUME NEW c \in Callers, DownloadFails(c) PROVE EndInv'
  BY <1>6 DEF DownloadFails
<1>7. ASSUME NEW c \in Callers, NEW d \in Contents, Download(c, d) PROVE EndInv'
  BY <1>7 DEF Download
<1>8. ASSUME NEW c \in Callers, Recheck(c) PROVE EndInv'
  BY <1>8 DEF Recheck
<1>9. ASSUME NEW c \in Callers, Send(c) PROVE EndInv'
  BY <1>9 DEF Send
<1>10. ASSUME NEW c \in Callers, Store(c) PROVE EndInv'
  BY <1>10 DEF Store
<1>11. ASSUME NEW c \in Callers, RangeEnds(c) PROVE EndInv'
  BY <1>11 DEF RangeEnds
<1>12. ASSUME Cancel PROVE EndInv'
  BY <1>12 DEF Cancel
<1>13. ASSUME LoopExit PROVE EndInv'
  BY <1>13 DEF LoopExit
<1>14. ASSUME UNCHANGED vars PROVE EndInv'
  BY <1>14 DEF vars
<1> QED
  BY <1>1, <1>2, <1>3, <1>4, <1>5, <1>6, <1>7, <1>8,
     <1>9, <1>10, <1>11, <1>12, <1>13, <1>14
  DEF Next, UpdaterStep

LEMMA NextNoPanic == TypeOK /\ CallerInv /\ MapInv /\ NoPanic /\ [Next]_vars => NoPanic'
<1> SUFFICES ASSUME TypeOK, CallerInv, MapInv, NoPanic, [Next]_vars PROVE NoPanic'
  OBVIOUS
<1> USE DEF TypeOK, updaterVars, NoPanic
<1>1. ASSUME NEW c \in Callers, NEW f \in Feeds, Call(c, f) PROVE NoPanic'
  BY <1>1 DEF Call
<1>2. ASSUME NEW c \in Callers, Schedule(c) PROVE NoPanic'
  <2>1. CASE feedMap[want[c]] = None
    BY <1>2, <2>1 DEF Schedule
  <2>2. CASE feedMap[want[c]] # None
    BY <1>2, <2>2 DEF Schedule
  <2> QED BY <2>1, <2>2
<1>3. ASSUME NEW c \in Callers, Unschedule(c) PROVE NoPanic'
  <2>1. feedMap[want[c]] = c /\ chan[c] # "closed"
    BY <1>3 DEF Unschedule, MapInv, CallerInv, Running
  <2> QED BY <1>3, <2>1 DEF Unschedule
<1>4. ASSUME NEW c \in Callers, Check(c) PROVE NoPanic'
  BY <1>4 DEF Check
<1>5. ASSUME NEW c \in Callers, Skip(c) PROVE NoPanic'
  BY <1>5 DEF Skip
<1>6. ASSUME NEW c \in Callers, DownloadFails(c) PROVE NoPanic'
  BY <1>6 DEF DownloadFails
<1>7. ASSUME NEW c \in Callers, NEW d \in Contents, Download(c, d) PROVE NoPanic'
  BY <1>7 DEF Download
<1>8. ASSUME NEW c \in Callers, Recheck(c) PROVE NoPanic'
  BY <1>8 DEF Recheck
<1>9. ASSUME NEW c \in Callers, Send(c) PROVE NoPanic'
  <2>1. chan[c] # "closed"
    BY <1>9 DEF Send, CallerInv
  <2> QED BY <1>9, <2>1 DEF Send
<1>10. ASSUME NEW c \in Callers, Store(c) PROVE NoPanic'
  BY <1>10 DEF Store
<1>11. ASSUME NEW c \in Callers, RangeEnds(c) PROVE NoPanic'
  BY <1>11 DEF RangeEnds
<1>12. ASSUME Cancel PROVE NoPanic'
  BY <1>12 DEF Cancel
<1>13. ASSUME LoopExit PROVE NoPanic'
  BY <1>13 DEF LoopExit
<1>14. ASSUME UNCHANGED vars PROVE NoPanic'
  BY <1>14 DEF vars
<1> QED
  BY <1>1, <1>2, <1>3, <1>4, <1>5, <1>6, <1>7, <1>8,
     <1>9, <1>10, <1>11, <1>12, <1>13, <1>14
  DEF Next, UpdaterStep

LEMMA NextSerialStores == TypeOK /\ CallerInv /\ MapInv /\ EndInv /\ SerialStores /\ [Next]_vars => SerialStores'
<1> SUFFICES ASSUME TypeOK, CallerInv, MapInv, EndInv, SerialStores, [Next]_vars PROVE SerialStores'
  OBVIOUS
<1> USE DEF TypeOK, UpdaterStates, updaterVars, SerialStores
<1>1. ASSUME NEW c \in Callers, NEW f \in Feeds, Call(c, f) PROVE SerialStores'
  BY <1>1 DEF Call
<1>2. ASSUME NEW c \in Callers, Schedule(c) PROVE SerialStores'
  <2>1. CASE feedMap[want[c]] = None
    BY <1>2, <2>1 DEF Schedule
  <2>2. CASE feedMap[want[c]] # None
    BY <1>2, <2>2 DEF Schedule
  <2> QED BY <2>1, <2>2
<1>3. ASSUME NEW c \in Callers, Unschedule(c) PROVE SerialStores'
  BY <1>3 DEF Unschedule
<1>4. ASSUME NEW c \in Callers, Check(c) PROVE SerialStores'
  BY <1>4 DEF Check
<1>5. ASSUME NEW c \in Callers, Skip(c) PROVE SerialStores'
  BY <1>5 DEF Skip
<1>6. ASSUME NEW c \in Callers, DownloadFails(c) PROVE SerialStores'
  BY <1>6 DEF DownloadFails
<1>7. ASSUME NEW c \in Callers, NEW d \in Contents, Download(c, d) PROVE SerialStores'
  BY <1>7 DEF Download
<1>8. ASSUME NEW c \in Callers, Recheck(c) PROVE SerialStores'
  BY <1>8 DEF Recheck
<1>9. ASSUME NEW c \in Callers, Send(c) PROVE SerialStores'
  <2>1. ASSUME NEW x \in Callers, pc[x] = "storing", want[x] = want[c],
               x # c
        PROVE  FALSE
    <3>1. updater[x] # "none" /\ updater[c] = "send"
      BY <1>9, <2>1 DEF Send, CallerInv
    <3>2. updater[x] # "gone"
      BY <2>1, <3>1 DEF EndInv
    <3>3. feedMap[want[x]] = x /\ feedMap[want[c]] = c
      BY <3>1, <3>2 DEF MapInv, Running
    <3> QED BY <2>1, <3>3
  <2> QED BY <1>9, <2>1 DEF Send
<1>10. ASSUME NEW c \in Callers, Store(c) PROVE SerialStores'
  BY <1>10 DEF Store
<1>11. ASSUME NEW c \in Callers, RangeEnds(c) PROVE SerialStores'
  BY <1>11 DEF RangeEnds
<1>12. ASSUME Cancel PROVE SerialStores'
  BY <1>12 DEF Cancel
<1>13. ASSUME LoopExit PROVE SerialStores'
  BY <1>13 DEF LoopExit
<1>14. ASSUME UNCHANGED vars PROVE SerialStores'
  BY <1>14 DEF vars
<1> QED
  BY <1>1, <1>2, <1>3, <1>4, <1>5, <1>6, <1>7, <1>8,
     <1>9, <1>10, <1>11, <1>12, <1>13, <1>14
  DEF Next, UpdaterStep

(***************************************************************************)
(* The theorems.                                                           *)
(***************************************************************************)
LEMMA NextSInv == SInv /\ [Next]_vars => SInv'
BY NextTypeOK, NextCallerInv, NextMapInv, NextEndInv, NextNoPanic,
   NextSerialStores DEF SInv

LEMMA Invariance == Spec => []SInv
BY InitSInv, NextSInv, PTL DEF Spec

(* The variables of the scheduler keep their types.                        *)
THEOREM TypeCorrect == Spec => []TypeOK
BY Invariance, PTL DEF SInv

(* No channel is closed twice or closed as nil, and nothing is sent on a   *)
(* closed one, whatever the order in which feeds are scheduled, the        *)
(* context is cancelled and the updaters are unscheduled.                  *)
THEOREM NeverPanics == Spec => []NoPanic
BY Invariance, PTL DEF SInv

(* However often a feed is scheduled, one goroutine at most polls it.      *)
THEOREM SingleUpdater == Spec => []OneUpdaterPerFeed
<1>1. SInv => OneUpdaterPerFeed
  BY DEF SInv, MapInv, OneUpdaterPerFeed
<1> QED BY <1>1, Invariance, PTL

(* Two updates of a feed are never being stored at the same time, not even *)
(* by the goroutines of different channels.                                *)
THEOREM StoresAreSerial == Spec => []SerialStores
BY Invariance, PTL DEF SInv

(***************************************************************************)
(* The refinement of PollSet.                                              *)
(***************************************************************************)
Active == {f \in Feeds : feedMap[f] # None}
Updating == {want[c] : c \in {x \in Callers : pc[x] = "storing"}}

LEMMA InitPolls == Init => Abstract!PInit
BY DEF Init, Abstract!PInit

(* Nothing changes for the abstract set when the map, the stores and the   *)
(* cancellation stay what they are.                                        *)
LEMMA StutterPolls ==
  ASSUME TypeOK, feedMap' = feedMap, cancelled' = cancelled,
         \A x \in Callers : (pc'[x] = "storing") <=> (pc[x] = "storing"),
         \A x \in Callers : pc[x] = "storing" => want'[x] = want[x]
  PROVE  UNCHANGED Abstract!pvars
<1>1. Updating' = Updating
  BY DEF Updating
<1>2. Active' = Active
  BY DEF Active
<1> QED BY <1>1, <1>2 DEF Abstract!pvars, Active, Updating

LEMMA NextPolls == SInv /\ [Next]_vars => [Abstract!PNext]_(Abstract!pvars)
<1> SUFFICES ASSUME SInv, [Next]_vars
             PROVE  [Abstract!PNext]_(Abstract!pvars)
  OBVIOUS
<1> DEFINE Step == [Abstract!PNext]_(Abstract!pvars)
<1>0. TypeOK /\ CallerInv /\ MapInv /\ EndInv /\ SerialStores
  BY DEF SInv
<1>1. ASSUME NEW c \in Callers, NEW f \in Feeds, Call(c, f)
      PROVE  UNCHANGED Abstract!pvars
  BY <1>0, <1>1, StutterPolls DEF Call, TypeOK
<1>2. ASSUME NEW c \in Callers, Schedule(c) PROVE Step
  <2>0. want[c] \in Feeds
    BY <1>0, <1>2 DEF Schedule, CallerInv
  <2>1. CASE feedMap[want[c]] = None
    <3>1. Active' = Active \cup {want[c]} /\ want[c] \notin Active
      BY <1>0, <1>2, <2>0, <2>1 DEF Schedule, Active, TypeOK
    <3>2. Updating' = Updating /\ cancelled' = cancelled
      <4>1. \A x \in Callers : (pc'[x] = "storing") <=> (pc[x] = "storing")
        BY <1>0, <1>2 DEF Schedule, TypeOK
      <4> QED BY <4>1, <1>2 DEF Schedule, Updating
    <3>3. PICK f \in Feeds : f = want[c]
      BY <2>0
    <3>4. Abstract!Begin(f)
      BY <3>1, <3>2, <3>3 DEF Abstract!Begin, Active, Updating
    <3> QED BY <3>4 DEF Abstract!PNext
  <2>2. CASE feedMap[want[c]] # None
    BY <1>0, <1>2, <2>2, StutterPolls DEF Schedule, TypeOK
  <2> QED BY <2>1, <2>2
<1>3. ASSUME NEW c \in Callers, Unschedule(c) PROVE Step
  <2>1. want[c] \in Feeds /\ feedMap[want[c]] = c /\ cancelled
    BY <1>0, <1>3 DEF Unschedule, CallerInv, MapInv, EndInv, Running, TypeOK
  <2>2. Active' = Active \ {want[c]} /\ want[c] \in Active
    BY <1>0, <1>3, <2>1 DEF Unschedule, Active, TypeOK
  <2>3. Updating' = Updating /\ cancelled' = cancelled
    BY <1>3 DEF Unschedule, Updating
  <2>4. PICK f \in Feeds : f = want[c]
    BY <2>1
  <2>5. Abstract!End(f)
    BY <2>1, <2>2, <2>3, <2>4 DEF Abstract!End, Active, Updating
  <2> QED BY <2>5 DEF Abstract!PNext
<1>4. ASSUME NEW c \in Callers, Check(c) PROVE UNCHANGED Abstract!pvars
  BY <1>0, <1>4, StutterPolls DEF Check
<1>5. ASSUME NEW c \in Callers, Skip(c) PROVE UNCHANGED Abstract!pvars
  BY <1>0, <1>5, StutterPolls DEF Skip
<1>6. ASSUME NEW c \in Callers, DownloadFails(c)
      PROVE  UNCHANGED Abstract!pvars
  BY <1>0, <1>6, StutterPolls DEF DownloadFails
<1>7. ASSUME NEW c \in Callers, NEW d \in Contents, Download(c, d)
      PROVE  UNCHANGED Abstract!pvars
  BY <1>0, <1>7, StutterPolls DEF Download
<1>8. ASSUME NEW c \in Callers, Recheck(c) PROVE UNCHANGED Abstract!pvars
  BY <1>0, <1>8, StutterPolls DEF Recheck
<1>9. ASSUME NEW c \in Callers, Send(c) PROVE Step
  <2>1. updater[c] = "send" /\ chan[c] = "open" /\ pc[c] = "ranging"
    BY <1>0, <1>9 DEF Send, CallerInv, TypeOK
  <2>2. want[c] \in Feeds /\ feedMap[want[c]] = c
    BY <1>0, <2>1 DEF CallerInv, MapInv, Running
  <2>3. want[c] \notin Updating
    <3>1. ASSUME NEW x \in Callers, pc[x] = "storing", want[x] = want[c]
          PROVE  FALSE
      <4>1. x # c /\ updater[x] # "none"
        BY <1>0, <2>1, <3>1 DEF CallerInv
      <4>2. updater[x] # "gone"
        BY <1>0, <2>1, <3>1, <4>1 DEF EndInv
      <4>3. feedMap[want[x]] = x
        BY <1>0, <4>1, <4>2 DEF MapInv, Running
      <4> QED BY <2>2, <3>1, <4>1, <4>3
    <3> QED BY <3>1 DEF Updating
  <2>4. Updating' = Updating \cup {want[c]}
    <3>1. \A x \in Callers :
            (pc'[x] = "storing") <=> (pc[x] = "storing" \/ x = c)
      BY <1>0, <1>9, <2>1 DEF Send, TypeOK
    <3> QED BY <1>9, <3>1 DEF Send, Updating
  <2>5. Active' = Active /\ want[c] \in Active /\ cancelled' = cancelled
    BY <1>9, <2>2 DEF Send, Active
  <2>6. PICK f \in Feeds : f = want[c]
    BY <2>2
  <2>7. Abstract!HandOver(f)
    BY <2>3, <2>4, <2>5, <2>6 DEF Abstract!HandOver, Active, Updating
  <2> QED BY <2>7 DEF Abstract!PNext
<1>10. ASSUME NEW c \in Callers, Store(c) PROVE Step
  <2>1. want[c] \in Feeds /\ want[c] \in Updating
    BY <1>0, <1>10 DEF Store, CallerInv, Updating
  <2>2. \A x \in Callers :
          (pc'[x] = "storing") <=> (pc[x] = "storing" /\ want[x] # want[c])
    BY <1>0, <1>10 DEF Store, TypeOK, SerialStores
  <2>3. Updating' = Updating \ {want[c]}
    BY <1>10, <2>2 DEF Store, Updating
  <2>4. Active' = Active /\ cancelled' = cancelled
    BY <1>10 DEF Store, Active
  <2>5. PICK f \in Feeds : f = want[c]
    BY <2>1
  <2>6. Abstract!Stored(f)
    BY <2>1, <2>3, <2>4, <2>5 DEF Abstract!Stored, Active, Updating
  <2> QED BY <2>6 DEF Abstract!PNext
<1>11. ASSUME NEW c \in Callers, RangeEnds(c)
       PROVE  UNCHANGED Abstract!pvars
  BY <1>0, <1>11, StutterPolls DEF RangeEnds, TypeOK
<1>12. ASSUME Cancel PROVE Step
  <2>1. Active' = Active /\ Updating' = Updating
    BY <1>12 DEF Cancel, Active, Updating
  <2>2. Abstract!Stop
    BY <1>12, <2>1 DEF Cancel, Abstract!Stop, Active, Updating
  <2> QED BY <2>2 DEF Abstract!PNext
<1>13. ASSUME LoopExit PROVE UNCHANGED Abstract!pvars
  BY <1>0, <1>13, StutterPolls DEF LoopExit
<1>14. ASSUME UNCHANGED vars PROVE UNCHANGED Abstract!pvars
  BY <1>0, <1>14, StutterPolls DEF vars
<1> QED
  BY <1>1, <1>2, <1>3, <1>4, <1>5, <1>6, <1>7, <1>8, <1>9, <1>10, <1>11,
     <1>12, <1>13, <1>14
  DEF Next, UpdaterStep

(* The scheduler implements the abstract set of polled feeds: its loop and *)
(* its updaters together behave as one object that takes a feed once,      *)
(* hands over one update of it at a time and drops it after the stop only. *)
THEOREM ImplementsPollSet == Spec => PollsAsSpecified
<1>1. Spec => Abstract!PInit
  BY InitPolls DEF Spec
<1>2. Spec => [][Abstract!PNext]_(Abstract!pvars)
  BY Invariance, NextPolls, PTL DEF Spec
<1> QED BY <1>1, <1>2 DEF PollsAsSpecified
=============================================================================
