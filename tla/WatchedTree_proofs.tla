-------------------------- MODULE WatchedTree_proofs --------------------------
(***************************************************************************)
(* Proofs about the two components that guard a working tree: the lock of  *)
(* analyze, for any set of processes and whether or not repositories are   *)
(* deleted, and the watcher.                                               *)
(*                                                                         *)
(* The watcher's index is current whenever no event is on its way.  Three  *)
(* sources could disagree with the working tree: a set the bridge built or *)
(* an event in the channel, what cmd_watch has read, and the index.  A     *)
(* file that changes after any of them was taken is pending again, so each *)
(* is right about the files of which nothing more is coming.  An event of  *)
(* changed files says nothing of their content, which is read only later;  *)
(* one of removed files is right about those of which it is the last,      *)
(* because the channel keeps the order in which they were looked at.       *)
(***************************************************************************)
EXTENDS AnalysisLock, Watcher, TLAPS

-----------------------------------------------------------------------------
(***************************************************************************)
(* The analysis lock.                                                      *)
(***************************************************************************)
\* A descriptor can only refer to a linked file: Write needs it to stay in type.
DescriptorsOpen == linked # {} => file # NoFile

\* The inductive invariant.  OnlyTheftBreaksExclusion is not inductive: nothing
\* in it says which file an unrobbed process owns.
OwnerInv == LockTypeOK /\ DescriptorsOpen /\ UnrobbedOwnsFile

LEMMA OwnerInvInit == LockInit => OwnerInv
  BY DEF LockInit, OwnerInv, LockTypeOK, DescriptorsOpen, UnrobbedOwnsFile, Files,
         Pcs, Quiet, Section

LEMMA TypeStep == LockTypeOK /\ DescriptorsOpen /\ [LockNext]_lockVars
                    => LockTypeOK' /\ DescriptorsOpen'
<1> SUFFICES ASSUME LockTypeOK, DescriptorsOpen, [LockNext]_lockVars
             PROVE  LockTypeOK' /\ DescriptorsOpen'
  OBVIOUS
<1> USE LockAssumption DEF LockTypeOK, DescriptorsOpen, Files, Pcs, Quiet, Section, Step, MoveTo, Unlink
<1>1. ASSUME NEW p \in Procs, Start(p) PROVE LockTypeOK' /\ DescriptorsOpen'
  BY <1>1 DEF Start
<1>2. ASSUME NEW p \in Procs, Exists(p) PROVE LockTypeOK' /\ DescriptorsOpen'
  BY <1>2 DEF Exists
<1>3. ASSUME NEW p \in Procs, Read(p) PROVE LockTypeOK' /\ DescriptorsOpen'
  BY <1>3 DEF Read
<1>4. ASSUME NEW p \in Procs, Probe(p) PROVE LockTypeOK' /\ DescriptorsOpen'
  BY <1>4 DEF Probe
<1>5. ASSUME NEW p \in Procs, RemoveStale(p) PROVE LockTypeOK' /\ DescriptorsOpen'
  BY <1>5 DEF RemoveStale
<1>6. ASSUME NEW p \in Procs, Create(p) PROVE LockTypeOK' /\ DescriptorsOpen'
  BY <1>6 DEF Create
<1>7. ASSUME NEW p \in Procs, Winner(p) PROVE LockTypeOK' /\ DescriptorsOpen'
  BY <1>7 DEF Winner
<1>8. ASSUME NEW p \in Procs, OpenFile(p) PROVE LockTypeOK' /\ DescriptorsOpen'
  BY <1>8 DEF OpenFile
<1>9. ASSUME NEW p \in Procs, Write(p) PROVE LockTypeOK' /\ DescriptorsOpen'
  BY <1>9 DEF Write
<1>10. ASSUME NEW p \in Procs, WriteFails(p) PROVE LockTypeOK' /\ DescriptorsOpen'
  BY <1>10 DEF WriteFails
<1>11. ASSUME NEW p \in Procs, Release(p) PROVE LockTypeOK' /\ DescriptorsOpen'
  BY <1>11 DEF Release
<1>12. ASSUME NEW p \in Procs, Die(p) PROVE LockTypeOK' /\ DescriptorsOpen'
  BY <1>12 DEF Die
<1>13. ASSUME NEW p \in Procs, Respawn(p) PROVE LockTypeOK' /\ DescriptorsOpen'
  BY <1>13 DEF Respawn
<1>14. CASE DeleteRepo
  BY <1>14 DEF DeleteRepo
<1>15. CASE UNCHANGED lockVars
  BY <1>15 DEF lockVars
<1>16. QED
  BY <1>1, <1>2, <1>3, <1>4, <1>5, <1>6, <1>7, <1>8, <1>9, <1>10, <1>11, <1>12, <1>13, <1>14, <1>15
  DEF LockNext, Acquire

LEMMA OwnerStep == OwnerInv /\ [LockNext]_lockVars => UnrobbedOwnsFile'
<1> SUFFICES ASSUME OwnerInv, [LockNext]_lockVars PROVE UnrobbedOwnsFile'
  OBVIOUS
<1> USE LockAssumption DEF OwnerInv, LockTypeOK, DescriptorsOpen, UnrobbedOwnsFile, Files, Pcs,
        Quiet, Section, Step, MoveTo, Unlink
<1>1. ASSUME NEW p \in Procs, Start(p) PROVE UnrobbedOwnsFile'
  BY <1>1 DEF Start
<1>2. ASSUME NEW p \in Procs, Exists(p) PROVE UnrobbedOwnsFile'
  BY <1>2 DEF Exists
<1>3. ASSUME NEW p \in Procs, Read(p) PROVE UnrobbedOwnsFile'
  BY <1>3 DEF Read
<1>4. ASSUME NEW p \in Procs, Probe(p) PROVE UnrobbedOwnsFile'
  BY <1>4 DEF Probe
<1>5. ASSUME NEW p \in Procs, RemoveStale(p) PROVE UnrobbedOwnsFile'
  BY <1>5 DEF RemoveStale
<1>6. ASSUME NEW p \in Procs, Create(p) PROVE UnrobbedOwnsFile'
  BY <1>6 DEF Create
<1>7. ASSUME NEW p \in Procs, Winner(p) PROVE UnrobbedOwnsFile'
  BY <1>7 DEF Winner
<1>8. ASSUME NEW p \in Procs, OpenFile(p) PROVE UnrobbedOwnsFile'
  BY <1>8 DEF OpenFile
<1>9. ASSUME NEW p \in Procs, Write(p) PROVE UnrobbedOwnsFile'
  BY <1>9 DEF Write
<1>10. ASSUME NEW p \in Procs, WriteFails(p) PROVE UnrobbedOwnsFile'
  BY <1>10 DEF WriteFails
<1>11. ASSUME NEW p \in Procs, Release(p) PROVE UnrobbedOwnsFile'
  BY <1>11 DEF Release
<1>12. ASSUME NEW p \in Procs, Die(p) PROVE UnrobbedOwnsFile'
  BY <1>12 DEF Die
<1>13. ASSUME NEW p \in Procs, Respawn(p) PROVE UnrobbedOwnsFile'
  BY <1>13 DEF Respawn
<1>14. CASE DeleteRepo
  BY <1>14 DEF DeleteRepo
<1>15. CASE UNCHANGED lockVars
  BY <1>15 DEF lockVars
<1>16. QED
  BY <1>1, <1>2, <1>3, <1>4, <1>5, <1>6, <1>7, <1>8, <1>9, <1>10, <1>11, <1>12, <1>13, <1>14, <1>15
  DEF LockNext, Acquire

(* Every variable keeps the type its declaration comments give it, and a      *)
(* descriptor is only open on a linked file.                                  *)
THEOREM TypeCorrect == LockSpec => []LockTypeOK
<1>1. OwnerInv /\ [LockNext]_lockVars => OwnerInv'
  BY TypeStep, OwnerStep DEF OwnerInv
<1>2. OwnerInv => LockTypeOK
  BY DEF OwnerInv
<1>3. QED
  BY OwnerInvInit, <1>1, <1>2, PTL DEF LockSpec

(* A process that created the lock file and was not robbed of it still owns   *)
(* the file the path is linked to (lock.rs:65-73).                            *)
THEOREM Ownership == LockSpec => []UnrobbedOwnsFile
<1>1. OwnerInv /\ [LockNext]_lockVars => OwnerInv'
  BY TypeStep, OwnerStep DEF OwnerInv
<1>2. OwnerInv => UnrobbedOwnsFile
  BY DEF OwnerInv
<1>3. QED
  BY OwnerInvInit, <1>1, <1>2, PTL DEF LockSpec

(* Two processes hold the lock together only when one of them was robbed of   *)
(* its file by an unlink (lock.rs:53, lock.rs:99, main.rs:1392).              *)
THEOREM ExclusionUpToTheft == LockSpec => []OnlyTheftBreaksExclusion
<1>1. UnrobbedOwnsFile => OnlyTheftBreaksExclusion
  BY DEF UnrobbedOwnsFile, OnlyTheftBreaksExclusion, Holds, Section
<1>2. QED
  BY Ownership, <1>1, PTL

-----------------------------------------------------------------------------
LEMMA NameStep == LockTypeOK /\ DescriptorsOpen /\ LiveNameHolds /\ [LockNext]_lockVars
                    => LiveNameHolds'
<1> SUFFICES ASSUME LockTypeOK, DescriptorsOpen, LiveNameHolds, [LockNext]_lockVars
             PROVE  LiveNameHolds'
  OBVIOUS
<1> USE LockAssumption DEF LockTypeOK, DescriptorsOpen, LiveNameHolds, Files, Pcs, Quiet,
        Section, Step, MoveTo, Unlink, Alive, Holds
<1>1. ASSUME NEW p \in Procs, Start(p) PROVE LiveNameHolds'
  BY <1>1 DEF Start
<1>2. ASSUME NEW p \in Procs, Exists(p) PROVE LiveNameHolds'
  BY <1>2 DEF Exists
<1>3. ASSUME NEW p \in Procs, Read(p) PROVE LiveNameHolds'
  BY <1>3 DEF Read
<1>4. ASSUME NEW p \in Procs, Probe(p) PROVE LiveNameHolds'
  BY <1>4 DEF Probe
<1>5. ASSUME NEW p \in Procs, RemoveStale(p) PROVE LiveNameHolds'
  BY <1>5 DEF RemoveStale
<1>6. ASSUME NEW p \in Procs, Create(p) PROVE LiveNameHolds'
  BY <1>6 DEF Create
<1>7. ASSUME NEW p \in Procs, Winner(p) PROVE LiveNameHolds'
  BY <1>7 DEF Winner
<1>8. ASSUME NEW p \in Procs, OpenFile(p) PROVE LiveNameHolds'
  BY <1>8 DEF OpenFile
<1>9. ASSUME NEW p \in Procs, Write(p) PROVE LiveNameHolds'
  BY <1>9 DEF Write
<1>10. ASSUME NEW p \in Procs, WriteFails(p) PROVE LiveNameHolds'
  BY <1>10 DEF WriteFails
<1>11. ASSUME NEW p \in Procs, Release(p) PROVE LiveNameHolds'
  BY <1>11 DEF Release
<1>12. ASSUME NEW p \in Procs, Die(p) PROVE LiveNameHolds'
  BY <1>12 DEF Die
<1>13. ASSUME NEW p \in Procs, Respawn(p) PROVE LiveNameHolds'
  BY <1>13 DEF Respawn
<1>14. CASE DeleteRepo
  BY <1>14 DEF DeleteRepo
<1>15. CASE UNCHANGED lockVars
  BY <1>15 DEF lockVars
<1>16. QED
  BY <1>1, <1>2, <1>3, <1>4, <1>5, <1>6, <1>7, <1>8, <1>9, <1>10, <1>11, <1>12, <1>13, <1>14, <1>15
  DEF LockNext, Acquire

(* A lock file that names a live process names one that holds the lock, so    *)
(* AlreadyRunning { pid } is truthful (lock.rs:43), unless the system gave    *)
(* the pid of a dead process to a new one.                                    *)
THEOREM NamesAreTruthful == LockSpec => []LiveNameHolds
<1> DEFINE NameInv == LockTypeOK /\ DescriptorsOpen /\ LiveNameHolds
<1>1. LockInit => NameInv
  BY OwnerInvInit DEF OwnerInv, LockInit, LiveNameHolds
<1>2. NameInv /\ [LockNext]_lockVars => NameInv'
  BY TypeStep, NameStep
<1>3. QED
  BY <1>1, <1>2, PTL DEF LockSpec

-----------------------------------------------------------------------------
(***************************************************************************)
(* The watcher.                                                            *)
(***************************************************************************)
\* f is in an event of the channel s.
Has(s, f) == \E i \in DOMAIN s : f \in s[i].files

\* The last event of s about f says that it is gone.
EndsRemoved(s, f) ==
    \E i \in DOMAIN s :
        /\ s[i].removed /\ f \in s[i].files
        /\ \A j \in DOMAIN s : j > i => f \notin s[j].files

LEMMA AfterMessage ==
    ASSUME NEW s \in Seq(Event), NEW gone \in BOOLEAN, NEW S \in SUBSET Watched
    PROVE  /\ s \o EventOf(gone, S) \in Seq(Event)
           /\ \A f \in Watched :
                /\ Has(s \o EventOf(gone, S), f) <=> Has(s, f) \/ f \in S
                /\ EndsRemoved(s \o EventOf(gone, S), f) =>
                      (gone /\ f \in S) \/ (f \notin S /\ EndsRemoved(s, f))
<1>1. CASE S = {}
  <2>1. s \o EventOf(gone, S) = s
    BY <1>1 DEF EventOf
  <2> QED BY <1>1, <2>1
<1>2. CASE S # {}
  <2> DEFINE e == [removed |-> gone, files |-> S]
             t == s \o <<e>>
  <2>1. s \o EventOf(gone, S) = t
    BY <1>2 DEF EventOf
  <2>2. e \in Event
    BY DEF Event
  <2>3. t \in Seq(Event) /\ Len(t) = Len(s) + 1
    BY <2>2
  <2>4. DOMAIN t = 1..(Len(s) + 1) /\ DOMAIN s = 1..Len(s) /\ Len(s) \in Nat
    BY <2>3
  <2>5. t[Len(s) + 1] = e /\ \A i \in DOMAIN s : t[i] = s[i]
    BY <2>2
  <2>6. e.files = S /\ e.removed = gone
    OBVIOUS
  <2> HIDE DEF e, t
  <2>7. ASSUME NEW f \in Watched PROVE Has(t, f) <=> Has(s, f) \/ f \in S
    BY <2>4, <2>5, <2>6 DEF Has
  <2>8. ASSUME NEW f \in Watched, EndsRemoved(t, f)
        PROVE  (gone /\ f \in S) \/ (f \notin S /\ EndsRemoved(s, f))
    <3>1. PICK i \in DOMAIN t :
            /\ t[i].removed /\ f \in t[i].files
            /\ \A j \in DOMAIN t : j > i => f \notin t[j].files
      BY <2>8 DEF EndsRemoved
    <3>2. CASE i = Len(s) + 1
      BY <2>5, <2>6, <3>1, <3>2
    <3>3. CASE i # Len(s) + 1
      <4>1. i \in DOMAIN s /\ Len(s) + 1 > i
        BY <2>4, <3>3
      <4>2. f \notin S
        BY <2>4, <2>5, <2>6, <3>1, <4>1
      <4>3. EndsRemoved(s, f)
        BY <2>4, <2>5, <3>1, <4>1 DEF EndsRemoved
      <4> QED BY <4>2, <4>3
    <3> QED BY <3>2, <3>3
  <2> QED BY <2>1, <2>3, <2>7, <2>8
<1> QED BY <1>1, <1>2

LEMMA AfterReceive ==
    ASSUME NEW s \in Seq(Event), s # <<>>
    PROVE  /\ Tail(s) \in Seq(Event) /\ Head(s) \in Event
           /\ \A f \in Watched :
                /\ Has(s, f) <=> f \in Head(s).files \/ Has(Tail(s), f)
                /\ EndsRemoved(Tail(s), f) => EndsRemoved(s, f)
                /\ Head(s).removed /\ f \in Head(s).files /\ ~Has(Tail(s), f)
                   => EndsRemoved(s, f)
<1> DEFINE t == Tail(s)
           n == Len(t)
<1>1. t \in Seq(Event) /\ Head(s) \in Event
  OBVIOUS
<1>2. n \in Nat /\ DOMAIN t = 1..n /\ DOMAIN s = 1..(n + 1)
  OBVIOUS
<1>3. s[1] = Head(s) /\ \A i \in DOMAIN t : t[i] = s[i + 1]
  OBVIOUS
<1> HIDE DEF t, n
<1>4. \A j \in DOMAIN s : j = 1 \/ (j - 1 \in DOMAIN t /\ t[j - 1] = s[j])
  BY <1>2, <1>3
<1>5. ASSUME NEW f \in Watched PROVE Has(s, f) <=> f \in Head(s).files \/ Has(t, f)
  <2>1. Has(s, f) => f \in Head(s).files \/ Has(t, f)
    BY <1>3, <1>4 DEF Has
  <2>2. Has(t, f) => Has(s, f)
    BY <1>2, <1>3 DEF Has
  <2>3. f \in Head(s).files => Has(s, f)
    BY <1>2, <1>3 DEF Has
  <2> QED BY <2>1, <2>2, <2>3
<1>6. ASSUME NEW f \in Watched, EndsRemoved(t, f) PROVE EndsRemoved(s, f)
  <2>1. PICK i \in DOMAIN t :
          /\ t[i].removed /\ f \in t[i].files
          /\ \A j \in DOMAIN t : j > i => f \notin t[j].files
    BY <1>6 DEF EndsRemoved
  <2>2. i + 1 \in DOMAIN s /\ s[i + 1] = t[i]
    BY <1>2, <1>3
  <2>3. ASSUME NEW j \in DOMAIN s, j > i + 1 PROVE f \notin s[j].files
    BY <1>2, <1>4, <2>1, <2>3
  <2> QED BY <2>1, <2>2, <2>3 DEF EndsRemoved
<1>7. ASSUME NEW f \in Watched, Head(s).removed, f \in Head(s).files, ~Has(t, f)
      PROVE  EndsRemoved(s, f)
  <2>1. 1 \in DOMAIN s /\ \A j \in DOMAIN s : j > 1 => f \notin s[j].files
    BY <1>2, <1>4, <1>7 DEF Has
  <2> QED BY <1>3, <1>7, <2>1 DEF EndsRemoved
<1> QED BY <1>1, <1>5, <1>6, <1>7 DEF t

-----------------------------------------------------------------------------
LEMMA WatchTypeInit == ASSUME WatcherOK, WatchInit PROVE WatchTypeOK
<1>1. NoTree \in Tree /\ NoEvent \in Event /\ <<>> \in Seq(Event)
  BY DEF NoTree, Tree, NoEvent, Event
<1>2. changes \in 0..MaxChanges
  BY DEF WatcherOK, WatchInit
<1> QED BY <1>1, <1>2 DEF WatchInit, WatchTypeOK

LEMMA WatchTypeNext == ASSUME WatcherOK, WatchTypeOK, [WatchNext]_watchVars PROVE WatchTypeOK'
<1> USE DEF WatchTypeOK
<1>0. NoTree \in Tree /\ NoEvent \in Event
  BY DEF NoTree, Tree, NoEvent, Event
<1>1. ASSUME NEW f \in Watched, NEW v \in Versions \cup {Missing}, Change(f, v) PROVE WatchTypeOK'
  <2>1. changes' \in 0..MaxChanges
    BY <1>1 DEF Change, WatcherOK
  <2>2. disk' \in Tree
    BY <1>1 DEF Change, Tree
  <2> QED BY <1>1, <2>1, <2>2 DEF Change, bridge, consumer
<1>2. ASSUME NEW E \in SUBSET Watched, Debounce(E) PROVE WatchTypeOK'
  BY <1>2 DEF Debounce, consumer
<1>3. ASSUME NEW f \in Watched, Classify(f) \/ Track(f) \/ NotifierFails(f) PROVE WatchTypeOK'
  BY <1>3 DEF Classify, Track, NotifierFails, bridge, consumer
<1>4. CASE SendEvents
  <2>1. events' \in Seq(Event)
    BY <1>4, AfterMessage DEF SendEvents
  <2> QED BY <1>4, <2>1 DEF SendEvents, consumer
<1>5. CASE Receive
  <2>1. events' \in Seq(Event) /\ work' \in Event
    BY <1>5, AfterReceive DEF Receive
  <2> QED BY <1>5, <2>1 DEF Receive, bridge, Event
<1>6. ASSUME NEW f \in Watched, Purge(f) PROVE WatchTypeOK'
  BY <1>6 DEF Purge, bridge, Tree
<1>7. ASSUME NEW f \in Watched, ReadFile(f) PROVE WatchTypeOK'
  BY <1>7 DEF ReadFile, bridge, Tree
<1>8. CASE Store
  <2>1. index' \in Tree
    BY <1>8 DEF Store, Tree
  <2> QED BY <1>0, <1>8, <2>1 DEF Store, Done, bridge
<1>9. ASSUME NEW f \in Watched, RemoveFile(f) PROVE WatchTypeOK'
  <2>1. index' \in Tree /\ failed' \in BOOLEAN
    BY <1>9 DEF RemoveFile, Tree
  <2>2. CASE left = {f}
    BY <1>0, <1>9, <2>1, <2>2 DEF RemoveFile, Done, bridge
  <2>3. CASE left # {f}
    BY <1>9, <2>1, <2>3 DEF RemoveFile, bridge
  <2> QED BY <2>2, <2>3
<1>10. CASE Fail
  BY <1>0, <1>10 DEF Fail, Done, bridge
<1>11. CASE OpenFails
  BY <1>11 DEF OpenFails, bridge
<1>12. CASE UNCHANGED watchVars
  BY <1>12 DEF watchVars, bridge, consumer
<1> QED BY <1>1, <1>2, <1>3, <1>4, <1>5, <1>6, <1>7, <1>8, <1>9, <1>10, <1>11, <1>12
        DEF WatchNext, Bridge, Handle

(* Every value of the watcher has its type; the channel may grow without bound. *)
THEOREM WatchTypeCorrect == ASSUME WatcherOK PROVE WatchSpec => []WatchTypeOK
<1>1. WatchInit => WatchTypeOK
  BY WatchTypeInit
<1>2. WatchTypeOK /\ [WatchNext]_watchVars => WatchTypeOK'
  BY WatchTypeNext
<1> QED BY <1>1, <1>2, PTL DEF WatchSpec

-----------------------------------------------------------------------------
\* The bridge has f before it, or cmd_watch will be told of it.
Ahead(f)  == f \in pending \cup window \cup changed \cup removed
Coming(f) == Ahead(f) \/ Has(events, f)

BridgeInv ==
    /\ window \cap (changed \cup removed) = {} /\ changed \cap removed = {}
    /\ found \subseteq window
    /\ \A f \in Watched :
          /\ f \in found /\ disk[f] = Missing => f \in pending
          /\ f \in removed /\ f \notin pending => disk[f] = Missing
          /\ ~Ahead(f) /\ EndsRemoved(events, f) => disk[f] = Missing

HandlerInv ==
    /\ step = "receive" => work.files = {}
    /\ step = "store" => left = {}
    /\ step = "ended" => failed
    /\ \A f \in Watched : ~Coming(f) =>
          /\ step = "remove" /\ f \in work.files => disk[f] = Missing
          /\ step \in {"read", "store"} /\ f \in work.files \ left => got[f] = disk[f]
          /\ f \notin work.files \/ (step = "remove" /\ f \notin left) => index[f] = disk[f]

IInv == ~failed => BridgeInv /\ HandlerInv

LEMMA InvInit == WatchInit => IInv
<1> SUFFICES ASSUME WatchInit PROVE BridgeInv /\ HandlerInv
  BY DEF IInv
<1>1. events = <<>> /\ DOMAIN events = {}
  BY DEF WatchInit
<1>2. \A f \in Watched : ~EndsRemoved(events, f)
  BY <1>1 DEF EndsRemoved
<1> QED BY <1>2 DEF WatchInit, BridgeInv, HandlerInv, NoEvent

LEMMA InvNext == ASSUME WatchTypeOK, IInv, [WatchNext]_watchVars PROVE IInv'
<1> SUFFICES ASSUME ~failed' PROVE BridgeInv' /\ HandlerInv'
  BY DEF IInv
<1>0. ~failed
  <2>1. ASSUME NEW f \in Watched, RemoveFile(f) PROVE ~failed
    BY <2>1 DEF RemoveFile
  <2> QED BY <2>1 DEF WatchNext, Bridge, Handle, Change, SendEvents, Debounce, Classify, Track,
                      NotifierFails, Receive, Store, Fail, OpenFails, Purge, ReadFile, watchVars
<1> USE <1>0 DEF IInv, BridgeInv, HandlerInv, Coming, Ahead, WatchTypeOK
<1>1. ASSUME NEW f \in Watched, NEW v \in Versions \cup {Missing}, Change(f, v)
      PROVE  BridgeInv' /\ HandlerInv'
  <2>1. \A g \in Watched \ {f} : disk'[g] = disk[g]
    BY <1>1 DEF Change, Tree
  <2>2. UNCHANGED <<window, found, changed, removed, events, step, work, left, got, index>>
        /\ pending' = pending \cup {f}
    BY <1>1 DEF Change, bridge, consumer
  <2> QED BY <2>1, <2>2
<1>2. ASSUME NEW E \in SUBSET Watched, Debounce(E) PROVE BridgeInv' /\ HandlerInv'
  <2>1. UNCHANGED <<disk, found, changed, removed, events, step, work, left, got, index>>
        /\ changed = {} /\ removed = {} /\ window' = E /\ pending' = pending \ E
        /\ window = {} /\ E \subseteq pending
    BY <1>2 DEF Debounce, consumer
  <2> QED BY <2>1
<1>3. ASSUME NEW f \in Watched, Classify(f) PROVE BridgeInv' /\ HandlerInv'
  <2>1. UNCHANGED <<disk, pending, events, step, work, left, got, index>>
    BY <1>3 DEF Classify, consumer
  <2>2. /\ f \in window /\ changed' = changed
        /\ \/ disk[f] # Missing /\ found' = {f} /\ UNCHANGED <<window, removed>>
           \/ /\ disk[f] = Missing /\ window' = window \ {f}
              /\ found = {} /\ removed' = removed \cup {f} /\ found' = found
    BY <1>3 DEF Classify
  <2> QED BY <2>1, <2>2
<1>13. ASSUME NEW f \in Watched, Track(f) PROVE BridgeInv' /\ HandlerInv'
  <2>1. UNCHANGED <<disk, pending, removed, events, step, work, left, got, index>>
    BY <1>13 DEF Track, consumer
  <2>2. /\ f \in found /\ found' = {} /\ window' = window \ {f}
        /\ \/ changed' = changed \cup {f}
           \/ disk[f] = Missing /\ changed' = changed
    BY <1>13 DEF Track
  <2> QED BY <2>1, <2>2
<1>14. ASSUME NEW f \in Watched, NotifierFails(f) PROVE BridgeInv' /\ HandlerInv'
  BY <1>14 DEF NotifierFails
<1>4. CASE SendEvents
  <2> DEFINE s == events \o EventOf(FALSE, changed)
  <2>1. s \in Seq(Event) /\ \A f \in Watched :
          /\ Has(s, f) <=> Has(events, f) \/ f \in changed
          /\ EndsRemoved(s, f) => f \notin changed /\ EndsRemoved(events, f)
    BY AfterMessage
  <2> HIDE DEF s
  <2>2. events' = s \o EventOf(TRUE, removed)
    BY <1>4 DEF SendEvents, s
  <2>3. \A f \in Watched :
          /\ Has(events', f) <=> Has(s, f) \/ f \in removed
          /\ EndsRemoved(events', f) => f \in removed \/ (f \notin removed /\ EndsRemoved(s, f))
    BY <2>1, <2>2, AfterMessage
  <2>4. UNCHANGED <<disk, pending, window, found, step, work, left, got, index>> /\ window = {}
        /\ changed' = {} /\ removed' = {}
    BY <1>4 DEF SendEvents, consumer
  <2> QED BY <2>1, <2>3, <2>4
<1>5. CASE Receive
  <2>1. /\ step = "receive" /\ events # <<>> /\ events' = Tail(events)
        /\ work' = Head(events) /\ left' = work'.files
        /\ step' = IF work'.removed THEN "remove" ELSE "purge"
        /\ UNCHANGED <<disk, pending, window, found, changed, removed, got, index>>
    BY <1>5 DEF Receive, bridge
  <2>2. \A f \in Watched :
          /\ Has(events, f) <=> f \in work'.files \/ Has(events', f)
          /\ EndsRemoved(events', f) => EndsRemoved(events, f)
          /\ work'.removed /\ f \in work'.files /\ ~Has(events', f) => EndsRemoved(events, f)
    BY <2>1, AfterReceive
  <2>3. \A f \in Watched : f \notin work.files
    BY <2>1
  <2> QED BY <2>1, <2>2, <2>3
<1>6. ASSUME NEW f \in Watched, Purge(f) PROVE BridgeInv' /\ HandlerInv'
  <2>1. /\ UNCHANGED <<disk, pending, window, found, changed, removed, events, work, got>>
        /\ step = "purge" /\ f \in left
        /\ \A g \in Watched \ {f} : index'[g] = index[g]
    BY <1>6 DEF Purge, bridge, Tree
  <2>2. step' = "purge" \/ (step' = "read" /\ left' = work.files)
    BY <1>6 DEF Purge
  <2> QED BY <2>1, <2>2
<1>7. ASSUME NEW f \in Watched, ReadFile(f) PROVE BridgeInv' /\ HandlerInv'
  <2>1. /\ UNCHANGED <<disk, pending, window, found, changed, removed, events, work, index>>
        /\ step = "read" /\ f \in left /\ left' = left \ {f}
        /\ step' = IF left = {f} THEN "store" ELSE step
    BY <1>7 DEF ReadFile, bridge
  <2>2. got'[f] = disk[f] /\ \A g \in Watched \ {f} : got'[g] = got[g]
    BY <1>7 DEF ReadFile, Tree
  <2> QED BY <2>1, <2>2
<1>8. CASE Store
  <2>1. /\ UNCHANGED <<disk, pending, window, found, changed, removed, events>>
        /\ step = "store" /\ step' = "receive" /\ work' = NoEvent
    BY <1>8 DEF Store, Done, bridge
  <2>2. \A f \in Watched : index'[f] = IF f \in work.files THEN got[f] ELSE index[f]
    BY <1>8 DEF Store
  <2>3. NoEvent.files = {}
    BY DEF NoEvent
  <2> QED BY <2>1, <2>2, <2>3
<1>9. ASSUME NEW f \in Watched, RemoveFile(f) PROVE BridgeInv' /\ HandlerInv'
  <2>1. /\ UNCHANGED <<disk, pending, window, found, changed, removed, events>>
        /\ step = "remove" /\ f \in left /\ f \in work.files
    BY <1>9 DEF RemoveFile, bridge
  <2>2. index'[f] = Missing /\ \A g \in Watched \ {f} : index'[g] = index[g]
    BY <1>9 DEF RemoveFile, Tree
  <2>3. CASE left = {f}
    <3>1. step' = "receive" /\ work'.files = {}
      BY <1>9, <2>3 DEF RemoveFile, Done, NoEvent
    <3> QED BY <2>1, <2>2, <2>3, <3>1
  <2>4. CASE left # {f}
    <3>1. UNCHANGED <<step, work, got>> /\ left' = left \ {f}
      BY <1>9, <2>4 DEF RemoveFile
    <3> QED BY <2>1, <2>2, <3>1
  <2> QED BY <2>3, <2>4
<1>10. CASE Fail
  BY <1>10 DEF Fail
<1>11. CASE OpenFails
  BY <1>11 DEF OpenFails
<1>12. CASE UNCHANGED watchVars
  <2>1. UNCHANGED <<disk, pending, window, found, changed, removed, events, step, work, left, got, index>>
    BY <1>12 DEF watchVars, bridge, consumer
  <2> QED BY <2>1
<1> QED BY <1>1, <1>2, <1>3, <1>4, <1>5, <1>6, <1>7, <1>8, <1>9, <1>10, <1>11, <1>12,
        <1>13, <1>14 DEF WatchNext, Bridge, Handle

LEMMA InvIsCurrent == WatchTypeOK /\ IInv => QuietMeansCurrent
<1> SUFFICES ASSUME WatchTypeOK, IInv, Settled, ~failed PROVE index = disk
  BY DEF QuietMeansCurrent
<1>1. DOMAIN events = {}
  BY DEF Settled
<1>2. \A f \in Watched : ~Coming(f) /\ f \notin work.files
  BY <1>1 DEF Settled, IInv, HandlerInv, Coming, Ahead, Has
<1>3. \A f \in Watched : index[f] = disk[f]
  BY <1>2 DEF IInv, HandlerInv
<1> QED BY <1>3 DEF WatchTypeOK, Tree

(* start_watching and cmd_watch: when no event is on its way the index is that *)
(* of the working tree, whatever changed between the notification, the look at *)
(* the path and the reading of the file, for any number of files and changes.  *)
THEOREM QuietMeansCurrentAlways == ASSUME WatcherOK PROVE WatchSpec => []QuietMeansCurrent
<1>1. WatchInit => WatchTypeOK /\ IInv
  BY WatchTypeInit, InvInit
<1>2. WatchTypeOK /\ IInv /\ [WatchNext]_watchVars => (WatchTypeOK /\ IInv)'
  BY WatchTypeNext, InvNext
<1> QED BY <1>1, <1>2, InvIsCurrent, PTL DEF WatchSpec
=============================================================================
