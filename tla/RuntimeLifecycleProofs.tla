----------------------- MODULE RuntimeLifecycleProofs -----------------------
(***************************************************************************)
(* What holds of RuntimeLifecycle for every set of nodes, every bound and  *)
(* every combination of requests and faults.                               *)
(***************************************************************************)
EXTENDS RuntimeLifecycle, TLAPS

Report == [status : Statuses, manifest : Manifest \cup {None}, clear : BOOLEAN,
           clearWipe : BOOLEAN, done : BOOLEAN]

\* A pass works from an assignment.
PassHasAssignment == \A n \in Nodes : node[n].pc # "idle" => node[n].asg \in Row

TypeInv == TypeOK /\ PassHasAssignment

\* What a node may be in the middle of a pass, and between two.
Pass == {r \in Node : r.pc # "idle" => r.asg \in Row}

-----------------------------------------------------------------------------
(* The operators that the actions are built from return what they should.  *)

\* The states the actions name are states of a row.
LEMMA StateNames ==
    /\ "stopped" \in DesiredStates /\ "running" \in DesiredStates
    /\ "deleted" \in DesiredStates
    /\ "stopped" \in Statuses /\ "starting" \in Statuses /\ "running" \in Statuses
    /\ "stopping" \in Statuses /\ "wiping" \in Statuses /\ "deleting" \in Statuses
    /\ "error" \in Statuses /\ "deleted" \in Statuses
BY DEF DesiredStates, Statuses

\* A generation is a number, whatever the manifest.
LEMMA GenType == ASSUME NEW m \in Manifest \cup {None} PROVE Gen(m) \in Nat
BY DEF Gen, Manifest, Snapshot

\* A version that can be restored is a number.
LEMMA SavedVersionType ==
    ASSUME NEW m \in Manifest \cup {None}, NEW store
    PROVE  SavedVersion(m, store) \in Nat
BY DEF SavedVersion, Manifest, Snapshot

\* A node is always in the middle of a pass or between two.
LEMMA NodeIsPass ==
    ASSUME TypeInv, NEW n \in Nodes
    PROVE  node[n] \in Pass
BY DEF TypeInv, TypeOK, PassHasAssignment, Pass

\* Only n changes in a step of n.
LEMMA BecomesType ==
    ASSUME TypeInv, NEW n \in Nodes, NEW r \in Pass, Becomes(n, r)
    PROVE  node' \in [Nodes -> Node] /\ PassHasAssignment'
BY DEF TypeInv, TypeOK, PassHasAssignment, Pass, Becomes

\* A pass that goes on at another step, or ends, is a pass.
LEMMA GoesType ==
    ASSUME TypeInv, NEW n \in Nodes, NEW p \in Steps, p # "idle" => node[n].asg \in Row
    PROVE  Goes(n, p) \in Pass
<1>1. node[n] \in Node
  BY NodeIsPass DEF Pass
<1>2. Goes(n, p) \in Node
  BY <1>1 DEF Goes, Node
<1>3. Goes(n, p).pc # "idle" => Goes(n, p).asg \in Row
  BY <1>1 DEF Goes, Node
<1> QED BY <1>2, <1>3 DEF Pass

\* A node that fetches a key keeps a numeric floor.
LEMMA WithKeyType ==
    ASSUME TypeInv, NEW n \in Nodes, KeyAvailable(n)
    PROVE  WithKey(n) \in Pass
<1>1. node[n] \in Pass /\ handoff \in Lease \cup {None}
  BY NodeIsPass DEF TypeInv, TypeOK
<1>2. ~node[n].key => handoff.floor \in Nat
  BY <1>1 DEF KeyAvailable, Lease
<1> QED BY <1>1, <1>2 DEF WithKey, Pass, Node

\* A row that takes a report is a row.
LEMMA ObservedType ==
    ASSUME TypeInv, NEW n \in Nodes, NEW o \in Report
    PROVE  Observed(n, o) \in Row
<1>1. row \in Row
  BY DEF TypeInv, TypeOK
<1>2. FloorAfter(o) \in Nat
  BY <1>1, GenType DEF FloorAfter, Row
<1>3. CleanupAfter(o) \in BOOLEAN
  BY <1>1 DEF CleanupAfter, Row
<1> DEFINE host == IF ReleasesHost(o) THEN None ELSE row.host
           wipe == IF o.clearWipe THEN FALSE ELSE row.wipe
           manifest == IF o.clear THEN None
                       ELSE IF o.manifest # None THEN o.manifest ELSE row.manifest
           blobHost == IF o.clear THEN None
                       ELSE IF o.manifest = None THEN row.blobHost
                       ELSE IF Local(o.manifest.top) THEN n ELSE None
<1>4. o.status \in Statuses /\ o.manifest \in Manifest \cup {None}
  BY DEF Report
<1>5. /\ host \in Nodes \cup {None} /\ wipe \in BOOLEAN
      /\ manifest \in Manifest \cup {None} /\ blobHost \in Nodes \cup {None}
  BY <1>1, <1>4 DEF Row
<1>6. Observed(n, o) = [row EXCEPT !.status = o.status, !.host = host, !.wipe = wipe,
                                   !.manifest = manifest, !.floor = FloorAfter(o),
                                   !.blobHost = blobHost, !.cleanup = CleanupAfter(o)]
  BY DEF Observed
<1> HIDE DEF host, wipe, manifest, blobHost
<1> QED BY <1>1, <1>2, <1>3, <1>4, <1>5, <1>6, ZenonT(40) DEF Row

-----------------------------------------------------------------------------
(* Type correctness: the initial state, and one lemma for each group of    *)
(* actions.                                                                *)

\* A new runtime's row and an empty host are well-formed.
LEMMA InitType == Init => TypeInv
<1> SUFFICES ASSUME Init PROVE TypeInv
  OBVIOUS
<1>1. \A auto \in BOOLEAN : NewRow(auto) \in Row
  BY StateNames DEF NewRow, Row
<1>2. EmptyNode \in Node
  BY DEF EmptyNode, Node, Steps
<1> QED BY <1>1, <1>2 DEF Init, TypeInv, TypeOK, PassHasAssignment, EmptyNode

\* A request changes the row, the lease and the versions it speaks of.
LEMMA RowStep ==
    ASSUME TypeInv, UNCHANGED <<node, objs, seen, ready, up>>,
           row' \in Row, handoff' \in Lease \cup {None},
           writes' \in Nat, newest' \in Nat, erased' \in Nat
    PROVE  TypeInv'
BY DEF TypeInv, TypeOK, PassHasAssignment

\* A step of a node's pass changes the node, and may change the rest.
LEMMA NodeStep ==
    ASSUME TypeInv, NEW n \in Nodes, NEW r \in Pass, Becomes(n, r),
           UNCHANGED <<seen, ready, up>>,
           row' \in Row, handoff' \in Lease \cup {None}, objs' \subseteq Snapshot,
           writes' \in Nat, newest' \in Nat, erased' \in Nat
    PROVE  TypeInv'
BY BecomesType DEF TypeInv, TypeOK

\* A lease goes to a host.
LEMMA PutLeaseType ==
    ASSUME TypeInv, NEW op \in Operations, PutLease(op)
    PROVE  TypeInv'
<1>1. row \in Row /\ ready \subseteq Nodes
  BY DEF TypeInv, TypeOK
<1>2. PICK h \in BlobKeyTarget(op) :
         handoff' = [op |-> op, host |-> h, active |-> FALSE, floor |-> 0]
  BY DEF PutLease
<1>3. StartHosts \subseteq Nodes
  BY <1>1 DEF StartHosts, Row
<1>4. CleanupHosts \subseteq Nodes
  BY <1>1 DEF CleanupHosts, Row
<1>5. ReadyForSession => row.host \in Nodes
  BY <1>1 DEF ReadyForSession, Row
<1>6. h \in Nodes
  <2>1. CASE op = "start"
    BY <1>2, <1>3, <2>1 DEF BlobKeyTarget
  <2>2. CASE op = "session"
    BY <1>2, <1>5, <2>2 DEF BlobKeyTarget
  <2>3. CASE op # "start" /\ op # "session"
    BY <1>2, <1>4, <2>3 DEF BlobKeyTarget
  <2> QED BY <2>1, <2>2, <2>3
<1>7. handoff' \in Lease
  BY <1>2, <1>6 DEF Lease
<1> QED BY <1>1, <1>7, RowStep DEF PutLease, TypeInv, TypeOK

\* A verified envelope makes the lease an active one.
LEMMA ActiveHandoffType ==
    ASSUME TypeInv, handoff # None
    PROVE  ActiveHandoff \in Lease
<1>1. handoff \in Lease
  BY DEF TypeInv, TypeOK
<1>2. SnapshotFloor \in Nat
  BY DEF TypeInv, TypeOK, SnapshotFloor, Snapshot
<1> QED BY <1>1, <1>2 DEF ActiveHandoff, Lease

\* Every request of a phone, and every stop the control plane queues itself.
LEMMA RequestType == TypeInv /\ Request => TypeInv'
<1> SUFFICES ASSUME TypeInv, Request PROVE TypeInv'
  OBVIOUS
<1>1. /\ row \in Row /\ handoff \in Lease \cup {None}
      /\ row.opGen \in Nat /\ row.opGen + 1 \in Nat
      /\ writes \in Nat /\ newest \in Nat /\ erased \in Nat
  BY DEF TypeInv, TypeOK, Row
<1> USE StateNames
<1>2. \A op : Activates(op) =>
         handoff \in Lease /\ ActiveHandoff \in Lease /\ handoff.host \in Nodes
  BY <1>1, ActiveHandoffType DEF Activates, Lease
<1>3. CASE \E op \in Requests \cap Operations : PutLease(op)
  BY <1>3, PutLeaseType
<1>4. CASE LeaseExpires
  BY <1>1, <1>4, RowStep DEF LeaseExpires
<1>5. CASE RefuseRequest
  BY <1>1, <1>5, RowStep DEF RefuseRequest
<1>6. CASE OpenSession
  BY <1>1, <1>2, <1>6, RowStep DEF OpenSession
<1>7. CASE UpdateRuntimeSettings
  <2>1. row' \in Row
    BY <1>1, <1>7 DEF UpdateRuntimeSettings, Row
  <2> QED BY <1>1, <1>7, <2>1, RowStep DEF UpdateRuntimeSettings
<1>8. CASE VerifyAndRecord
  BY <1>1, <1>8 DEF VerifyAndRecord, TypeInv, TypeOK, PassHasAssignment, Row, Manifest
<1>9. CASE StartRuntime
  <2>1. row' \in Row
    BY <1>1, <1>2, <1>9 DEF StartRuntime, Row
  <2> QED BY <1>1, <1>2, <1>9, <2>1, RowStep DEF StartRuntime
<1>10. CASE StopRuntime
  <2>1. row' \in Row
    BY <1>1, <1>10 DEF StopRuntime, Row
  <2> QED BY <1>1, <1>2, <1>10, <2>1, RowStep DEF StopRuntime
<1>11. StoppedRow \in Row
  BY <1>1 DEF StoppedRow, Row
<1>12. CASE EndSessionAndStopRuntime
  BY <1>1, <1>2, <1>11, <1>12, RowStep DEF EndSessionAndStopRuntime
<1>13. CASE QueueRuntimeStop
  BY <1>1, <1>11, <1>13, RowStep DEF QueueRuntimeStop
<1>14. CASE ReapIdleRuntime
  <2>1. row' \in Row
    BY <1>1, <1>14 DEF ReapIdleRuntime, Row
  <2> QED BY <1>1, <1>14, <2>1, RowStep DEF ReapIdleRuntime
<1>15. CASE WipeRuntime
  <2>1. row' \in Row
    BY <1>1, <1>2, <1>15 DEF WipeRuntime, Row
  <2> QED BY <1>1, <1>2, <1>15, <2>1, RowStep DEF WipeRuntime
<1>16. CASE DeleteRuntime
  <2>1. row' \in Row
    BY <1>1, <1>2, <1>16 DEF DeleteRuntime, DeletingRow, Row
  <2> QED BY <1>1, <1>2, <1>16, <2>1, RowStep DEF DeleteRuntime
<1>17. CASE DeleteAccount
  <2>1. row' \in Row
    BY <1>1, <1>17 DEF DeleteAccount, Row
  <2> QED BY <1>1, <1>17, <2>1, RowStep DEF DeleteAccount
<1> QED BY <1>3, <1>4, <1>5, <1>6, <1>7, <1>8, <1>9, <1>10, <1>12, <1>13, <1>14, <1>15,
           <1>16, <1>17 DEF Request

\* A report changes the row and ends, continues or fails the pass.
LEMMA DeliverType ==
    ASSUME TypeInv, NEW n \in Nodes, NEW o \in Report, NEW next \in Steps,
           node[n].asg \in Row, Deliver(n, o, next)
    PROVE  /\ row' \in Row /\ handoff' \in Lease \cup {None}
           /\ \E r \in Pass : Becomes(n, r)
<1>1. "fail" \in Steps
  BY DEF Steps
<1>2. \A p \in Steps : Goes(n, p) \in Pass
  BY GoesType
<1>3. row \in Row /\ handoff \in Lease \cup {None}
  BY DEF TypeInv, TypeOK
<1> QED BY <1>1, <1>2, <1>3, ObservedType DEF Deliver

\* The reports the agents send are reports.
LEMMA ReportTypes ==
    ASSUME TypeInv, NEW n \in Nodes
    PROVE  /\ \A st \in Statuses : [NoReport EXCEPT !.status = st] \in Report
           /\ NoReport \in Report /\ WipeReport \in Report
           /\ StopReport(n) \in Report /\ CleanupReport(n) \in Report
<1>1. /\ node[n].cand \in Manifest \cup {None} /\ node[n].clearing \in BOOLEAN
      /\ "stopped" \in Statuses /\ "error" \in Statuses
  BY NodeIsPass, StateNames DEF Pass, Node
<1>2. NoReport \in Report
  BY <1>1 DEF NoReport, Report
<1>3. \A st \in Statuses : [NoReport EXCEPT !.status = st] \in Report
  BY <1>2 DEF Report
<1>4. WipeReport \in Report
  BY <1>1, <1>2 DEF WipeReport, Report
<1>5. StopReport(n) \in Report
  BY <1>1, <1>2 DEF StopReport, Report
<1>6. CleanupReport(n) \in Report
  BY <1>5 DEF CleanupReport, Report
<1> QED BY <1>2, <1>3, <1>4, <1>5, <1>6

\* The snapshot a stop takes is numbered with a number.
LEMMA NextManifestType ==
    ASSUME TypeInv, NEW n \in Nodes, NEW at \in StoresOf(n),
           node[n].asg \in Row, node[n].data # None
    PROVE  NextManifest(n, at) \in Manifest /\ NextManifest(n, at).top \in Snapshot
<1> DEFINE previous == node[n].asg.manifest
           after == IF node[n].floor > Gen(previous) THEN node[n].floor ELSE Gen(previous)
           top == [gen |-> after + 1, ver |-> node[n].data, at |-> at]
           fb == IF previous # None /\ Local(previous.top) # Local(top)
                 THEN previous.top ELSE None
<1>1. node[n].asg \in Row /\ node[n].floor \in Nat /\ node[n].data \in Nat
  BY NodeIsPass DEF Pass, Node
<1>2. previous \in Manifest \cup {None}
  BY <1>1 DEF Row
<1>3. after \in Nat
  BY <1>1, <1>2, GenType
<1>4. top \in Snapshot
  BY <1>1, <1>3 DEF Snapshot, StoresOf
<1>5. fb \in Snapshot \cup {None}
  BY <1>2 DEF Manifest
<1>6. NextManifest(n, at) = [top |-> top, fb |-> fb]
  BY DEF NextManifest
<1> HIDE DEF top, fb
<1> QED BY <1>4, <1>5, <1>6 DEF Manifest

\* The snapshots that a cleanup leaves were there before.
LEMMA KeptType ==
    ASSUME NEW n, NEW previous, NEW m
    PROVE  Kept(n, previous, m) \subseteq objs
BY DEF Kept

\* Every step of a node's pass.
LEMMA ReconcileType ==
    ASSUME TypeInv, NEW n \in Nodes, Reconcile(n)
    PROVE  TypeInv'
<1>1. /\ row \in Row /\ handoff \in Lease \cup {None} /\ objs \subseteq Snapshot
      /\ writes \in Nat /\ newest \in Nat /\ erased \in Nat
  BY DEF TypeInv, TypeOK
<1>2. node[n] \in Pass /\ node[n] \in Node
  BY NodeIsPass DEF Pass
<1>3. node[n].pc # "idle" => node[n].asg \in Row
  BY <1>2 DEF Pass, Node
<1>4. \A p \in Steps : node[n].pc # "idle" \/ p = "idle" => Goes(n, p) \in Pass
  BY <1>3, GoesType
<1>5. KeyAvailable(n) => WithKey(n) \in Pass
  BY WithKeyType
<1>6. "idle" \in Steps /\ "fail" \in Steps /\ "plain" \in Steps
  BY DEF Steps
<1>7. "error" \in Statuses /\ "starting" \in Statuses /\ "running" \in Statuses
  BY DEF Statuses
<1> USE DEF Reconciles
<1>8. CASE FetchAssignment(n)
  <2>1. StepFor(row) \in Steps
    BY DEF StepFor, Steps
  <2>2. [node[n] EXCEPT !.asg = row, !.pc = StepFor(row)] \in Pass
    BY <1>1, <1>2, <2>1 DEF Pass, Node
  <2> QED BY <1>1, <1>8, <2>2, NodeStep DEF FetchAssignment
<1>9. CASE ReportRunning(n)
  <2>1. PICK st \in {"starting", "running"} :
           Deliver(n, [NoReport EXCEPT !.status = st], "idle")
    BY <1>9 DEF ReportRunning
  <2>2. /\ row' \in Row /\ handoff' \in Lease \cup {None}
        /\ \E r \in Pass : Becomes(n, r)
    BY <1>3, <1>6, <1>7, <1>9, <2>1, ReportTypes, DeliverType DEF ReportRunning
  <2> QED BY <1>1, <1>9, <2>2, NodeStep DEF ReportRunning
<1>10. CASE DiscardTaintedRuntime(n)
  <2>1. PICK c \in {"none", "running"} :
           Becomes(n, [node[n] EXCEPT !.container = c, !.data = None, !.mark = FALSE,
                                      !.key = FALSE, !.pc = "fail"])
    BY <1>10 DEF DiscardTaintedRuntime
  <2>2. [node[n] EXCEPT !.container = c, !.data = None, !.mark = FALSE, !.key = FALSE,
                        !.pc = "fail"] \in Pass
    BY <1>2, <1>3, <1>10 DEF DiscardTaintedRuntime, Pass, Node, Steps
  <2>3. newest' \in Nat
    BY <1>1, <1>10, SavedVersionType DEF DiscardTaintedRuntime, Row
  <2> QED BY <1>1, <1>10, <2>1, <2>2, <2>3, NodeStep DEF DiscardTaintedRuntime
<1>11. CASE PrepareSessionData(n)
  <2> DEFINE m == node[n].asg.manifest
             Prepared(d) == [WithKey(n) EXCEPT !.container = "exited", !.data = d,
                                               !.pc = "start"]
  <2>1. m \in Manifest \cup {None}
    BY <1>3, <1>11 DEF PrepareSessionData, Row
  <2>2. \A d \in Nat : Prepared(d) \in Pass
    <3>1. KeyAvailable(n) /\ node[n].asg \in Row
      BY <1>3, <1>11 DEF PrepareSessionData
    <3>2. WithKey(n) \in Node /\ WithKey(n).asg \in Row
      BY <1>2, <1>5, <3>1 DEF WithKey, Pass, Node
    <3> QED BY <3>2 DEF Pass, Node, Steps
  <2>3. PICK d \in Nat : Becomes(n, Prepared(d))
    BY <1>2, <1>11, <2>1 DEF PrepareSessionData, HasUnsavedSession, Node, Manifest, Snapshot
  <2>4. objs' \subseteq Snapshot
    BY <1>1, <1>11 DEF PrepareSessionData
  <2> QED BY <1>1, <1>11, <2>2, <2>3, <2>4, NodeStep DEF PrepareSessionData
<1>12. CASE RestoreFails(n)
  <2> DEFINE d == IF node[n].asg.manifest.top.gen < WithKey(n).floor
                  THEN WithKey(n).data ELSE None
             r == [WithKey(n) EXCEPT !.container = "none", !.pc = "fail", !.data = d]
  <2>1. Becomes(n, r)
    BY <1>12 DEF RestoreFails
  <2>2. WithKey(n) \in Node /\ WithKey(n).asg \in Row /\ d \in Nat \cup {None}
    BY <1>2, <1>3, <1>5, <1>12 DEF RestoreFails, WithKey, Pass, Node
  <2> HIDE DEF d
  <2>3. r \in Pass
    BY <2>2 DEF Pass, Node, Steps
  <2> QED BY <1>1, <1>12, <2>1, <2>3, NodeStep DEF RestoreFails
<1>13. CASE StartWithoutKey(n)
  <2>1. [node[n] EXCEPT !.container = "none", !.pc = "fail"] \in Pass
    BY <1>2, <1>3, <1>13 DEF StartWithoutKey, Pass, Node, Steps
  <2> QED BY <1>1, <1>13, <2>1, NodeStep DEF StartWithoutKey
<1>14. CASE MarkUnsavedSession(n)
  <2>1. [node[n] EXCEPT !.mark = TRUE, !.pc = "marked"] \in Pass
    BY <1>2, <1>3, <1>14 DEF MarkUnsavedSession, Pass, Node, Steps
  <2> QED BY <1>1, <1>14, <2>1, NodeStep DEF MarkUnsavedSession
<1>15. CASE StartContainer(n)
  <2>1. [node[n] EXCEPT !.container = "running", !.pc = "started"] \in Pass
    BY <1>2, <1>3, <1>15 DEF StartContainer, Pass, Node, Steps
  <2> QED BY <1>1, <1>15, <2>1, NodeStep DEF StartContainer
<1>16. CASE ReportStarted(n)
  <2>1. /\ row' \in Row /\ handoff' \in Lease \cup {None}
        /\ \E r \in Pass : Becomes(n, r)
    BY <1>3, <1>6, <1>7, <1>16, ReportTypes, DeliverType DEF ReportStarted
  <2> QED BY <1>1, <1>16, <2>1, NodeStep DEF ReportStarted
<1>17. CASE QuiesceContainer(n)
  <2> DEFINE k == IF node[n].asg.auto THEN WithKey(n) ELSE node[n]
             r == [k EXCEPT !.mark = TRUE, !.pc = "persist",
                            !.container = IF @ = "none" THEN @ ELSE "exited"]
             s == [node[n] EXCEPT !.container = "none", !.pc = "commit"]
  <2>1. ASSUME ShouldPersist(n) PROVE k \in Pass /\ k.asg = node[n].asg
    BY <1>2, <1>5, <1>17, <2>1 DEF QuiesceContainer, WithKey, Pass, Node
  <2>2. ASSUME ShouldPersist(n) PROVE r \in Pass
    <3> HIDE DEF k
    <3> QED BY <1>3, <1>17, <2>1, <2>2 DEF QuiesceContainer, Pass, Node, Steps
  <2>3. s \in Pass
    BY <1>2, <1>3, <1>17 DEF QuiesceContainer, Pass, Node, Steps
  <2>4. CASE ShouldPersist(n)
    BY <1>1, <1>17, <2>2, <2>4, NodeStep DEF QuiesceContainer
  <2>5. CASE ~ShouldPersist(n)
    BY <1>1, <1>17, <2>3, <2>5, NodeStep DEF QuiesceContainer
  <2> QED BY <2>4, <2>5
<1>18. CASE StopWithoutKey(n)
  <2>1. [node[n] EXCEPT !.mark = TRUE, !.pc = "fail"] \in Pass
    BY <1>2, <1>3, <1>18 DEF StopWithoutKey, Pass, Node, Steps
  <2> QED BY <1>1, <1>18, <2>1, NodeStep DEF StopWithoutKey
<1>19. CASE PersistSessionData(n)
  <2>1. CASE node[n].data # None /\ node[n].asg.auto
    <3>1. PICK at \in StoresOf(n) :
             /\ Becomes(n, [node[n] EXCEPT !.cand = NextManifest(n, at),
                                           !.container = "none", !.pc = "commit"])
             /\ objs' = objs \cup {NextManifest(n, at).top}
      BY <1>19, <2>1 DEF PersistSessionData, StoresOf
    <3>2. NextManifest(n, at) \in Manifest /\ NextManifest(n, at).top \in Snapshot
      BY <1>3, <1>19, <2>1, NextManifestType DEF PersistSessionData
    <3>3. [node[n] EXCEPT !.cand = NextManifest(n, at), !.container = "none",
                          !.pc = "commit"] \in Pass
      BY <1>2, <1>3, <1>19, <3>2 DEF PersistSessionData, Pass, Node, Steps
    <3> QED BY <1>1, <1>19, <3>1, <3>2, <3>3, NodeStep DEF PersistSessionData
  <2>2. CASE ~(node[n].data # None /\ node[n].asg.auto)
    <3>1. [node[n] EXCEPT !.clearing = TRUE, !.container = "none", !.pc = "commit"] \in Pass
      BY <1>2, <1>3, <1>19 DEF PersistSessionData, Pass, Node, Steps
    <3> QED BY <1>1, <1>19, <2>2, <3>1, NodeStep DEF PersistSessionData
  <2> QED BY <2>1, <2>2
<1>20. CASE CommitStop(n)
  <2>1. /\ row' \in Row /\ handoff' \in Lease \cup {None}
        /\ \E r \in Pass : Becomes(n, r)
    BY <1>3, <1>6, <1>20, ReportTypes, DeliverType DEF CommitStop
  <2>2. newest' \in Nat
    BY <1>1, <1>20 DEF CommitStop
  <2> QED BY <1>1, <1>20, <2>1, <2>2, NodeStep DEF CommitStop
<1>21. CASE CommitOverQuota(n)
  BY <1>1, <1>4, <1>6, <1>21, NodeStep DEF CommitOverQuota
<1>22. CASE RemovePlaintext(n)
  <2>1. [node[n] EXCEPT !.data = None, !.pc = "unmark"] \in Pass
    BY <1>2, <1>3, <1>22 DEF RemovePlaintext, Pass, Node, Steps
  <2> QED BY <1>1, <1>22, <2>1, NodeStep DEF RemovePlaintext
<1>23. CASE ClearUnsavedSession(n)
  <2>1. [node[n] EXCEPT !.mark = FALSE, !.pc = "clean"] \in Pass
    BY <1>2, <1>3, <1>23 DEF ClearUnsavedSession, Pass, Node, Steps
  <2> QED BY <1>1, <1>23, <2>1, NodeStep DEF ClearUnsavedSession
<1>24. CASE CleanupBlobStorage(n)
  <2>1. [node[n] EXCEPT !.key = FALSE, !.pc = "ack"] \in Pass
    BY <1>2, <1>3, <1>24 DEF CleanupBlobStorage, Pass, Node, Steps
  <2>2. objs' \subseteq Snapshot
    BY <1>1, <1>24, KeptType DEF CleanupBlobStorage
  <2> QED BY <1>1, <1>24, <2>1, <2>2, NodeStep DEF CleanupBlobStorage
<1>25. CASE AcknowledgeCleanup(n)
  <2>1. /\ row' \in Row /\ handoff' \in Lease \cup {None}
        /\ \E r \in Pass : Becomes(n, r)
    BY <1>3, <1>6, <1>7, <1>25, ReportTypes, DeliverType DEF AcknowledgeCleanup
  <2> QED BY <1>1, <1>25, <2>1, NodeStep DEF AcknowledgeCleanup
<1>26. CASE RemoveLocalState(n)
  <2> DEFINE k == IF node[n].asg.desired # "deleted" THEN WithKey(n) ELSE node[n]
             r == [k EXCEPT !.container = "none", !.data = None, !.mark = FALSE,
                            !.pc = "clear"]
  <2>1. k \in Pass /\ k.asg = node[n].asg
    BY <1>2, <1>5, <1>26 DEF RemoveLocalState, WithKey, Pass, Node
  <2>2. r \in Pass
    <3> HIDE DEF k
    <3> QED BY <1>3, <1>26, <2>1 DEF RemoveLocalState, Pass, Node, Steps
  <2> QED BY <1>1, <1>26, <2>2, NodeStep DEF RemoveLocalState
<1>27. CASE WipeWithoutKey(n)
  BY <1>1, <1>4, <1>6, <1>27, NodeStep DEF WipeWithoutKey
<1>28. CASE ClearSnapshot(n)
  <2>1. [node[n] EXCEPT !.key = FALSE, !.pc = "erased"] \in Pass
    BY <1>2, <1>3, <1>28 DEF ClearSnapshot, Pass, Node, Steps
  <2>2. objs' \subseteq Snapshot
    BY <1>1, <1>28, KeptType DEF ClearSnapshot, LeftAfterClear
  <2> QED BY <1>1, <1>28, <2>1, <2>2, NodeStep DEF ClearSnapshot
<1>29. CASE ReportWiped(n)
  <2>1. /\ row' \in Row /\ handoff' \in Lease \cup {None}
        /\ \E r \in Pass : Becomes(n, r)
    BY <1>3, <1>6, <1>7, <1>29, ReportTypes, DeliverType DEF ReportWiped
  <2> QED BY <1>1, <1>29, <2>1, NodeStep DEF ReportWiped
<1>30. CASE ReportDeleted(n)
  <2> DEFINE deleted == [row EXCEPT !.status = "deleted", !.desired = "deleted",
                                    !.host = None, !.manifest = None,
                                    !.blobHost = None, !.wipe = FALSE]
  <2>0. deleted \in Row
    BY <1>1, StateNames, ZenonT(40) DEF Row
  <2> HIDE DEF deleted
  <2>1. row' \in Row /\ handoff' \in Lease \cup {None}
    <3>1. (row' = deleted /\ handoff' = None) \/ UNCHANGED <<row, handoff>>
      BY <1>30 DEF ReportDeleted, deleted
    <3> QED BY <1>1, <2>0, <3>1
  <2>2. \E r \in Pass : Becomes(n, r)
    BY <1>4, <1>6, <1>30 DEF ReportDeleted
  <2> QED BY <1>1, <1>30, <2>1, <2>2, NodeStep DEF ReportDeleted
<1>31. CASE ReportError(n)
  <2>1. row' \in Row
    BY <1>1, <1>31, ReportTypes, ObservedType DEF ReportError
  <2> QED BY <1>1, <1>4, <1>6, <1>31, <2>1, NodeStep DEF ReportError
<1> QED BY <1>8, <1>9, <1>10, <1>11, <1>12, <1>13, <1>14, <1>15, <1>16, <1>17, <1>18,
           <1>19, <1>20, <1>21, <1>22, <1>23, <1>24, <1>25, <1>26, <1>27, <1>28,
           <1>29, <1>30, <1>31 DEF Reconcile

\* A disk that is lost takes a node's state and the snapshots on it.
LEMMA DiskLostType ==
    ASSUME TypeInv, NEW n \in Nodes, DiskLost(n)
    PROVE  /\ node' \in [Nodes -> Node] /\ PassHasAssignment'
           /\ handoff' \in Lease \cup {None} /\ objs' \subseteq Snapshot /\ newest' \in Nat
<1>1. EmptyNode \in Pass
  BY DEF EmptyNode, Pass, Node, Steps
<1>2. Becomes(n, EmptyNode)
  BY DEF DiskLost
<1>3. row.manifest \in Manifest \cup {None}
  BY DEF TypeInv, TypeOK, Row
<1>4. newest' \in Nat
  BY <1>3, SavedVersionType DEF DiskLost, TypeInv, TypeOK
<1>5. handoff' \in Lease \cup {None} /\ objs' \subseteq Snapshot
  BY DEF DiskLost, TypeInv, TypeOK
<1> QED BY <1>1, <1>2, <1>4, <1>5, BecomesType

\* What happens around the agents: faults, the guest, heartbeats.
LEMMA EnvironmentType ==
    ASSUME TypeInv, NEW n \in Nodes, Environment(n)
    PROVE  TypeInv'
<1>1. /\ row \in Row /\ handoff \in Lease \cup {None} /\ objs \subseteq Snapshot
      /\ writes \in Nat /\ newest \in Nat /\ erased \in Nat
  BY DEF TypeInv, TypeOK
<1>2. node[n] \in Pass
  BY NodeIsPass
<1>3. Goes(n, "idle") \in Pass
  BY GoesType DEF Steps
<1>4. CASE StepFails(n)
  <2>1. Goes(n, "fail") \in Pass
    BY <1>2, <1>4, GoesType DEF StepFails, Pass, Steps
  <2> QED BY <1>1, <1>4, <2>1, NodeStep DEF StepFails
<1>5. CASE GuestWrites(n)
  <2>1. [node[n] EXCEPT !.data = writes + 1] \in Pass
    BY <1>1, <1>2 DEF Pass, Node
  <2>2. writes' \in Nat /\ newest' \in Nat /\ erased' \in Nat
    BY <1>1, <1>5 DEF GuestWrites
  <2> QED BY <1>1, <1>5, <2>1, <2>2, NodeStep DEF GuestWrites
<1>6. CASE ContainerExits(n)
  <2>1. [node[n] EXCEPT !.container = "exited"] \in Pass
    BY <1>2 DEF Pass, Node
  <2> QED BY <1>1, <1>6, <2>1, NodeStep DEF ContainerExits
<1>7. CASE NodeRestarts(n)
  <2>1. [Goes(n, "idle") EXCEPT !.key = FALSE, !.floor = 0] \in Pass
    BY <1>3 DEF Pass, Node
  <2> QED BY <1>1, <1>7, <2>1, NodeStep DEF NodeRestarts
<1>8. CASE VMReboots(n)
  BY <1>8, DiskLostType DEF VMReboots, TypeInv, TypeOK
<1>9. CASE VMDeleted(n)
  BY <1>9, DiskLostType DEF VMDeleted, TypeInv, TypeOK
<1>10. CASE HeartbeatStale(n)
  BY <1>10 DEF HeartbeatStale, TypeInv, TypeOK, PassHasAssignment
<1>11. CASE HeartbeatHost(n)
  BY <1>11 DEF HeartbeatHost, TypeInv, TypeOK, PassHasAssignment
<1>12. CASE AssignPendingRemoteRuntimeCleanup(n)
  <2>1. row' \in Row
    BY <1>1, <1>12, StateNames DEF AssignPendingRemoteRuntimeCleanup, TakenBy, Row
  <2> QED BY <1>1, <1>12, <2>1, RowStep DEF AssignPendingRemoteRuntimeCleanup
<1> QED BY <1>4, <1>5, <1>6, <1>7, <1>8, <1>9, <1>10, <1>11, <1>12 DEF Environment

\* A runtime of a deleted VM is reset to a well-formed row.
LEMMA ResetType == TypeInv /\ ResetLostRuntime => TypeInv'
<1> SUFFICES ASSUME TypeInv, ResetLostRuntime PROVE TypeInv'
  OBVIOUS
<1>1. row \in Row
  BY DEF TypeInv, TypeOK
<1> DEFINE manifest == IF HasRemoteSnapshot THEN row.manifest ELSE None
           floor == IF HasRemoteSnapshot THEN row.floor ELSE row.floor + Gen(row.manifest)
           status == IF row.desired # "deleted" THEN "stopped"
                     ELSE IF HasRemoteSnapshot THEN "deleting" ELSE "deleted"
           desired == IF row.desired = "deleted" THEN row.desired ELSE "stopped"
<1>2. /\ manifest \in Manifest \cup {None} /\ floor \in Nat
      /\ row.opGen + 1 \in Nat
  BY <1>1, GenType DEF Row
<1>3. status \in Statuses /\ desired \in DesiredStates
  BY StateNames
<1>4. row' = [row EXCEPT !.host = None, !.blobHost = None, !.cleanup = FALSE,
                         !.manifest = manifest, !.floor = floor, !.status = status,
                         !.desired = desired, !.opGen = row.opGen + 1]
  BY DEF ResetLostRuntime
<1> HIDE DEF manifest, floor, status, desired
<1>5. row' \in Row
  BY <1>1, <1>2, <1>3, <1>4 DEF Row
<1> QED BY <1>5, RowStep DEF ResetLostRuntime, TypeInv, TypeOK

\* Every step keeps the state well-formed.
LEMMA NextType == TypeInv /\ [Next]_vars => TypeInv'
<1> SUFFICES ASSUME TypeInv, [Next]_vars PROVE TypeInv'
  OBVIOUS
<1>1. CASE Next
  BY <1>1, RequestType, ResetType, ReconcileType, EnvironmentType DEF Next
<1>2. CASE UNCHANGED vars
  BY <1>2 DEF vars, TypeInv, TypeOK, PassHasAssignment
<1> QED BY <1>1, <1>2

(* TypeOK is an invariant: whatever phones ask for and whatever fails, the *)
(* row, the lease, the snapshots and every agent's state are well-formed,  *)
(* and only nodes that exist count as ready.                               *)
THEOREM TypeCorrect == Spec => []TypeOK
<1>1. TypeInv => TypeOK
  BY DEF TypeInv
<1> QED BY InitType, NextType, <1>1, PTL DEF Spec

\* What the type proof establishes, for the theorems that follow.
LEMMA TypeInvariant == Spec => []TypeInv
BY InitType, NextType, PTL DEF Spec

-----------------------------------------------------------------------------
(* Generations.                                                            *)

\* The row counts every generation it ever committed: a report that clears
\* the manifest moves its generation to the floor, and one that commits a
\* manifest has the next generation.
LEMMA ObservedRises ==
    ASSUME TypeInv, NEW n \in Nodes, NEW o \in Report, Accepted(n, o)
    PROVE  Observed(n, o).floor + Gen(Observed(n, o).manifest)
              >= row.floor + Gen(row.manifest)
<1>1. row \in Row /\ row.floor \in Nat /\ row.manifest \in Manifest \cup {None}
  BY DEF TypeInv, TypeOK, Row
<1>2. Gen(row.manifest) \in Nat /\ Gen(None) = 0
  BY <1>1, GenType DEF Gen
<1>3. /\ Observed(n, o).floor = FloorAfter(o)
      /\ Observed(n, o).manifest = IF o.clear THEN None
                                   ELSE IF o.manifest # None THEN o.manifest
                                   ELSE row.manifest
  BY <1>1 DEF Observed, Row
<1>4. CASE o.clear
  BY <1>1, <1>2, <1>3, <1>4 DEF FloorAfter
<1>5. CASE ~o.clear /\ o.manifest = None
  BY <1>1, <1>2, <1>3, <1>5 DEF FloorAfter
<1>6. CASE ~o.clear /\ o.manifest # None
  <2>1. ManifestAdvances(row.manifest, o.manifest) /\ o.manifest \in Manifest
    BY <1>6 DEF Accepted, Report
  <2>2. Gen(o.manifest) \in Nat /\ Gen(o.manifest) >= Gen(row.manifest)
    BY <1>1, <1>6, <2>1 DEF ManifestAdvances, Gen, Manifest, Snapshot
  <2> QED BY <1>1, <1>2, <1>3, <1>6, <2>2 DEF FloorAfter
<1> QED BY <1>4, <1>5, <1>6

\* An agent changes the row only through a report that it accepts, or by
\* finishing a deletion.
LEMMA ReconcileRow ==
    ASSUME TypeInv, NEW n \in Nodes, Reconcile(n)
    PROVE  \/ row' = row
           \/ \E o \in Report : Accepted(n, o) /\ row' = Observed(n, o)
           \/ row' # row /\ row'.status = "deleted"
<1> DEFINE Result == \/ row' = row
                     \/ \E o \in Report : Accepted(n, o) /\ row' = Observed(n, o)
                     \/ row' # row /\ row'.status = "deleted"
<1>1. \A o \in Report : \A p : Deliver(n, o, p) => Result
  BY DEF Deliver
<1>2. row \in Row
  BY DEF TypeInv, TypeOK
<1>3. \A st \in Statuses : [NoReport EXCEPT !.status = st] \in Report
  BY ReportTypes
<1>4. "starting" \in Statuses /\ "running" \in Statuses
  BY DEF Statuses
<1>5. WipeReport \in Report /\ StopReport(n) \in Report /\ CleanupReport(n) \in Report
  BY ReportTypes
<1>6. CASE ReportRunning(n)
  BY <1>1, <1>3, <1>4, <1>6 DEF ReportRunning
<1>7. CASE ReportStarted(n)
  BY <1>1, <1>3, <1>4, <1>7 DEF ReportStarted
<1>8. CASE CommitStop(n)
  BY <1>1, <1>5, <1>8 DEF CommitStop
<1>9. CASE AcknowledgeCleanup(n)
  BY <1>1, <1>5, <1>9 DEF AcknowledgeCleanup
<1>10. CASE ReportWiped(n)
  BY <1>1, <1>5, <1>10 DEF ReportWiped
<1>11. CASE ReportDeleted(n)
  BY <1>2, <1>11 DEF ReportDeleted, Row
<1>12. CASE ReportError(n)
  <2>1. NoReport \in Report /\ (Fenced(n) => Accepted(n, NoReport))
    BY ReportTypes DEF Accepted, NoReport
  <2> QED BY <1>12, <2>1 DEF ReportError
<1>13. CASE \/ FetchAssignment(n) \/ DiscardTaintedRuntime(n) \/ PrepareSessionData(n)
            \/ RestoreFails(n) \/ StartWithoutKey(n) \/ MarkUnsavedSession(n)
            \/ StartContainer(n) \/ QuiesceContainer(n) \/ StopWithoutKey(n)
            \/ PersistSessionData(n) \/ CommitOverQuota(n) \/ RemovePlaintext(n)
            \/ ClearUnsavedSession(n) \/ CleanupBlobStorage(n) \/ RemoveLocalState(n)
            \/ WipeWithoutKey(n) \/ ClearSnapshot(n)
  BY <1>13 DEF FetchAssignment, DiscardTaintedRuntime, PrepareSessionData, RestoreFails,
     StartWithoutKey, MarkUnsavedSession, StartContainer, QuiesceContainer,
     StopWithoutKey, PersistSessionData, CommitOverQuota, RemovePlaintext,
     ClearUnsavedSession, CleanupBlobStorage, RemoveLocalState, WipeWithoutKey,
     ClearSnapshot
<1> QED BY <1>6, <1>7, <1>8, <1>9, <1>10, <1>11, <1>12, <1>13 DEF Reconcile

\* Around the agents, only the heartbeat that takes a waiting deletion does.
LEMMA EnvironmentRow ==
    ASSUME NEW n \in Nodes, Environment(n)
    PROVE  row' = row \/ AssignPendingRemoteRuntimeCleanup(n)
BY DEF Environment, StepFails, GuestWrites, ContainerExits, NodeRestarts, VMReboots,
   VMDeleted, HeartbeatStale, HeartbeatHost

\* A request leaves the manifest and the floor alone.
LEMMA RequestKeepsManifest ==
    ASSUME TypeInv, Request
    PROVE  row'.manifest = row.manifest /\ row'.floor = row.floor
<1>1. row \in Row
  BY DEF TypeInv, TypeOK
<1>2. CASE \/ \E op \in Requests \cap Operations : PutLease(op)
           \/ LeaseExpires \/ RefuseRequest \/ OpenSession \/ VerifyAndRecord
  BY <1>2 DEF PutLease, LeaseExpires, RefuseRequest, OpenSession, VerifyAndRecord
<1>3. CASE UpdateRuntimeSettings \/ ReapIdleRuntime
  BY <1>1, <1>3 DEF UpdateRuntimeSettings, ReapIdleRuntime, Row
<1>4. CASE StartRuntime \/ StopRuntime
  BY <1>1, <1>4 DEF StartRuntime, StopRuntime, Row
<1>5. CASE EndSessionAndStopRuntime \/ QueueRuntimeStop
  BY <1>1, <1>5 DEF EndSessionAndStopRuntime, QueueRuntimeStop, StoppedRow, Row
<1>6. CASE WipeRuntime \/ DeleteRuntime \/ DeleteAccount
  BY <1>1, <1>6 DEF WipeRuntime, DeleteRuntime, DeletingRow, DeleteAccount, Row
<1> QED BY <1>2, <1>3, <1>4, <1>5, <1>6 DEF Request

(* floor + generation never goes back while the runtime lives: whichever   *)
(* agent commits or clears its snapshot, and whichever VM is lost, phones  *)
(* can tell a newer row from an older one by it (blob_generation_floor).   *)
THEOREM GenerationNeverFalls == Spec => GenerationRises
<1> DEFINE Rises == row'.floor + Gen(row'.manifest) >= row.floor + Gen(row.manifest)
<1>1. ASSUME TypeInv, [Next]_vars PROVE [Live' => Rises]_vars
  <2>1. row \in Row /\ row.floor \in Nat /\ row.manifest \in Manifest \cup {None}
    BY <1>1 DEF TypeInv, TypeOK, Row
  <2>2. Gen(row.manifest) \in Nat
    BY <2>1, GenType
  <2>3. ASSUME row'.manifest = row.manifest, row'.floor = row.floor PROVE Rises
    BY <2>1, <2>2, <2>3
  <2>4. CASE Request
    BY <1>1, <2>3, <2>4, RequestKeepsManifest
  <2>5. CASE ResetLostRuntime
    <3>1. /\ row'.manifest = IF HasRemoteSnapshot THEN row.manifest ELSE None
          /\ row'.floor = IF HasRemoteSnapshot THEN row.floor
                          ELSE row.floor + Gen(row.manifest)
      BY <2>1, <2>5 DEF ResetLostRuntime, Row
    <3>2. Gen(None) = 0
      BY DEF Gen
    <3> QED BY <2>1, <2>2, <3>1, <3>2
  <2>6. ASSUME NEW n \in Nodes, Reconcile(n) PROVE Live' => Rises
    BY <1>1, <2>1, <2>2, <2>6, ReconcileRow, ObservedRises DEF Live
  <2>7. ASSUME NEW n \in Nodes, Environment(n) PROVE Live' => Rises
    <3>1. CASE AssignPendingRemoteRuntimeCleanup(n)
      BY <2>1, <2>3, <3>1 DEF AssignPendingRemoteRuntimeCleanup, TakenBy, Row
    <3> QED BY <2>3, <2>7, <3>1, EnvironmentRow
  <2>8. CASE UNCHANGED vars
    BY <2>8
  <2> QED BY <1>1, <2>4, <2>5, <2>6, <2>7, <2>8 DEF Next
<1> QED BY <1>1, TypeInvariant, PTL DEF Spec, GenerationRises

-----------------------------------------------------------------------------
(* Pending cleanups.                                                       *)

\* A report leaves a cleanup pending only with its host, and of a stop.
LEMMA ObservedCleanup ==
    ASSUME TypeInv, CleanupHasHost, NEW n \in Nodes, NEW o \in Report, Accepted(n, o),
           row' = Observed(n, o)
    PROVE  CleanupHasHost'
<1>1. row \in Row /\ row.host = n /\ n # None
  BY NamesAssumption DEF TypeInv, TypeOK, Accepted, Fenced
<1>2. /\ row'.cleanup = CleanupAfter(o) /\ row'.desired = row.desired
      /\ row'.host = IF ReleasesHost(o) THEN None ELSE row.host
  BY <1>1 DEF Observed, Row
<1>3. SUFFICES ASSUME CleanupAfter(o), row.desired # "deleted"
               PROVE  row.desired = "stopped" /\ ~ReleasesHost(o)
  BY <1>1, <1>2 DEF CleanupHasHost, Live
<1>4. ~ReleasesHost(o)
  BY <1>3 DEF CleanupAfter, ReleasesHost
<1>5. row.desired \in {"stopped", "running", "deleted"}
  BY <1>1 DEF Row, DesiredStates
<1>6. CASE o.status = "stopped" /\ row.desired # "running"
  BY <1>3, <1>4, <1>5, <1>6
<1>7. CASE row.cleanup
  BY <1>1, <1>3, <1>4, <1>7 DEF CleanupHasHost, Live, Accepted, Fenced
<1> QED BY <1>3, <1>6, <1>7 DEF CleanupAfter

\* No request starts a runtime, or takes its host, while a cleanup is pending.
LEMMA RequestCleanup ==
    ASSUME TypeInv, CleanupHasHost, Request
    PROVE  CleanupHasHost'
<1>1. row \in Row /\ handoff \in Lease \cup {None}
  BY DEF TypeInv, TypeOK
<1>2. CASE UNCHANGED row
  BY <1>2 DEF CleanupHasHost, Live
<1>3. CASE \/ \E op \in Requests \cap Operations : PutLease(op)
           \/ LeaseExpires \/ RefuseRequest \/ OpenSession \/ VerifyAndRecord
  BY <1>2, <1>3 DEF PutLease, LeaseExpires, RefuseRequest, OpenSession, VerifyAndRecord
<1>4. CASE UpdateRuntimeSettings
  BY <1>1, <1>4 DEF UpdateRuntimeSettings, CleanupHasHost, Live, Row
<1>5. CASE StartRuntime
  BY <1>1, <1>2, <1>5 DEF StartRuntime, MayStart, CleanupHasHost, Live, Row
<1>6. CASE StopRuntime
  BY <1>1, <1>2, <1>6 DEF StopRuntime, CleanupHasHost, Live, Row
<1>7. CASE EndSessionAndStopRuntime \/ QueueRuntimeStop
  BY <1>1, <1>7 DEF EndSessionAndStopRuntime, QueueRuntimeStop, StoppedRow,
                    CleanupHasHost, Live, Row
<1>8. CASE ReapIdleRuntime
  BY <1>1, <1>8 DEF ReapIdleRuntime, CleanupHasHost, Live, Row
<1>9. CASE WipeRuntime
  <2>1. handoff.host \in Nodes /\ handoff.host # None
    BY <1>1, <1>9, NamesAssumption DEF WipeRuntime, Activates, Lease
  <2> QED BY <1>1, <1>9, <2>1 DEF WipeRuntime, CleanupHasHost, Live, Row
<1>10. CASE DeleteRuntime \/ DeleteAccount
  BY <1>1, <1>10 DEF DeleteRuntime, DeletingRow, DeleteAccount, CleanupHasHost, Live, Row
<1> QED BY <1>3, <1>4, <1>5, <1>6, <1>7, <1>8, <1>9, <1>10 DEF Request

(* A cleanup that a stop has left pending always has a host to finish it,  *)
(* and the runtime is never started meanwhile: startRuntime refuses, and   *)
(* only the acknowledgement of the cleanup releases the host.              *)
THEOREM CleanupAlwaysHasHost == Spec => []CleanupHasHost
<1>1. Init => CleanupHasHost
  BY DEF Init, NewRow, CleanupHasHost
<1>2. ASSUME TypeInv, CleanupHasHost, [Next]_vars PROVE CleanupHasHost'
  <2>1. row \in Row
    BY <1>2 DEF TypeInv, TypeOK
  <2>2. ASSUME row' = row PROVE CleanupHasHost'
    BY <1>2, <2>2 DEF CleanupHasHost, Live
  <2>3. CASE Request
    BY <1>2, <2>3, RequestCleanup
  <2>4. CASE ResetLostRuntime
    BY <2>1, <2>4 DEF ResetLostRuntime, CleanupHasHost, Row
  <2>5. ASSUME NEW n \in Nodes, Reconcile(n) PROVE CleanupHasHost'
    <3>1. CASE row'.status = "deleted"
      BY <3>1 DEF CleanupHasHost, Live
    <3> QED BY <1>2, <2>2, <2>5, <3>1, ReconcileRow, ObservedCleanup
  <2>6. ASSUME NEW n \in Nodes, Environment(n) PROVE CleanupHasHost'
    <3>1. CASE AssignPendingRemoteRuntimeCleanup(n)
      BY <2>1, <3>1 DEF AssignPendingRemoteRuntimeCleanup, TakenBy, WaitsForNode,
                        CleanupHasHost, Live, Row
    <3> QED BY <2>2, <2>6, <3>1, EnvironmentRow
  <2>7. CASE UNCHANGED vars
    BY <2>2, <2>7 DEF vars
  <2> QED BY <1>2, <2>3, <2>4, <2>5, <2>6, <2>7 DEF Next
<1> QED BY <1>1, <1>2, TypeInvariant, PTL DEF Spec
=============================================================================
