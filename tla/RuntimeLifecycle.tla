-------------------------- MODULE RuntimeLifecycle --------------------------
(***************************************************************************)
(* One runtime from its creation to its deletion: its row in the control   *)
(* plane's database (internal/store), the requests of the phones that own  *)
(* it (internal/httpapi), and the node agents that carry the row out       *)
(* (cmd/virtnoded), with the snapshots they keep of its data.              *)
(*                                                                         *)
(* The row says what is desired and what was last observed.  Every change  *)
(* of what is desired raises row.opGen; a node works from a copy of the    *)
(* row (its assignment) and the row takes only the reports that carry the  *)
(* current opGen.  A node's pass over the runtime is a sequence of steps   *)
(* (node[n].pc), any of which may fail, and between two of them every      *)
(* other actor may act.                                                    *)
(*                                                                         *)
(* Guest data is abstracted to a version: every write of the guest makes a *)
(* new one, 0 is a fresh /data.  newest is the version that must not be    *)
(* lost, erased the last one a factory reset was asked to remove.          *)
(*                                                                         *)
(* A definition marked "Faulty" is a mistake one could make in the one     *)
(* after it; nothing uses it, and it is there to show that the properties  *)
(* notice.                                                                 *)
(***************************************************************************)
EXTENDS Naturals

CONSTANTS
    Nodes,          \* hosts that may run the runtime
    VMs,            \* the hosts that are provisioned VMs; the others are shared hosts
    Sia,            \* the remote snapshot store
    None,           \* no host, manifest, lease or data
    Requests,       \* what phones ask for
    FollowsState,   \* phones only ask for what the current state allows
    Faults,         \* the faults of AllFaults that may happen
    MaxOps,         \* bound on row.opGen
    MaxWrites       \* bound on the guest's writes

Operations == {"start", "stop", "wipe", "delete", "session"}

\* Besides the operations: to change the settings, to list the runtimes.
AllRequests == Operations \cup {"settings", "list"}

AllFaults == {"fail", "lossy", "quota", "restart", "reboot", "retire", "silent",
              "expire", "local", "unreachable", "taint"}

ASSUME BoundsAssumption == MaxOps \in Nat /\ MaxWrites \in Nat
ASSUME VMsAssumption == VMs \subseteq Nodes
ASSUME FollowsStateAssumption == FollowsState \in BOOLEAN
ASSUME FaultsAssumption == Faults \subseteq AllFaults
ASSUME RequestsAssumption == Requests \subseteq AllRequests
ASSUME NamesAssumption ==
    /\ None \notin Nodes \cup {Sia} \cup Nat
    /\ Sia \notin Nodes

VARIABLES
    row,        \* the runtime's row in the control plane
    handoff,    \* the runtime's blob-key lease, active once a phone sealed a key
    node,       \* per node: agent, container, data directory, marker, key cache
    objs,       \* the snapshots that exist in some store
    seen,       \* the newest snapshot the phone has a record of
    ready,      \* nodes the control plane has heard from lately
    up,         \* nodes that exist
    writes,     \* number of guest writes so far
    newest,     \* the version that must be kept
    erased      \* the newest version at the last factory reset

vars == <<row, handoff, node, objs, seen, ready, up, writes, newest, erased>>

\* A snapshot's ID is the snapshot: a retried save of the same data under the
\* same generation counts as the same one.
Snapshot == [gen : Nat, ver : Nat, at : Nodes \cup {Sia}]
Manifest == [top : Snapshot, fb : Snapshot \cup {None}]

DesiredStates == {"stopped", "running", "deleted"}

Statuses == {"stopped", "starting", "running", "stopping", "wiping", "deleting",
             "error", "deleted"}

Row == [desired  : DesiredStates,
        status   : Statuses,
        host     : Nodes \cup {None},
        wipe     : BOOLEAN,
        auto     : BOOLEAN,
        cleanup  : BOOLEAN,
        opGen    : Nat,
        manifest : Manifest \cup {None},
        blobHost : Nodes \cup {None},
        floor    : Nat]

Lease == [op : Operations, host : Nodes, active : BOOLEAN, floor : Nat]


Steps == {"idle", "run", "start", "marked", "started", "stop", "persist", "commit",
          "plain", "unmark", "clean", "ack", "erase", "clear", "erased", "fail"}

Node == [pc        : Steps,
         asg       : Row \cup {None},
         container : {"none", "exited", "running"},
         data      : Nat \cup {None},
         mark      : BOOLEAN,
         key       : BOOLEAN,
         floor     : Nat,
         clearing  : BOOLEAN,
         cand      : Manifest \cup {None}]

-----------------------------------------------------------------------------
(* CreateRuntime: a new runtime is stopped and lives on no host.           *)

NewRow(auto) ==
          [desired |-> "stopped", status |-> "stopped", host |-> None,
           wipe |-> FALSE, auto |-> auto, cleanup |-> FALSE, opGen |-> 1, manifest |-> None,
           blobHost |-> None, floor |-> 0]

EmptyNode == [pc |-> "idle", asg |-> None, container |-> "none", data |-> None,
              mark |-> FALSE, key |-> FALSE, floor |-> 0, clearing |-> FALSE, cand |-> None]

Init ==
    /\ row \in {NewRow(auto) : auto \in BOOLEAN}
    /\ handoff = None
    /\ node = [n \in Nodes |-> EmptyNode]
    /\ objs = {}
    /\ seen = None
    /\ ready = Nodes
    /\ up = Nodes
    /\ writes = 0 /\ newest = 0 /\ erased = 0

-----------------------------------------------------------------------------
(* Snapshots.                                                              *)

Gen(m) == IF m = None THEN 0 ELSE m.top.gen

Local(s) == s.at # Sia

\* The stores a node can reach: Sia and its own disk.
StoresOf(n) == {Sia, n}

Restorable(n, s) == s \in objs /\ s.at \in StoresOf(n)

(* What remains after cleanupBlobStorage kept m: in the store of m only m; *)
(* in the other one everything but the previous generation when m keeps a  *)
(* migration fallback there, nothing otherwise.                            *)
Kept(n, previous, m) ==
    IF m = None
    THEN {s \in objs : s.at \notin StoresOf(n)}
    ELSE {s \in objs :
            \/ s.at \notin StoresOf(n)
            \/ s = m.top
            \/ /\ Local(s) # Local(m.top)
               /\ m.fb # None /\ Local(s) = Local(m.fb)
               /\ previous # None => s # previous.top \/ s = m.fb}

Live == row.status # "deleted" /\ row.desired # "deleted"

RowHasLocalBlob == row.manifest # None /\ Local(row.manifest.top)

-----------------------------------------------------------------------------
(* What the row promises its phones (buildRuntimeState).                   *)

StoppedForSession == row.status = "stopped" /\ row.desired = "stopped"

ReadyForSession ==
    row.status = "running" /\ row.desired = "running" /\ row.host # None

IsBusy ==
    \/ row.status \in {"stopping", "wiping", "deleting"}
    \/ row.wipe
    \/ /\ row.status # "error" /\ ~ReadyForSession
       /\ row.desired = "running" \/ row.status = "starting"
    \/ row.cleanup

CanStart ==
    /\ Live /\ ~ReadyForSession /\ ~IsBusy
    /\ row.host = None \/ StoppedForSession

CanStop ==
    /\ Live /\ row.host # None /\ ~StoppedForSession
    /\ row.status \notin {"stopping", "wiping", "deleting"} /\ ~row.wipe

CanWipe == Live /\ ~IsBusy

CanDelete == Live /\ ~row.cleanup

Allowed(op) ==
    \/ ~FollowsState
    \/ CASE op = "start"   -> CanStart
         [] op = "stop"    -> CanStop
         [] op = "wipe"    -> CanWipe
         [] op = "delete"  -> CanDelete
         [] op = "session" -> ReadyForSession

-----------------------------------------------------------------------------
(* Blob-key leases.  The control plane names the host the phone seals the  *)
(* runtime's key to; a new lease replaces the old one and its key.         *)

StartHosts ==
    IF row.host # None
    THEN IF row.host \in ready THEN {row.host} ELSE ready
    ELSE IF RowHasLocalBlob THEN {row.blobHost} \cap ready
    ELSE ready

CleanupHosts ==
    IF row.host # None THEN {row.host}
    ELSE IF row.blobHost # None THEN {row.blobHost}
    ELSE IF RowHasLocalBlob THEN {}
    ELSE ready

BlobKeyTarget(op) ==
    CASE op = "start"   -> StartHosts
      [] op = "session" -> IF ReadyForSession THEN {row.host} ELSE {}
      [] OTHER          -> CleanupHosts

PutLease(op) ==
    /\ Live
    /\ Allowed(op)
    /\ \E h \in BlobKeyTarget(op) :
          handoff' = [op |-> op, host |-> h, active |-> FALSE, floor |-> 0]
    /\ UNCHANGED <<row, node, objs, seen, ready, up, writes, newest, erased>>

\* A request activates its lease: the envelope, which seals the key and the
\* generation the phone has seen, is verified with the node.
Activates(op) ==
    /\ handoff # None /\ handoff.op = op /\ handoff.host \in up
    /\ Allowed(op)

SnapshotFloor == IF seen = None THEN 0 ELSE seen.gen

ActiveHandoff == [handoff EXCEPT !.active = TRUE, !.floor = SnapshotFloor]

LeaseExpires ==
    /\ "expire" \in Faults
    /\ handoff # None
    /\ handoff' = None
    /\ UNCHANGED <<row, node, objs, seen, ready, up, writes, newest, erased>>

OpenSession ==
    /\ Activates("session")
    /\ ReadyForSession /\ row.host = handoff.host
    /\ handoff' = ActiveHandoff
    /\ UNCHANGED <<row, node, objs, seen, ready, up, writes, newest, erased>>

-----------------------------------------------------------------------------
(* Requests on the row.                                                    *)

UpdateRuntimeSettings ==
    /\ "settings" \in Requests
    /\ Live
    /\ row' = [row EXCEPT !.auto = ~@]
    /\ UNCHANGED <<handoff, node, objs, seen, ready, up, writes, newest, erased>>

\* The phone lists the runtime and records the newest snapshot it was shown.
Accepts(m) ==
    seen # None => IF m = None THEN row.floor >= seen.gen
                   ELSE m.top.gen > seen.gen \/ m.top = seen

VerifyAndRecord ==
    /\ "list" \in Requests
    /\ Live /\ row.manifest # None /\ Accepts(row.manifest)
    /\ row.manifest.top # seen
    /\ seen' = row.manifest.top
    /\ UNCHANGED <<row, handoff, node, objs, ready, up, writes, newest, erased>>

FaultyMayStart == handoff.host \in ready

MayStart == ~row.cleanup /\ handoff.host \in ready

StartRuntime ==
    /\ Activates("start")
    /\ Live
    /\ \/ row.desired = "running" /\ row' = row
       \/ /\ row.desired # "running" /\ MayStart
          /\ row.opGen < MaxOps
          /\ row' = [row EXCEPT !.host = handoff.host, !.status = "starting",
                                !.desired = "running", !.opGen = @ + 1,
                                !.wipe = FALSE]
    /\ handoff' = ActiveHandoff
    /\ UNCHANGED <<node, objs, seen, ready, up, writes, newest, erased>>

StopRuntime ==
    /\ Activates("stop")
    /\ Live
    /\ IF row.desired = "stopped"
       THEN row' = row
       ELSE /\ row.opGen < MaxOps
            /\ row' = [row EXCEPT !.status = "stopping", !.desired = "stopped",
                                  !.opGen = @ + 1]
    /\ handoff' = IF row'.status = "stopped" THEN None ELSE ActiveHandoff
    /\ UNCHANGED <<node, objs, seen, ready, up, writes, newest, erased>>

\* The row after a stop that does not come from StopRuntime.
StoppedRow ==
    [row EXCEPT !.status = IF row.host = None THEN "stopped" ELSE "stopping",
                !.desired = "stopped",
                !.opGen = IF row.desired = "stopped" THEN @ ELSE @ + 1]

EndSessionAndStopRuntime ==
    /\ Activates("stop")
    /\ Live
    /\ row.opGen < MaxOps
    /\ row' = StoppedRow
    /\ handoff' = ActiveHandoff
    /\ UNCHANGED <<node, objs, seen, ready, up, writes, newest, erased>>

QueueRuntimeStop ==
    /\ Live /\ row.desired = "running"
    /\ row.opGen < MaxOps
    /\ row' = StoppedRow
    /\ UNCHANGED <<handoff, node, objs, seen, ready, up, writes, newest, erased>>

ReapIdleRuntime ==
    /\ row.desired = "running" /\ row.status \in {"starting", "running", "error"}
    /\ row.opGen < MaxOps
    /\ row' = [row EXCEPT !.desired = "stopped", !.opGen = @ + 1]
    /\ UNCHANGED <<handoff, node, objs, seen, ready, up, writes, newest, erased>>

\* A wipe or a deletion goes to the host that has the runtime or its snapshot.
ServesErase(h) ==
    \/ row.host = h
    \/ /\ row.host = None
       /\ row.blobHost = h \/ (row.blobHost = None /\ ~RowHasLocalBlob)

(* The request is turned down, by the node that verifies its envelope or   *)
(* by the row, and its lease is dropped.                                   *)
RefuseRequest ==
    /\ handoff # None
    /\ \/ handoff.host \notin up
       \/ ~Live
       \/ handoff.op = "start" /\ row.desired # "running" /\ ~MayStart
       \/ handoff.op \in {"wipe", "delete"} /\ ~ServesErase(handoff.host)
       \/ handoff.op = "session" /\ ~(ReadyForSession /\ row.host = handoff.host)
    /\ handoff' = None
    /\ UNCHANGED <<row, node, objs, seen, ready, up, writes, newest, erased>>

WipeRuntime ==
    /\ Activates("wipe")
    /\ Live /\ ServesErase(handoff.host)
    /\ row.opGen < MaxOps
    /\ row' = [row EXCEPT !.host = handoff.host, !.status = "wiping",
                          !.desired = "stopped", !.wipe = TRUE,
                          !.opGen = IF row.wipe \/ row.status = "wiping"
                                    THEN @ ELSE @ + 1]
    /\ handoff' = ActiveHandoff
    /\ newest' = 0 /\ erased' = writes
    /\ UNCHANGED <<node, objs, seen, ready, up, writes>>

DeletingRow ==
    [row EXCEPT !.host = handoff.host, !.status = "deleting", !.desired = "deleted",
                !.wipe = FALSE, !.opGen = @ + 1]

DeleteRuntime ==
    /\ Activates("delete")
    /\ Live /\ ServesErase(handoff.host)
    /\ row.opGen < MaxOps
    /\ row' = DeletingRow
    /\ handoff' = ActiveHandoff
    /\ newest' = 0 /\ erased' = writes
    /\ UNCHANGED <<node, objs, seen, ready, up, writes>>

\* Deleting the account deletes its runtimes where their data is.
DeleteAccount ==
    /\ row.status # "deleted"
    /\ row.opGen < MaxOps
    /\ LET host == IF row.host # None THEN row.host ELSE row.blobHost
           gone == host = None /\ row.manifest = None
       IN row' = [row EXCEPT !.host = host,
                             !.status = IF gone THEN "deleted" ELSE "deleting",
                             !.desired = "deleted",
                             !.opGen = IF row.desired = "deleted" THEN @ ELSE @ + 1]
    /\ handoff' = None
    /\ newest' = 0 /\ erased' = writes
    /\ UNCHANGED <<node, objs, seen, ready, up, writes>>


\* A deletion that has nothing left but a remote snapshot.
WaitsForNode ==
    /\ row.host = None /\ row.blobHost = None
    /\ row.desired = "deleted" /\ row.status # "deleted"
    /\ row.manifest # None /\ ~RowHasLocalBlob

TakenBy(n) == [row EXCEPT !.host = n, !.status = "deleting"]

\* The heartbeat of a shared host takes it; that of a provisioned VM marks the
\* VM ready instead.
AssignPendingRemoteRuntimeCleanup(n) ==
    /\ n \in up \ VMs
    /\ WaitsForNode
    /\ row' = TakenBy(n)
    /\ UNCHANGED <<handoff, node, objs, seen, ready, up, writes, newest, erased>>

-----------------------------------------------------------------------------
(* Reports.  A report carries the operation generation of the assignment   *)
(* it is about; the row takes it only while that is still the current one  *)
(* and the node still its host.                                            *)

NoReport == [status |-> "error", manifest |-> None, clear |-> FALSE,
             clearWipe |-> FALSE, done |-> FALSE]

\* A new snapshot must be the next generation, or the one already committed.
ManifestAdvances(current, incoming) ==
    IF current = None THEN incoming.top.gen = 1
    ELSE incoming.top = current.top \/ incoming.top.gen = current.top.gen + 1

Fenced(n) ==
    /\ row.host = n /\ row.opGen = node[n].asg.opGen
    /\ row.status # "deleted"

Accepted(n, o) ==
    /\ Fenced(n)
    /\ o.manifest # None => ManifestAdvances(row.manifest, o.manifest)

FaultyReleasesHost(o) == row.desired = "stopped" /\ o.status \in {"stopped", "error"}

ReleasesHost(o) ==
    o.done /\ row.desired = "stopped" /\ o.status \in {"stopped", "error"}

FaultyFloorAfter(o) == row.floor

\* The generations that a cleared manifest takes with it are counted.
FloorAfter(o) == IF o.clear THEN row.floor + Gen(row.manifest) ELSE row.floor

FaultyCleanupAfter(o) == FALSE

CleanupAfter(o) ==
    IF o.done THEN FALSE
    ELSE IF o.status = "stopped" /\ row.desired # "running" THEN TRUE
    ELSE row.cleanup

Observed(n, o) ==
    [row EXCEPT
        !.status = o.status,
        !.host = IF ReleasesHost(o) THEN None ELSE @,
        !.wipe = IF o.clearWipe THEN FALSE ELSE @,
        !.manifest = IF o.clear THEN None
                     ELSE IF o.manifest # None THEN o.manifest ELSE @,
        !.floor = FloorAfter(o),
        !.blobHost = IF o.clear THEN None
                     ELSE IF o.manifest = None THEN @
                     ELSE IF Local(o.manifest.top) THEN n ELSE None,
        !.cleanup = CleanupAfter(o)]

Becomes(n, r) == node' = [node EXCEPT ![n] = r]

\* n's pass goes on at step p; what it holds ends with it.
Goes(n, p) ==
    [node[n] EXCEPT !.pc = p,
                    !.asg = IF p = "idle" THEN None ELSE @,
                    !.cand = IF p \in {"idle", "fail"} THEN None ELSE @,
                    !.clearing = IF p \in {"idle", "fail"} THEN FALSE ELSE @]

(* The node sends o and goes on at step next; a refused report, or one     *)
(* whose answer is lost, fails its pass.                                   *)
Deliver(n, o, next) ==
    \/ /\ Accepted(n, o)
       /\ row' = Observed(n, o)
       /\ handoff' = IF o.done THEN None ELSE handoff
       /\ \E p \in {next} \cup (IF "lossy" \in Faults THEN {"fail"} ELSE {}) :
             Becomes(n, Goes(n, p))
    \/ /\ ~Accepted(n, o)
       /\ Becomes(n, Goes(n, "fail"))
       /\ UNCHANGED <<row, handoff>>

-----------------------------------------------------------------------------
(* The node agent.  A pass starts by fetching the assignment.              *)

Reconciles(n, step) == n \in up /\ node[n].pc = step

StepFor(r) ==
    IF r.desired = "deleted" THEN "erase"
    ELSE IF r.wipe \/ r.status = "wiping" THEN "erase"
    ELSE IF r.desired = "running" THEN "run" ELSE "stop"

FetchAssignment(n) ==
    /\ Reconciles(n, "idle")
    /\ row.host = n /\ row.status # "deleted"
    /\ Becomes(n, [node[n] EXCEPT !.asg = row, !.pc = StepFor(row)])
    /\ UNCHANGED <<row, handoff, objs, seen, ready, up, writes, newest, erased>>

\* The runtime's key is cached, or a phone has sealed it to this node.
KeyAvailable(n) ==
    \/ node[n].key
    \/ handoff # None /\ handoff.active /\ handoff.host = n /\ row.host = n

\* Fetching the key also raises the floor n knows for the runtime.
WithKey(n) ==
    [node[n] EXCEPT !.key = TRUE,
                    !.floor = IF ~node[n].key /\ handoff.floor > @
                              THEN handoff.floor ELSE @]

-----------------------------------------------------------------------------
(* ensureRuntimeRunning.                                                   *)

ReportRunning(n) ==
    /\ Reconciles(n, "run") /\ node[n].container = "running"
    /\ \E st \in {"starting", "running"} :
          Deliver(n, [NoReport EXCEPT !.status = st], "idle")
    /\ UNCHANGED <<objs, seen, ready, up, writes, newest, erased>>

(* What can still be restored of the runtime on node n if its own copy is  *)
(* gone: the version of its manifest, or of the manifest's fallback.       *)
SavedVersion(m, store) ==
    IF m = None THEN 0
    ELSE IF m.top \in store THEN m.top.ver
    ELSE IF m.fb # None /\ m.fb \in store THEN m.fb.ver
    ELSE 0

\* A runtime whose installed apps fail verification is thrown away; removing
\* its container may fail, the rest goes on.
DiscardTaintedRuntime(n) ==
    /\ "taint" \in Faults
    /\ Reconciles(n, "run") /\ node[n].container = "running"
    /\ \E c \in {"none"} \cup (IF "fail" \in Faults THEN {"running"} ELSE {}) :
          Becomes(n, [node[n] EXCEPT !.container = c, !.data = None,
                               !.mark = FALSE, !.key = FALSE,
                               !.pc = "fail"])
    /\ newest' = IF newest = 0 THEN 0 ELSE SavedVersion(row.manifest, objs)
    /\ UNCHANGED <<row, handoff, objs, seen, ready, up, writes, erased>>

FaultyHasUnsavedSession(n) == FALSE

HasUnsavedSession(n) == node[n].mark /\ node[n].data # None

(* prepareSessionData and createContainer: an unsaved session's data stays, *)
(* else the manifest is restored, or its fallback; with neither, what is    *)
(* there or a fresh /data is used.                                          *)
PrepareSessionData(n) ==
    LET m == node[n].asg.manifest
        floor == WithKey(n).floor
        Prepared(d) == [WithKey(n) EXCEPT !.container = "exited", !.data = d,
                                          !.pc = "start"]
    IN
    /\ Reconciles(n, "run") /\ node[n].container # "running"
    /\ KeyAvailable(n)
    /\ m # None => m.top.gen >= floor
    /\ \/ /\ HasUnsavedSession(n)
          /\ Becomes(n, Prepared(node[n].data)) /\ objs' = objs
       \/ /\ ~HasUnsavedSession(n) /\ m = None
          /\ Becomes(n, Prepared(IF node[n].data = None THEN 0 ELSE node[n].data))
          /\ objs' = objs
       \/ /\ ~HasUnsavedSession(n) /\ m # None /\ Restorable(n, m.top)
          /\ Becomes(n, Prepared(m.top.ver))
          /\ objs' = IF m.fb # None /\ m.fb.at \in StoresOf(n) THEN objs \ {m.fb} ELSE objs
       \/ /\ ~HasUnsavedSession(n) /\ m # None /\ m.fb # None
          /\ Restorable(n, m.top) => "unreachable" \in Faults
          /\ Restorable(n, m.fb) /\ m.fb.gen >= floor
          /\ Becomes(n, Prepared(m.fb.ver)) /\ objs' = objs
    /\ UNCHANGED <<row, handoff, seen, ready, up, writes, newest, erased>>

\* Nothing could be restored: the data directory was emptied first, unless
\* the manifest is already older than what the phone has seen.
RestoreFails(n) ==
    LET m == node[n].asg.manifest
        floor == WithKey(n).floor
    IN
    /\ Reconciles(n, "run") /\ node[n].container # "running"
    /\ KeyAvailable(n) /\ m # None
    /\ m.top.gen >= floor =>
          /\ ~HasUnsavedSession(n)
          /\ Restorable(n, m.top) => "unreachable" \in Faults
          /\ m.fb # None /\ Restorable(n, m.fb) /\ m.fb.gen >= floor
                => "unreachable" \in Faults
    /\ Becomes(n, [WithKey(n) EXCEPT !.container = "none", !.pc = "fail",
                                  !.data = IF m.top.gen < floor THEN @ ELSE None])
    /\ UNCHANGED <<row, handoff, objs, seen, ready, up, writes, newest, erased>>

\* Without the runtime's key a start only clears a stale container.
StartWithoutKey(n) ==
    /\ Reconciles(n, "run") /\ node[n].container # "running"
    /\ ~KeyAvailable(n)
    /\ Becomes(n, [node[n] EXCEPT !.container = "none", !.pc = "fail"])
    /\ UNCHANGED <<row, handoff, objs, seen, ready, up, writes, newest, erased>>

MarkUnsavedSession(n) ==
    /\ Reconciles(n, "start")
    /\ Becomes(n, [node[n] EXCEPT !.mark = TRUE, !.pc = "marked"])
    /\ UNCHANGED <<row, handoff, objs, seen, ready, up, writes, newest, erased>>

StartContainer(n) ==
    /\ Reconciles(n, "marked")
    /\ Becomes(n, [node[n] EXCEPT !.container = "running", !.pc = "started"])
    /\ UNCHANGED <<row, handoff, objs, seen, ready, up, writes, newest, erased>>

ReportStarted(n) ==
    /\ Reconciles(n, "started")
    /\ Deliver(n, [NoReport EXCEPT !.status = "starting"], "idle")
    /\ UNCHANGED <<objs, seen, ready, up, writes, newest, erased>>

-----------------------------------------------------------------------------
(* ensureRuntimeStopped.                                                   *)

CleanupPending(n) == node[n].asg.cleanup \/ node[n].asg.status = "stopped"

ShouldPersist(n) ==
    /\ ~CleanupPending(n)
    /\ node[n].container # "none" \/ node[n].data # None

\* Mark the data unsaved, make sure it can be saved, then quiesce the guest.
QuiesceContainer(n) ==
    /\ Reconciles(n, "stop")
    /\ \/ /\ ShouldPersist(n)
          /\ node[n].asg.auto => KeyAvailable(n)
          /\ Becomes(n, [IF node[n].asg.auto THEN WithKey(n) ELSE node[n]
                         EXCEPT !.mark = TRUE,
                                !.container = IF @ = "none" THEN @ ELSE "exited",
                                !.pc = "persist"])
       \/ /\ ~ShouldPersist(n)
          /\ Becomes(n, [node[n] EXCEPT !.container = "none", !.pc = "commit"])
    /\ UNCHANGED <<row, handoff, objs, seen, ready, up, writes, newest, erased>>

\* Without the runtime's key the guest keeps running and its data unsaved.
StopWithoutKey(n) ==
    /\ Reconciles(n, "stop")
    /\ ShouldPersist(n) /\ node[n].asg.auto /\ ~KeyAvailable(n)
    /\ Becomes(n, [node[n] EXCEPT !.mark = TRUE, !.pc = "fail"])
    /\ UNCHANGED <<row, handoff, objs, seen, ready, up, writes, newest, erased>>

\* The snapshot of n's data that follows the assignment's generation and all
\* that phones have told n of.
NextManifest(n, at) ==
    LET previous == node[n].asg.manifest
        after == IF node[n].floor > Gen(previous) THEN node[n].floor ELSE Gen(previous)
        top == [gen |-> after + 1, ver |-> node[n].data, at |-> at]
    IN [top |-> top,
        fb  |-> IF previous # None /\ Local(previous.top) # Local(top)
                THEN previous.top ELSE None]

\* Sia, or the node's own disk while Sia is not available.
PersistSessionData(n) ==
    /\ Reconciles(n, "persist")
    /\ IF node[n].data # None /\ node[n].asg.auto
       THEN \E at \in {Sia} \cup (IF "local" \in Faults THEN {n} ELSE {}) :
               /\ Becomes(n, [node[n] EXCEPT !.cand = NextManifest(n, at),
                                       !.container = "none",
                                       !.pc = "commit"])
               /\ objs' = objs \cup {NextManifest(n, at).top}
       ELSE /\ Becomes(n, [node[n] EXCEPT !.clearing = TRUE, !.container = "none",
                                    !.pc = "commit"])
            /\ objs' = objs
    /\ UNCHANGED <<row, handoff, seen, ready, up, writes, newest, erased>>

StopReport(n) == [NoReport EXCEPT !.status = "stopped",
                                  !.manifest = node[n].cand,
                                  !.clear = node[n].clearing]

CommitStop(n) ==
    /\ Reconciles(n, "commit")
    /\ Deliver(n, StopReport(n), "plain")
    /\ newest' = IF node[n].clearing /\ ~node[n].asg.auto /\ Accepted(n, StopReport(n))
                 THEN 0 ELSE newest
    /\ UNCHANGED <<objs, seen, ready, up, writes, erased>>

FaultyCommitOverQuota(n) ==
    /\ "quota" \in Faults
    /\ Reconciles(n, "commit") /\ node[n].cand # None
    /\ Accepted(n, StopReport(n))
    /\ objs' = objs \ {node[n].cand.top}
    /\ Becomes(n, Goes(n, "plain"))
    /\ UNCHANGED <<row, handoff, seen, ready, up, writes, newest, erased>>

\* Over the account's storage quota: the candidate is deleted again.
CommitOverQuota(n) ==
    /\ "quota" \in Faults
    /\ Reconciles(n, "commit") /\ node[n].cand # None
    /\ Accepted(n, StopReport(n))
    /\ objs' = objs \ {node[n].cand.top}
    /\ Becomes(n, Goes(n, "fail"))
    /\ UNCHANGED <<row, handoff, seen, ready, up, writes, newest, erased>>

RemovePlaintext(n) ==
    /\ Reconciles(n, "plain")
    /\ Becomes(n, [node[n] EXCEPT !.data = None, !.pc = "unmark"])
    /\ UNCHANGED <<row, handoff, objs, seen, ready, up, writes, newest, erased>>

ClearUnsavedSession(n) ==
    /\ Reconciles(n, "unmark")
    /\ Becomes(n, [node[n] EXCEPT !.mark = FALSE, !.pc = "clean"])
    /\ UNCHANGED <<row, handoff, objs, seen, ready, up, writes, newest, erased>>

FaultyRetained(n) == node[n].cand

\* The manifest a stop keeps: the one it committed, or on a retry the one an
\* earlier stop did.
Retained(n) ==
    IF CleanupPending(n) THEN node[n].asg.manifest ELSE node[n].cand

CleanupBlobStorage(n) ==
    /\ Reconciles(n, "clean")
    /\ objs' = IF CleanupPending(n) \/ node[n].clearing \/ node[n].cand # None
               THEN Kept(n, node[n].asg.manifest, Retained(n))
               ELSE objs
    /\ Becomes(n, [node[n] EXCEPT !.key = FALSE, !.pc = "ack"])
    /\ UNCHANGED <<row, handoff, seen, ready, up, writes, newest, erased>>

FaultyCleanupReport(n) == StopReport(n)

CleanupReport(n) == [StopReport(n) EXCEPT !.done = TRUE]

AcknowledgeCleanup(n) ==
    /\ Reconciles(n, "ack")
    /\ Deliver(n, CleanupReport(n), "idle")
    /\ UNCHANGED <<objs, seen, ready, up, writes, newest, erased>>

-----------------------------------------------------------------------------
(* wipeRuntime and deleteRuntime.                                          *)

FaultyRemoveLocalState(n) ==
    /\ Reconciles(n, "erase")
    /\ node[n].asg.desired # "deleted" => KeyAvailable(n)
    /\ Becomes(n, [IF node[n].asg.desired # "deleted" THEN WithKey(n) ELSE node[n]
                   EXCEPT !.container = "none", !.mark = FALSE, !.pc = "clear"])
    /\ UNCHANGED <<row, handoff, objs, seen, ready, up, writes, newest, erased>>

RemoveLocalState(n) ==
    /\ Reconciles(n, "erase")
    /\ node[n].asg.desired # "deleted" => KeyAvailable(n)
    /\ Becomes(n, [IF node[n].asg.desired # "deleted" THEN WithKey(n) ELSE node[n]
                   EXCEPT !.container = "none", !.data = None,
                          !.mark = FALSE, !.pc = "clear"])
    /\ UNCHANGED <<row, handoff, objs, seen, ready, up, writes, newest, erased>>

WipeWithoutKey(n) ==
    /\ Reconciles(n, "erase")
    /\ node[n].asg.desired # "deleted" /\ ~KeyAvailable(n)
    /\ Becomes(n, Goes(n, "fail"))
    /\ UNCHANGED <<row, handoff, objs, seen, ready, up, writes, newest, erased>>


LeftAfterClear(n) == Kept(n, None, None)

ClearSnapshot(n) ==
    /\ Reconciles(n, "clear")
    /\ objs' = LeftAfterClear(n)
    /\ Becomes(n, [node[n] EXCEPT !.key = FALSE, !.pc = "erased"])
    /\ UNCHANGED <<row, handoff, seen, ready, up, writes, newest, erased>>

FaultyWipeReport == [NoReport EXCEPT !.status = "stopped", !.clear = TRUE, !.done = TRUE]

WipeReport == [NoReport EXCEPT !.status = "stopped", !.clear = TRUE,
                               !.clearWipe = TRUE, !.done = TRUE]

ReportWiped(n) ==
    /\ Reconciles(n, "erased") /\ node[n].asg.desired # "deleted"
    /\ Deliver(n, WipeReport, "idle")
    /\ UNCHANGED <<objs, seen, ready, up, writes, newest, erased>>

ReportDeleted(n) ==
    /\ Reconciles(n, "erased") /\ node[n].asg.desired = "deleted"
    /\ IF Fenced(n)
       THEN /\ row' = [row EXCEPT !.status = "deleted", !.desired = "deleted",
                                  !.host = None, !.manifest = None,
                                  !.blobHost = None, !.wipe = FALSE]
            /\ handoff' = None
            /\ Becomes(n, Goes(n, "idle"))
       ELSE /\ Becomes(n, Goes(n, "fail"))
            /\ UNCHANGED <<row, handoff>>
    /\ UNCHANGED <<objs, seen, ready, up, writes, newest, erased>>

-----------------------------------------------------------------------------
(* Failures of a pass, and what happens around the agents.                 *)

StepFails(n) ==
    /\ "fail" \in Faults
    /\ n \in up /\ node[n].pc \notin {"idle", "fail"}
    /\ Becomes(n, Goes(n, "fail"))
    /\ UNCHANGED <<row, handoff, objs, seen, ready, up, writes, newest, erased>>

\* reconcileAssignments reports the failure and ignores a failing report.
ReportError(n) ==
    /\ Reconciles(n, "fail")
    /\ \/ Fenced(n) /\ row' = Observed(n, NoReport)
       \/ (~Fenced(n) \/ "lossy" \in Faults) /\ row' = row
    /\ Becomes(n, Goes(n, "idle"))
    /\ UNCHANGED <<handoff, objs, seen, ready, up, writes, newest, erased>>

GuestWrites(n) ==
    /\ n \in up /\ node[n].container = "running" /\ node[n].data # None
    /\ writes < MaxWrites
    /\ writes' = writes + 1
    /\ Becomes(n, [node[n] EXCEPT !.data = writes + 1])
    /\ newest' = IF Live /\ ~row.wipe THEN writes + 1 ELSE newest
    /\ erased' = IF Live /\ ~row.wipe THEN erased ELSE writes + 1
    /\ UNCHANGED <<row, handoff, objs, seen, ready, up>>

ContainerExits(n) ==
    /\ n \in up /\ node[n].container = "running"
    /\ Becomes(n, [node[n] EXCEPT !.container = "exited"])
    /\ UNCHANGED <<row, handoff, objs, seen, ready, up, writes, newest, erased>>

\* The agent restarts: it forgets its pass and its keys, the guest survives.
NodeRestarts(n) ==
    /\ "restart" \in Faults
    /\ n \in up
    /\ Becomes(n, [Goes(n, "idle") EXCEPT !.key = FALSE, !.floor = 0])
    /\ UNCHANGED <<row, handoff, objs, seen, ready, up, writes, newest, erased>>

(* The VM's disk is gone, with the data and the snapshots on it; what only *)
(* that disk had is lost, and the loss is not the agents'.                 *)
DiskLost(n) ==
    LET left == {s \in objs : s.at # n}
        kept == \E m \in up \ {n} : node[m].mark /\ node[m].data = newest
    IN
    /\ Becomes(n, EmptyNode)
    /\ objs' = left
    /\ handoff' = IF handoff # None /\ handoff.host = n THEN None ELSE handoff
    /\ newest' = IF newest = 0 \/ kept THEN newest ELSE SavedVersion(row.manifest, left)

\* A VM encrypts its disk with a key it makes at each boot.
VMReboots(n) ==
    /\ "reboot" \in Faults
    /\ n \in up \cap VMs
    /\ DiskLost(n)
    /\ UNCHANGED <<row, seen, ready, up, writes, erased>>

FaultyVMDeleted(n) ==
    /\ "retire" \in Faults
    /\ n \in up \cap VMs
    /\ DiskLost(n)
    /\ up' = up \ {n}
    /\ UNCHANGED <<row, seen, ready, writes, erased>>

\* The provisioner deletes the VM.
VMDeleted(n) ==
    /\ "retire" \in Faults
    /\ n \in up \cap VMs
    /\ DiskLost(n)
    /\ up' = up \ {n} /\ ready' = ready \ {n}
    /\ UNCHANGED <<row, seen, writes, erased>>

OnDeletedVM ==
    \/ row.host # None /\ row.host \notin up
    \/ row.blobHost # None /\ row.blobHost \notin up

FaultyHasRemoteSnapshot == FALSE

HasRemoteSnapshot == row.manifest # None /\ ~RowHasLocalBlob

\* ReconcileProvisionedVMs resets a runtime that lived on a deleted VM.
ResetLostRuntime ==
    /\ row.status # "deleted"
    /\ OnDeletedVM
    /\ row' = [row EXCEPT
                  !.host = None, !.blobHost = None, !.cleanup = FALSE,
                  !.manifest = IF HasRemoteSnapshot THEN @ ELSE None,
                  !.floor = IF HasRemoteSnapshot THEN @ ELSE @ + Gen(row.manifest),
                  !.status = IF row.desired # "deleted" THEN "stopped"
                             ELSE IF HasRemoteSnapshot THEN "deleting" ELSE "deleted",
                  !.desired = IF @ = "deleted" THEN @ ELSE "stopped",
                  !.opGen = @ + 1]
    /\ UNCHANGED <<handoff, node, objs, seen, ready, up, writes, newest, erased>>

HeartbeatStale(n) ==
    /\ "silent" \in Faults
    /\ n \in ready
    /\ ready' = ready \ {n}
    /\ UNCHANGED <<row, handoff, node, objs, seen, up, writes, newest, erased>>

HeartbeatHost(n) ==
    /\ n \in up \ ready
    /\ ready' = ready \cup {n}
    /\ UNCHANGED <<row, handoff, node, objs, seen, up, writes, newest, erased>>

-----------------------------------------------------------------------------
Request ==
    \/ \E op \in Requests \cap Operations : PutLease(op)
    \/ LeaseExpires \/ RefuseRequest \/ OpenSession
    \/ UpdateRuntimeSettings \/ VerifyAndRecord
    \/ StartRuntime \/ StopRuntime \/ EndSessionAndStopRuntime
    \/ QueueRuntimeStop \/ ReapIdleRuntime
    \/ WipeRuntime \/ DeleteRuntime \/ DeleteAccount

\* One step of n's reconcile loop.
Reconcile(n) ==
    \/ FetchAssignment(n)
    \/ ReportRunning(n) \/ DiscardTaintedRuntime(n)
    \/ PrepareSessionData(n) \/ RestoreFails(n) \/ StartWithoutKey(n)
    \/ MarkUnsavedSession(n) \/ StartContainer(n) \/ ReportStarted(n)
    \/ QuiesceContainer(n) \/ StopWithoutKey(n) \/ PersistSessionData(n)
    \/ CommitStop(n) \/ CommitOverQuota(n)
    \/ RemovePlaintext(n) \/ ClearUnsavedSession(n)
    \/ CleanupBlobStorage(n) \/ AcknowledgeCleanup(n)
    \/ RemoveLocalState(n) \/ WipeWithoutKey(n) \/ ClearSnapshot(n)
    \/ ReportWiped(n) \/ ReportDeleted(n)
    \/ ReportError(n)

Environment(n) ==
    \/ StepFails(n) \/ GuestWrites(n) \/ ContainerExits(n) \/ NodeRestarts(n)
    \/ VMReboots(n) \/ VMDeleted(n) \/ HeartbeatStale(n) \/ HeartbeatHost(n)
    \/ AssignPendingRemoteRuntimeCleanup(n)

Next ==
    \/ Request
    \/ ResetLostRuntime
    \/ \E n \in Nodes : Reconcile(n) \/ Environment(n)

Spec == Init /\ [][Next]_vars

(* The agents' reconcile and heartbeat loops and the control plane's       *)
(* provisioning loop run forever, and not every answer to a stop's report  *)
(* is lost; phones, faults and the guest promise nothing.                  *)
Fairness ==
    /\ \A n \in Nodes :
          /\ WF_vars(Reconcile(n))
          /\ SF_vars(CommitStop(n) /\ node'[n].pc = "plain")
          /\ WF_vars(AssignPendingRemoteRuntimeCleanup(n))
    /\ WF_vars(ResetLostRuntime)

FairSpec == Spec /\ Fairness

-----------------------------------------------------------------------------
TypeOK ==
    /\ row \in Row
    /\ handoff \in Lease \cup {None}
    /\ node \in [Nodes -> Node]
    /\ objs \subseteq Snapshot /\ seen \in Snapshot \cup {None}
    /\ ready \subseteq up /\ up \subseteq Nodes
    /\ writes \in Nat /\ newest \in Nat /\ erased \in Nat

(* The data of the last session is never lost by the agents: it is in a    *)
(* node's data directory with the unsaved-session marker beside it, or in  *)
(* a committed snapshot that exists.                                       *)
NewestKept ==
    newest # 0 =>
        \/ \E n \in up : node[n].mark /\ node[n].data = newest
        \/ SavedVersion(row.manifest, objs) = newest

(* While the marker is there, the data on this VM is newer than any saved  *)
(* snapshot (blobstore.go, unsavedSessionMarker).                          *)
UnsavedIsNewest ==
    \A n \in up :
        HasUnsavedSession(n) /\ row.manifest # None =>
            node[n].data >= row.manifest.top.ver

(* The row's manifest names a snapshot that exists, unless it is being     *)
(* erased or was on a VM that is gone.                                     *)
ManifestBacked ==
    /\ row.manifest # None /\ Live /\ ~row.wipe
    /\ row.manifest.top.at \in up \cup {Sia}
    => row.manifest.top \in objs

(* A runtime without a host has no container and no plaintext on any node. *)
ReleasedIsClean ==
    row.host = None =>
        \A n \in up : node[n].container = "none" /\ node[n].data = None

(* A container never runs, and a snapshot taken after the reset never has, *)
(* data a factory reset was asked to remove.                               *)
ErasedStaysErased ==
    Live /\ ~row.wipe =>
        /\ \A n \in up : node[n].container = "running" /\ node[n].data # None =>
              node[n].data = 0 \/ node[n].data > erased
        /\ row.manifest # None =>
              row.manifest.top.ver = 0 \/ row.manifest.top.ver > erased


(* A pending cleanup has a host to finish it and never meets a start.      *)
CleanupHasHost ==
    row.cleanup /\ Live => row.host # None /\ row.desired = "stopped"

(* The phone accepts what the control plane shows of a runtime: never an   *)
(* older or a conflicting snapshot, and none at all only when the row's    *)
(* floor covers the one the phone has seen (SnapshotRollbackGuard).        *)
PhoneAccepts == Live => Accepts(row.manifest)

(* A snapshot that can be restored from Sia is not given up: losing a VM   *)
(* does not lose it (ReconcileProvisionedVMs).                             *)
RemoteSnapshotKept ==
    [][ /\ row.manifest # None /\ SavedVersion(row.manifest, {s \in objs : ~Local(s)}) # 0
        /\ row.desired = "stopped" /\ ~row.wipe /\ row'.host = None /\ row.host # None
        => row'.manifest # None ]_vars

(* floor + generation never goes back, whatever report or reset clears the *)
(* manifest (updateRuntimeObservationRecord, ReconcileProvisionedVMs).     *)
(* The phone compares the generations of the snapshots it is shown; only   *)
(* when it is shown none does it look at the floor.                        *)
GenerationRises ==
    [][Live' => row'.floor + Gen(row'.manifest) >= row.floor + Gen(row.manifest)]_vars

\* The host's pass needs a key that it has not: a phone must seal one again.
Locked ==
    \E n \in up :
        /\ row.host = n /\ ~KeyAvailable(n)
        /\ \/ node[n].pc = "stop" /\ ShouldPersist(n) /\ node[n].asg.auto
           \/ node[n].pc = "erase" /\ node[n].asg.desired # "deleted"

(* A runtime asked to stop is saved, cleaned up and released by its host,  *)
(* or waits for a phone to unlock it.                                      *)
StopFinishes ==
    (row.desired = "stopped" /\ row.host # None) ~>
        (row.desired # "stopped" \/ row.host = None \/ Locked)

(* A factory reset is carried out by the host it was sent to, unless the   *)
(* runtime is deleted first, a VM it needs is, or it waits for a phone to  *)
(* unlock the runtime (wipeRuntime).                                       *)
HostWipes ==
    (row.wipe /\ row.host # None) ~> (~row.wipe \/ ~Live \/ Locked \/ OnDeletedVM)


(* What a phone asked to erase is erased in the end, by the account's next *)
(* node, VM or not, when the first one is deleted meanwhile                *)
(* (ReconcileProvisionedVMs), or waits for a phone to unlock the runtime.  *)
ErasureFinishes ==
    (handoff # None /\ handoff.active /\ (row.wipe \/ row.desired = "deleted")) ~>
        \/ row.status = "deleted"
        \/ row.desired # "deleted" /\ ~row.wipe
        \/ Locked \/ up = {}
=============================================================================
