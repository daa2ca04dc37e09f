--------------------------- MODULE ProvisionedVM ---------------------------
(***************************************************************************)
(* The dedicated runtime VMs: the control plane's rows about them          *)
(* (internal/store/provisioning.go), the provisioner that creates, unlocks *)
(* and deletes them (cmd/virtroid-provisioner/reconcile.go), and Aleph     *)
(* Cloud, which the provisioner drives through a CLI.                      *)
(*                                                                         *)
(* The control plane decides which VMs should exist; the provisioner polls *)
(* that list, lists Aleph's instances, moves every VM one step and reports *)
(* what it did.  Both lists are old by the time a step uses them, a create *)
(* shows up in the listing late, and the provisioner may stop anywhere.    *)
(*                                                                         *)
(* There is one region.  Timers are nondeterministic: what the code does   *)
(* after a delay may happen as soon as it is allowed to.                   *)
(***************************************************************************)
EXTENDS Naturals, FiniteSets

CONSTANTS
    Accounts,
    None,           \* no account, no instance
    MaxVMs,         \* policy: how many VMs may exist
    TrialMaxVMs,    \* policy: how many of them free trials may hold
    WarmSpares,     \* policy: how many unassigned VMs to keep
    Events,         \* the events of AllEvents that may happen
    MaxRows,        \* bound on the VMs ever requested
    MaxCreates      \* bound on the instances ever submitted to Aleph

AllEvents == {"fail", "unclear", "cut", "restart", "refuse", "lag", "slow", "attest", "noNode",
              "timeout", "unused", "silent", "operator", "leave", "deposit",
              "place", "beat"}

ASSUME PolicyAssumption == /\ MaxVMs \in Nat /\ TrialMaxVMs \in Nat /\ WarmSpares \in Nat
                           /\ MaxRows \in Nat /\ MaxCreates \in Nat
ASSUME EventsAssumption == Events \subseteq AllEvents
ASSUME NoneAssumption == None \notin Accounts \cup Nat

VMs == 1..MaxRows           \* in the order of requested_at
Instances == 1..MaxCreates  \* item hashes, in the order of submission

VARIABLES
    accounts,   \* accounts that exist
    trial,      \* accounts whose entitlement is a free trial
    vm,         \* provisioned_vms
    nodeKey,    \* per VM: the approval of its node's key
    host,       \* VMs whose node has a row in hosts
    used,       \* VMs that a runtime is placed on (its host_id)
    blobs,      \* VMs that a runtime's snapshot is kept on (its blob_host_id)
    placing,    \* VMs that a start has chosen and not yet committed
    beat,       \* VMs whose node's heartbeat has been let in and not yet stored
    inst,       \* per instance: what Aleph has of it
    rec,        \* per VM: the provisioner's create record, on its disk
    memory,     \* the provisioner's memory between passes
    prov        \* the provisioner's pass

rows == <<accounts, trial, vm>>
nodes == <<nodeKey, host, used, blobs, placing, beat>>
agent == <<rec, memory, prov>>
vars == <<accounts, trial, vm, nodeKey, host, used, blobs, placing, beat, inst, rec, memory, prov>>

(***************************************************************************)
(* Types.  A VM without a row yet has state "none".                        *)
(***************************************************************************)
Setup == {"requested", "creating", "unlocking", "booting"}
States == Setup \cup {"none", "ready", "deleted"}

Row == [account : Accounts \cup {None}, state : States, desired : {"present", "absent"},
        hash : Instances \cup {None}, key : BOOLEAN, refusal : BOOLEAN]

\* forgot: a FORGET was submitted; open: the VM runs with its secrets.
Instance == [vm : VMs \cup {None}, forgot : BOOLEAN, open : BOOLEAN,
             state : {"none", "sent", "listed", "addressed", "gone", "rejected"}]

CreateRecord == [submitted : BOOLEAN, settled : BOOLEAN, hash : Instances \cup {None}]

\* What the provisioner tells the control plane; state "" changes no state.
Report == [state : States \cup {""}, hash : Instances \cup {None},
           failure : BOOLEAN, refusal : BOOLEAN]

Pass == [pc : {"idle", "list", "step", "create", "save", "report", "host", "drop", "record"},
         work : [VMs -> Row], todo : SUBSET VMs, list : SUBSET Instances,
         addressed : SUBSET Instances, claimed : [VMs -> Instances \cup {None}],
         hash : Instances \cup {None}, report : Report]

Absent == [account |-> None, state |-> "none", desired |-> "absent", hash |-> None,
           key |-> FALSE, refusal |-> FALSE]
Requested(a) == [Absent EXCEPT !.account = a, !.state = "requested", !.desired = "present"]
NoInstance == [vm |-> None, forgot |-> FALSE, open |-> FALSE, state |-> "none"]
NoCreate == [submitted |-> FALSE, settled |-> FALSE, hash |-> None]
Says(s) == [state |-> s, hash |-> None, failure |-> FALSE, refusal |-> FALSE]
Idle == [pc |-> "idle", work |-> [v \in VMs |-> Absent], todo |-> {}, list |-> {},
         addressed |-> {}, claimed |-> [v \in VMs |-> None], hash |-> None, report |-> Says("")]
Fresh == [forgotten |-> {}, refused |-> {}]

Init ==
    /\ accounts = Accounts /\ trial \in SUBSET Accounts
    /\ vm = [v \in VMs |-> Absent]
    /\ nodeKey = [v \in VMs |-> "none"]
    /\ host = {} /\ used = {} /\ blobs = {} /\ placing = {} /\ beat = {}
    /\ inst = [h \in Instances |-> NoInstance]
    /\ rec = [v \in VMs |-> NoCreate]
    /\ memory = Fresh /\ prov = Idle

First(S) == CHOOSE x \in S : \A y \in S : x <= y

IsLive(row) == row.state \notin {"none", "deleted"}
Live == {v \in VMs : IsLive(vm[v])}
Unrequested == {v \in VMs : vm[v].state = "none"}

(***************************************************************************)
(* The control plane: who gets a VM.                                       *)
(***************************************************************************)
\* Counting only the accounts that still exist.
FaultyTrialVMs ==
    {v \in Live : vm[v].account \in accounts \cap trial}

\* An account's entitlement goes with the account, and its VM counts as a trial's.
TrialVMs ==
    {v \in Live : vm[v].account # None
                  /\ vm[v].account \notin accounts \ trial}

TrialLimit(removesData) ==
    IF ~removesData THEN TrialMaxVMs
    ELSE IF TrialMaxVMs = 0 THEN 1 ELSE 2 * TrialMaxVMs

TrialAllows(a, removesData) ==
    a \in accounts \ trial \/ Cardinality(TrialVMs) < TrialLimit(removesData)

\* Spares that already belong to an account.
FaultySpares == {v \in Live : vm[v].desired = "present"}

Spares == {v \in Live : vm[v].account = None /\ vm[v].desired = "present"}

\* Of the spares, one that is ready if there is one, else the oldest.
SpareToClaim(S) ==
    LET ready == {v \in S : vm[v].state = "ready"}
    IN First(IF ready # {} THEN ready ELSE S)

\* Not counting the VMs that are still being deleted.
FaultyRoomForVM == Cardinality({v \in Live : vm[v].desired = "present"}) < MaxVMs

RoomForVM == Cardinality(Live) < MaxVMs

HasVM(a) == \E v \in VMs : vm[v].account = a /\ vm[v].desired = "present"

\* Reviving the account's retired VM instead of asking for another one.
FaultyEnsureAccountVM(a, removesData) ==
    /\ a \in accounts /\ ~HasVM(a) /\ TrialAllows(a, removesData)
    /\ LET own == {v \in Live : vm[v].account = a}
           v == IF own # {} THEN First(own) ELSE First(Unrequested)
       IN /\ own # {} \/ (RoomForVM /\ Unrequested # {})
          /\ vm' = [vm EXCEPT ![v] =
                 IF own # {} THEN [vm[v] EXCEPT !.desired = "present"] ELSE Requested(a)]
    /\ UNCHANGED <<accounts, trial, nodes, inst, agent>>

\* A ready spare whose node went quiet is passed over.
EnsureAccountVM(a, removesData) ==
    /\ a \in accounts /\ ~HasVM(a) /\ TrialAllows(a, removesData)
    /\ \E quiet \in SUBSET {v \in Spares : vm[v].state = "ready" /\ "silent" \in Events} :
         LET spares == Spares \ quiet
             v == IF spares # {} THEN SpareToClaim(spares) ELSE First(Unrequested)
         IN /\ spares # {} \/ (RoomForVM /\ Unrequested # {})
            /\ vm' = [vm EXCEPT ![v] =
                   IF spares # {} THEN [vm[v] EXCEPT !.account = a] ELSE Requested(a)]
    /\ UNCHANGED <<accounts, trial, nodes, inst, agent>>

\* RetireProvisionedVM, by an operator.
Retire(v) ==
    /\ "operator" \in Events
    /\ v \in Live /\ vm[v].desired = "present"
    /\ vm' = [vm EXCEPT ![v] = [vm[v] EXCEPT !.desired = "absent"]]
    /\ UNCHANGED <<accounts, trial, nodes, inst, agent>>

\* Account rows, as far as VMs depend on them.
DeleteAccount(a) ==
    /\ "leave" \in Events /\ a \in accounts
    /\ accounts' = accounts \ {a}
    /\ UNCHANGED <<trial, vm, nodes, inst, agent>>

Deposit(a) ==
    /\ "deposit" \in Events /\ a \in accounts \cap trial
    /\ trial' = trial \ {a}
    /\ UNCHANGED <<accounts, vm, nodes, inst, agent>>

(***************************************************************************)
(* ReconcileProvisionedVMs, one transaction: time out, retire, forget the  *)
(* deleted VMs' runtimes, top up the spares.                               *)
(***************************************************************************)
PresentIn(S) == {v \in Live : vm[v].desired = "present" /\ vm[v].state \in S}

\* When most ready VMs go quiet together, none is retired.
SilentRetired(silent, ready) ==
    IF Cardinality(silent) >= 3 /\ 2 * Cardinality(silent) > Cardinality(ready)
    THEN {} ELSE silent

\* How many spares to request.
TopUp(live, spares) ==
    LET missing == IF spares < WarmSpares THEN WarmSpares - spares ELSE 0
        room == IF live < MaxVMs THEN MaxVMs - live ELSE 0
    IN IF missing <= room THEN missing ELSE room

Reconcile ==
    \E late \in SUBSET IF "timeout" \in Events THEN PresentIn(Setup) ELSE {} :
    \E idle \in SUBSET IF "unused" \in Events
                       THEN {v \in PresentIn({"ready"}) : vm[v].account # None /\ v \notin used \cup blobs}
                       ELSE {} :
        LET orphaned == {v \in PresentIn(States) : vm[v].account \notin accounts \cup {None}}
            ready == PresentIn({"ready"}) \ (orphaned \cup idle)
        IN \E silent \in SUBSET IF "silent" \in Events THEN ready ELSE {} :
             LET retired == late \cup orphaned \cup idle \cup SilentRetired(silent, ready)
                 wanted == TopUp(Cardinality(Live), Cardinality(Spares \ retired))
                 new == {v \in Unrequested : Cardinality({u \in Unrequested : u < v}) < wanted}
             IN /\ vm' = [v \in VMs |-> IF v \in retired THEN [vm[v] EXCEPT !.desired = "absent"]
                                        ELSE IF v \in new THEN Requested(None)
                                        ELSE vm[v]]
                /\ used' = {v \in used : vm[v].state # "deleted"}
                /\ blobs' = {v \in blobs : vm[v].state # "deleted"}
                /\ UNCHANGED <<accounts, trial, nodeKey, host, placing, beat, inst, agent>>

(***************************************************************************)
(* Nodes and runtimes.  A heartbeat and a start each look at the rows      *)
(* first and write later.                                                  *)
(***************************************************************************)
NodeRuns(v) == \E h \in Instances : inst[h].vm = v /\ inst[h].open

\* The key is checked and the VM is not deleted ...
HeartbeatArrives(v) ==
    /\ "beat" \in Events
    /\ v \in Live /\ NodeRuns(v) /\ nodeKey[v] = "approved" /\ v \notin beat
    /\ beat' = beat \cup {v}
    /\ UNCHANGED <<rows, nodeKey, host, used, blobs, placing, inst, agent>>

\* ... then UpsertHostHeartbeat and MarkProvisionedVMReady store it.
MarkReady(row) ==
    IF row.state \in {"unlocking", "booting"} THEN [row EXCEPT !.state = "ready"] ELSE row

HeartbeatStored(v) ==
    /\ v \in beat
    /\ beat' = beat \ {v}
    /\ host' = host \cup {v}
    /\ vm' = [vm EXCEPT ![v] = MarkReady(vm[v])]
    /\ UNCHANGED <<accounts, trial, nodeKey, used, blobs, placing, inst, agent>>

\* provisionedHostServesAccount, for a start by the account the VM belongs to.
ServesAccount(v) == vm[v].account \in accounts /\ vm[v].desired = "present"

PlaceChosen(v) ==
    /\ "place" \in Events
    /\ v \in host /\ nodeKey[v] = "approved" /\ ServesAccount(v)
    /\ v \notin placing \cup used
    /\ placing' = placing \cup {v}
    /\ UNCHANGED <<rows, nodeKey, host, used, blobs, beat, inst, agent>>

PlaceCommitted(v) ==
    /\ v \in placing
    /\ placing' = placing \ {v}
    /\ used' = used \cup {v}
    /\ UNCHANGED <<rows, nodeKey, host, blobs, beat, inst, agent>>

\* The last runtime of the VM is released by a stop, with its snapshot in Sia
\* or on the VM's disk, or is deleted.
RuntimeLeaves(v) ==
    /\ v \in used
    /\ used' = used \ {v}
    /\ blobs' \in {blobs \ {v}, blobs \cup {v}}
    /\ UNCHANGED <<rows, nodeKey, host, placing, beat, inst, agent>>

\* A runtime whose snapshot is on the VM is wiped or deleted there.
RuntimeErased(v) ==
    /\ v \in blobs \ used
    /\ used' = used \cup {v}
    /\ UNCHANGED <<rows, nodeKey, host, blobs, placing, beat, inst, agent>>

(***************************************************************************)
(* Aleph.  A submitted create is listed some time later, gets an address   *)
(* later still, or is rejected; a forgotten instance leaves the listing    *)
(* and is torn down, in either order.                                      *)
(***************************************************************************)
Submitted(v, h) == [inst EXCEPT ![h] = [NoInstance EXCEPT !.vm = v, !.state = "sent"]]

Standing(h) == inst[h].state \in {"sent", "listed", "addressed"}

\* A FORGET for each instance of D.
Forgotten(D) ==
    [h \in Instances |-> IF h \in D /\ Standing(h) THEN [inst[h] EXCEPT !.forgot = TRUE]
                         ELSE inst[h]]

InstanceBecomes(h, i) ==
    /\ inst' = [inst EXCEPT ![h] = i]
    /\ UNCHANGED <<rows, nodes, agent>>

Appears(h) == inst[h].state = "sent" /\ InstanceBecomes(h, [inst[h] EXCEPT !.state = "listed"])
GetsAddress(h) ==
    inst[h].state = "listed" /\ InstanceBecomes(h, [inst[h] EXCEPT !.state = "addressed"])
Rejected(h) ==
    /\ "refuse" \in Events
    /\ inst[h].state = "sent" /\ ~inst[h].forgot
    /\ InstanceBecomes(h, [inst[h] EXCEPT !.state = "rejected"])
Vanishes(h) ==
    Standing(h) /\ inst[h].forgot /\ InstanceBecomes(h, [inst[h] EXCEPT !.state = "gone"])
TornDown(h) ==
    inst[h].forgot /\ inst[h].open /\ InstanceBecomes(h, [inst[h] EXCEPT !.open = FALSE])

Aleph(h) == Appears(h) \/ GetsAddress(h) \/ Rejected(h) \/ Vanishes(h) \/ TornDown(h)

(***************************************************************************)
(* The provisioner's pass (runOnce): fetch the work, list the instances,   *)
(* one step for every VM, then delete what no VM claims.                   *)
(***************************************************************************)
PassGoes(p) == prov' = p /\ UNCHANGED <<rows, nodes, inst, rec, memory>>

FetchWork ==
    /\ prov.pc = "idle"
    /\ PassGoes([Idle EXCEPT !.pc = "list", !.work = vm, !.todo = Live])

ListInstances ==
    /\ prov.pc = "list"
    /\ \/ PassGoes([prov EXCEPT !.pc = "step",
              !.list = {h \in Instances : inst[h].state \in {"listed", "addressed"}},
              !.addressed = {h \in Instances : inst[h].state = "addressed"}])
       \/ "fail" \in Events /\ PassGoes(Idle)

Current == First(prov.todo)
Known == prov.work[Current].hash
WaitsFor(s) == prov.work[Current].desired = "present" /\ prov.work[Current].state = s

\* The instance of the current VM, None if it is not found: the listed one
\* with the recorded hash, else what adopt finds, which is the instance of the
\* create record, listed or not, else one that carries the VM's name.
Found ==
    LET named == {h \in prov.list : inst[h].vm = Current}
    IN IF Known # None THEN {IF Known \in prov.list THEN Known ELSE None}
       ELSE IF rec[Current].hash # None THEN {rec[Current].hash}
       ELSE IF named = {} THEN {None} ELSE named

\* The pass with the current VM's claim on instance i.
Claiming(i) == [prov EXCEPT !.claimed = [@ EXCEPT ![Current] = IF Known # None THEN Known ELSE i]]
Done(p) == [p EXCEPT !.pc = "step", !.todo = @ \ {First(@)}, !.hash = None, !.report = Says("")]
Reporting(p, r) == [p EXCEPT !.pc = "report", !.report = r]

AtStep(i) == prov.pc = "step" /\ prov.todo # {} /\ i \in Found

\* Created before a restart: record it instead of creating another.
StepAdopt(i) ==
    /\ AtStep(i) /\ WaitsFor("requested") /\ i # None
    /\ PassGoes(Reporting(Claiming(i), [Says("creating") EXCEPT !.hash = i]))

\* Creating at once whatever may have gone out.
FaultyCreatePending == FALSE

\* A create may have gone out and not be listed yet.
CreatePending == rec[Current].submitted /\ ~rec[Current].settled

Uncreated == {h \in Instances : inst[h].state = "none"}
MayCreate == Current \notin memory.refused /\ ~CreatePending /\ Uncreated # {}

StepWait(i) ==
    /\ AtStep(i) /\ WaitsFor("requested") /\ i = None
    /\ ~MayCreate \/ "fail" \in Events
    /\ PassGoes(Done(Claiming(i)))

\* The create record is on disk before the create is submitted.
StepCreate(i) ==
    /\ AtStep(i) /\ WaitsFor("requested") /\ i = None /\ MayCreate
    /\ rec' = [rec EXCEPT ![Current] = [NoCreate EXCEPT !.submitted = TRUE]]
    /\ prov' = [Claiming(i) EXCEPT !.pc = "create"]
    /\ UNCHANGED <<rows, nodes, inst, memory>>

CreateSucceeds ==
    /\ prov.pc = "create" /\ Uncreated # {}
    /\ LET h == First(Uncreated)
       IN /\ inst' = Submitted(Current, h)
          /\ prov' = [prov EXCEPT !.pc = "save", !.hash = h]
    /\ memory' = [memory EXCEPT !.refused = @ \ {Current}]
    /\ UNCHANGED <<rows, nodes, rec>>

\* A create that was cut off, before or after the CLI submitted it.
PerhapsSubmitted ==
    {inst} \cup {Submitted(Current, h) : h \in {g \in Uncreated : g = First(Uncreated)}}

CreateFails ==
    /\ "unclear" \in Events /\ prov.pc = "create"
    /\ inst' \in PerhapsSubmitted
    /\ prov' = Done(prov)
    /\ UNCHANGED <<rows, nodes, rec, memory>>

RefusalNoted == [memory EXCEPT !.refused = @ \cup {Current}]

CreateRefused ==
    /\ "refuse" \in Events /\ prov.pc = "create"
    /\ rec' = [rec EXCEPT ![Current] = NoCreate]
    /\ memory' = RefusalNoted
    /\ prov' = Reporting(prov, [Says("") EXCEPT !.refusal = TRUE])
    /\ UNCHANGED <<rows, nodes, inst>>

\* The record gets the hash, unless writing it fails, and the VM is reported.
SaveCreate ==
    /\ prov.pc = "save"
    /\ \/ rec' = [rec EXCEPT ![Current] = [rec[Current] EXCEPT !.hash = prov.hash]]
       \/ "fail" \in Events /\ UNCHANGED rec
    /\ prov' = Reporting(prov, [Says("creating") EXCEPT !.hash = prov.hash])
    /\ UNCHANGED <<rows, nodes, inst, memory>>

StepRejected(i) ==
    /\ AtStep(i) /\ WaitsFor("creating") /\ i = None
    /\ Known # None /\ inst[Known].state = "rejected"
    /\ rec' = [rec EXCEPT ![Current] = NoCreate]
    /\ memory' = RefusalNoted
    /\ prov' = Reporting(Claiming(i), [Says("requested") EXCEPT !.refusal = TRUE])
    /\ UNCHANGED <<rows, nodes, inst>>

StepAddressed(i) ==
    /\ AtStep(i) /\ WaitsFor("creating") /\ i \in prov.addressed
    /\ PassGoes(Reporting(Claiming(i), Says("unlocking")))

\* The attested unlock hands the VM its node key.
StepUnlock(i) ==
    /\ AtStep(i) /\ WaitsFor("unlocking")
    /\ Known # None /\ inst[Known].state = "addressed"
    /\ inst' = [inst EXCEPT ![Known] = [inst[Known] EXCEPT !.open = TRUE]]
    /\ prov' = Reporting(Claiming(i), Says("booting"))
    /\ UNCHANGED <<rows, nodes, rec, memory>>

\* Nothing to do yet: no address, an unlock to be retried, a VM that is up.
StepNothing(i) ==
    /\ AtStep(i)
    /\ \/ WaitsFor("creating") /\ i \notin prov.addressed
       \/ WaitsFor("unlocking") \/ WaitsFor("booting") \/ WaitsFor("ready")
    /\ PassGoes(Done(Claiming(i)))

\* No compute node for the region, failed attestation, a VM that keeps restarting.
StepFailure(i) ==
    /\ AtStep(i)
    /\ \/ "noNode" \in Events /\ WaitsFor("requested") /\ i = None /\ MayCreate
       \/ "attest" \in Events /\ \E s \in {"unlocking", "booting", "ready"} : WaitsFor(s)
    /\ PassGoes(Reporting(Claiming(i), [Says("") EXCEPT !.failure = TRUE]))

Removes == prov.work[Current].desired = "absent"

\* Never asking.
FaultyRecentlyForgotten(h) == TRUE

RecentlyForgotten(h) == h \in memory.forgotten

\* A FORGET for each instance of D, remembered; the ones that failed are not in D.
Forgets(D) ==
    /\ inst' = Forgotten(D)
    /\ memory' = [memory EXCEPT !.forgotten = @ \cup D]

\* Still listed: ask Aleph to forget it, and wait for the listing to drop it.
StepForget(i) ==
    /\ AtStep(i) /\ Removes /\ i # None
    /\ \/ ~RecentlyForgotten(i) /\ Forgets({i})
       \/ RecentlyForgotten(i) /\ UNCHANGED <<inst, memory>>
       \/ "fail" \in Events /\ UNCHANGED <<inst, memory>>
    /\ prov' = Done(Claiming(i))
    /\ UNCHANGED <<rows, nodes, rec>>

\* Not listed: forget the recorded instance anyway, clear the files, report it.
StepRemoved(i) ==
    /\ AtStep(i) /\ Removes /\ i = None
    /\ \/ /\ Known # None /\ ~RecentlyForgotten(Known)
          /\ inst' = Forgotten({Known})
          /\ memory' = [forgotten |-> memory.forgotten \cup {Known},
                        refused |-> memory.refused \ {Current}]
       \/ /\ Known = None \/ RecentlyForgotten(Known) \/ "fail" \in Events
          /\ memory' = [memory EXCEPT !.refused = @ \ {Current}]
          /\ UNCHANGED inst
    /\ \/ /\ rec' = [rec EXCEPT ![Current] = NoCreate]
          /\ prov' = Reporting(Claiming(i), Says("deleted"))
       \/ /\ "fail" \in Events
          /\ prov' = Done(Claiming(i)) /\ UNCHANGED rec
    /\ UNCHANGED <<rows, nodes>>

\* Leaving orphans and duplicates alone.
FaultyUnclaimed(h) == FALSE

\* A listed instance of ours that no live VM claims, or a second one of a VM.
Unclaimed(h) ==
    LET v == inst[h].vm
    IN ~IsLive(prov.work[v]) \/ prov.claimed[v] \notin {None, h}

Sweep ==
    /\ prov.pc = "step" /\ prov.todo = {}
    /\ LET leaks == {h \in prov.list : Unclaimed(h) /\ ~RecentlyForgotten(h)}
       IN \E D \in IF "fail" \in Events THEN SUBSET leaks ELSE {leaks} : Forgets(D)
    /\ prov' = Idle
    /\ UNCHANGED <<rows, nodes, rec>>

Restart ==
    /\ "restart" \in Events /\ prov # Idle
    /\ prov' = Idle /\ memory' = Fresh
    /\ IF prov.pc = "create" THEN inst' \in PerhapsSubmitted ELSE UNCHANGED inst
    /\ UNCHANGED <<rows, nodes, rec>>

(***************************************************************************)
(* Its timers: createSettles, forgetSettles, refusalRetryEvery.  "lag": a  *)
(* create is listed later than createSettles; "slow": a pass takes longer  *)
(* than that after its listing (one create may take ten minutes).          *)
(***************************************************************************)
Listed(v) == \A h \in Instances : inst[h].vm = v => inst[h].state # "sent"

CreateSettles(v) ==
    /\ rec[v].submitted /\ ~rec[v].settled
    /\ Listed(v) \/ "lag" \in Events
    /\ prov.pc \in {"idle", "list"} \/ "slow" \in Events
    /\ rec' = [rec EXCEPT ![v] = [rec[v] EXCEPT !.settled = TRUE]]
    /\ UNCHANGED <<rows, nodes, inst, memory, prov>>

ForgetSettles(h) ==
    /\ h \in memory.forgotten
    /\ memory' = [memory EXCEPT !.forgotten = @ \ {h}]
    /\ UNCHANGED <<rows, nodes, inst, rec, prov>>

RefusalSettles(v) ==
    /\ v \in memory.refused
    /\ memory' = [memory EXCEPT !.refused = @ \ {v}]
    /\ UNCHANGED <<rows, nodes, inst, rec, prov>>

(***************************************************************************)
(* ApplyProvisionerReport: read the row, settle the node's key, take the   *)
(* host away, write the row.  Each is a transaction of its own, and the    *)
(* report may be cut off before any of them.                               *)
(***************************************************************************)
AllowedFrom(s) ==
    CASE s \in {"requested", "creating"} -> {"requested", "creating"}
      [] s = "unlocking" -> {"creating", "unlocking"}
      [] s = "booting" -> {"unlocking", "booting"}
      [] OTHER -> States

\* An unlocking report is refused for a VM that is to go, and for a revoked key.
Refuses(row, s) ==
    \/ row.state = "deleted"
    \/ s = "unlocking" /\ (row.desired = "absent" \/ nodeKey[Current] = "revoked")

\* Without the approval.
FaultyKeyAfter(row, s) == nodeKey[Current]

\* ApproveNode and RevokeNode: a key that no row records is not revoked.
KeyAfter(row, s) ==
    CASE s = "unlocking" -> "approved"
      [] s = "deleted" /\ row.key /\ nodeKey[Current] = "approved" -> "revoked"
      [] OTHER -> nodeKey[Current]

ReadReport ==
    /\ prov.pc = "report"
    /\ LET s == prov.report.state
           row == vm[Current]
       IN \/ Refuses(row, s) /\ PassGoes(Done(prov))
          \/ /\ ~Refuses(row, s)
             /\ nodeKey' = [nodeKey EXCEPT ![Current] = KeyAfter(row, s)]
             /\ prov' = IF row.state \notin AllowedFrom(s) THEN Done(prov)
                        ELSE [prov EXCEPT !.pc = IF s = "deleted" THEN "host" ELSE "record"]
             /\ UNCHANGED <<rows, host, used, blobs, placing, beat, inst, rec, memory>>

\* The DELETE of the host row: which runtimes are placed on it, wherever their
\* snapshots are, is what its snapshot shows ...
ChooseHost ==
    /\ prov.pc = "host"
    /\ PassGoes([prov EXCEPT !.pc = IF Current \in used THEN "record" ELSE "drop"])

\* ... and a start that has locked the row is waited for, without looking again.
DropHost ==
    /\ prov.pc = "drop" /\ Current \notin placing
    /\ host' = host \ {Current}
    /\ prov' = [prov EXCEPT !.pc = "record"]
    /\ UNCHANGED <<rows, nodeKey, used, blobs, placing, beat, inst, rec, memory>>

\* Writing the state of a report that carries none.
FaultyRecorded(row, r) ==
    [row EXCEPT !.state = r.state, !.hash = IF r.hash = None THEN @ ELSE r.hash,
                !.desired = IF r.failure THEN "absent" ELSE @]

Recorded(row, r) ==
    [row EXCEPT
        !.state = IF r.state = "" THEN @ ELSE r.state,
        !.hash = IF r.state = "requested" THEN None ELSE IF r.hash = None THEN @ ELSE r.hash,
        !.key = IF r.state = "unlocking" THEN TRUE ELSE @,
        !.desired = IF r.failure THEN "absent" ELSE @,
        !.refusal = IF r.refusal /\ (r.state = "requested" \/ (r.state = "" /\ row.state = "requested"))
                    THEN TRUE ELSE IF r.state # "" THEN FALSE ELSE @]

RecordReport ==
    /\ prov.pc = "record"
    /\ vm' = IF IsLive(vm[Current])
             THEN [vm EXCEPT ![Current] = Recorded(vm[Current], prov.report)] ELSE vm
    /\ prov' = Done(prov)
    /\ UNCHANGED <<accounts, trial, nodes, inst, rec, memory>>

ReportCut ==
    /\ "cut" \in Events /\ prov.pc \in {"report", "host", "drop", "record"}
    /\ PassGoes(Done(prov))

(***************************************************************************)
(* The specification.                                                      *)
(***************************************************************************)
ControlPlane ==
    \/ \E a \in Accounts : (\E removesData \in BOOLEAN : EnsureAccountVM(a, removesData))
                           \/ DeleteAccount(a) \/ Deposit(a)
    \/ \E v \in VMs : Retire(v)
    \/ Reconcile

Nodes ==
    \E v \in VMs : HeartbeatArrives(v) \/ HeartbeatStored(v)
                   \/ PlaceChosen(v) \/ PlaceCommitted(v) \/ RuntimeLeaves(v)
                   \/ RuntimeErased(v)

Step(i) ==
    \/ StepAdopt(i) \/ StepWait(i) \/ StepCreate(i) \/ StepRejected(i) \/ StepAddressed(i)
    \/ StepUnlock(i) \/ StepNothing(i) \/ StepFailure(i) \/ StepForget(i) \/ StepRemoved(i)

Provisioner ==
    \/ FetchWork \/ ListInstances \/ Sweep
    \/ \E i \in Instances \cup {None} : Step(i)
    \/ CreateSucceeds \/ CreateFails \/ CreateRefused \/ SaveCreate
    \/ ReadReport \/ ChooseHost \/ DropHost \/ RecordReport \/ ReportCut

Timers ==
    \/ \E v \in VMs : CreateSettles(v) \/ RefusalSettles(v)
    \/ \E h \in Instances : ForgetSettles(h)

Next ==
    \/ ControlPlane \/ Nodes \/ Provisioner \/ Restart \/ Timers
    \/ \E h \in Instances : Aleph(h)

\* The provisioner polls forever; delays end; Aleph lists, addresses and drops
\* instances in the end; a start that chose a VM commits.  A report that is made
\* again and again is not cut off every time.
Fairness ==
    /\ WF_vars(Provisioner) /\ SF_vars(ReadReport) /\ SF_vars(DropHost) /\ SF_vars(RecordReport)
    /\ \A v \in VMs : WF_vars(CreateSettles(v)) /\ WF_vars(PlaceCommitted(v))
    /\ \A h \in Instances :
         WF_vars(ForgetSettles(h)) /\ WF_vars(Appears(h)) /\ WF_vars(GetsAddress(h))
         /\ WF_vars(Vanishes(h))

Spec == Init /\ [][Next]_vars
FairSpec == Spec /\ Fairness

(***************************************************************************)
(* Properties.                                                             *)
(***************************************************************************)
(* The tables, the listing and the provisioner's state are well-formed.    *)
TypeOK ==
    /\ accounts \subseteq Accounts /\ trial \subseteq Accounts
    /\ vm \in [VMs -> Row]
    /\ nodeKey \in [VMs -> {"none", "approved", "revoked"}]
    /\ host \subseteq VMs /\ used \subseteq VMs /\ blobs \subseteq VMs
    /\ placing \subseteq VMs /\ beat \subseteq VMs
    /\ inst \in [Instances -> Instance]
    /\ rec \in [VMs -> CreateRecord]
    /\ memory \in [forgotten : SUBSET Instances, refused : SUBSET VMs]
    /\ prov \in Pass

(* Requests of many accounts, the spares' top-up, retirements and failed   *)
(* deletions together never have more VMs paid for than the policy allows  *)
(* (EnsureAccountVM, ReconcileProvisionedVMs).                             *)
FleetWithinLimit == Cardinality(Live) <= MaxVMs

(* Free trials never hold more than twice their share, even by deleting    *)
(* accounts whose VMs still exist (checkTrialVMLimitsTX).                  *)
TrialsWithinShare ==
    Cardinality({v \in Live : vm[v].account \in trial}) <= TrialLimit(TRUE)

(* A VM is never given to a second account, nor becomes a spare again      *)
(* (EnsureAccountVM).                                                      *)
Dedicated ==
    [][\A v \in VMs : vm[v].account # None => vm'[v].account = vm[v].account]_vars

(* Whatever the provisioner was doing when it stopped, no VM ever has two  *)
(* instances that are not on their way out (createRecord, adopt).          *)
OneInstance ==
    \A v \in VMs :
        Cardinality({h \in Instances : inst[h].vm = v /\ Standing(h) /\ ~inst[h].forgot}) <= 1

(* The provisioner never deletes the recorded instance of a VM that is     *)
(* meant to exist, however old the lists it works from are (remove and     *)
(* runOnce's deletion of orphans and duplicates).                          *)
DeletesOnlyUnwanted ==
    [][\A v \in VMs, h \in Instances :
          vm[v].hash = h /\ vm[v].desired = "present" => (inst'[h].forgot => inst[h].forgot)]_vars

(* A VM holds its node key only once the key is approved, so its first     *)
(* heartbeat is let in (ApplyProvisionerReport, unlock).                   *)
ApprovedBeforeUnlock ==
    \A h \in Instances : inst[h].open => nodeKey[inst[h].vm] # "none"

(* The key of a deleted VM is not approved, whichever of its reports were  *)
(* cut off (ApplyProvisionerReport).                                       *)
DeletedIsRevoked == \A v \in VMs : vm[v].state = "deleted" => nodeKey[v] # "approved"

(* A VM that is to go is deleted in the end (remove), which frees its      *)
(* place in the fleet.                                                     *)
RetiredIsDeleted ==
    \A v \in VMs : (v \in Live /\ vm[v].desired = "absent") ~> vm[v].state = "deleted"

(* An instance whose VM is deleted, one that the listing shows only after  *)
(* the deletion included, is deleted in the end (runOnce).                 *)
NoInstanceLeaks ==
    \A h \in Instances :
        (inst[h].vm # None /\ Standing(h) /\ vm[inst[h].vm].state = "deleted") ~> ~Standing(h)
=============================================================================
