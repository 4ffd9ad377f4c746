# TLA+ specifications of networking-generic-switch

networking-generic-switch (NGS) is a Neutron ML2 mechanism driver. Neutron calls
it in many processes and threads when networks, ports, trunks and security
groups change; NGS turns each call into commands for physical switches, over
SSH (netmiko) or NETCONF. This directory holds TLA+ modules of the parts where
concurrency, failure and ordering matter, the TLC runs that check small
instances, and TLAPS proofs for all instances. All source paths below are
relative to `src/networking_generic_switch/`.

## 1. The system

| Component | Source | State | Operations | What is hard |
|---|---|---|---|---|
| Batch queue | `batching.py` | etcd keys: inputs, results, execute lock; leases | `do_batch`, `wait_for_result`, worker thread | leases, crashes, missed watches, timeouts, foreign workers |
| Lock pool and SSH connections | `locking.py`, `devices/netmiko_devices/__init__.py` | tooz locks, LIFO connection pool | `PoolLock`, `_get_connection`, drain, retry | threads sharing a pool, locks shared by processes, half-applied commands |
| L2VNI mapping | `generic_switch_mech.py` (632-1068), `devices/netmiko_devices` (522-605) | VNI per VLAN and port VLANs on the switch | bind, update, delete of ports; check-then-act | two Neutron workers at once, stale answers of the switch |
| Port life cycle | `generic_switch_mech.py` (361-630, 1070-1143) | port status and binding, switch ports | `update_port_postcommit`, `delete_port_postcommit`, `bind_port` | failure in the middle of several links |
| Network life cycle | `generic_switch_mech.py` (76-225, 936-971, 1145-1174) | VLANs on the switches of a physnet | create, delete, convergence to the VLANs of the database | database reads that are stale when they are sent; partial failure |
| NETCONF datastore | `devices/netconf_devices/netconf_switch.py` | candidate, running, startup, NETCONF lock | `_lock_and_configure`, `_save_running_config` | confirmed commit, lost lock, session death |
| OpenConfig trunk VLANs | `devices/openconfig_mixin.py`, `netconf_models/`, `devices/netconf_devices/openconfig.py` | trunk VLANs per port | replace and merge of VLAN sets | replace with an old set |
| Trunk driver | `trunk_driver.py`, `generic_switch_mech.py` (1176-1260) | subports, trunk status | `subports_added`, `subports_deleted` | parent read outside the transaction |
| Security groups | `generic_switch_sg.py`, netmiko ACL methods | ACLs, ACLs bound to ports | create, update, delete, bind, remove | rules read from the database and sent later |
| Device selection | `devices/utils.py`, `devices/__init__.py`, `utils.py` | none | `get_switch_device`, `is_allowed`, multicast groups | boundary values |
| Vendor drivers | `devices/netmiko_devices/*.py` | command templates, output parsers | per-vendor commands | parsing of switch output |
| Configuration, exceptions, XML models | `config.py`, `exceptions.py`, `netconf_models/`, `xml_utils.py` | none | parsing and serialisation | none (pure data) |

How they interact: a Neutron worker thread calls the mechanism driver after its
database transaction (`*_postcommit`); the driver picks devices by MAC, name or
physical network and calls device methods. A netmiko device formats commands
and either puts them in the batch queue (batch mode), or takes a lock of the
tooz pool and a connection itself. A NETCONF device takes the pool lock, the
NETCONF lock of a datastore, edits and commits. Neutron processes share the
database, etcd and the switches, and nothing else. A callback of a trunk or a
security group reads the database again in a transaction of its own before it
edits switches, so what it sends may be older than the change that called it.

What is hard about each component, and which property is about it, is listed line by
line under "hazards" in `PROJECT.json`.

## 2. The modules

| Module | Part | Extends |
|---|---|---|
| `BatchQueue` | the etcd queue and its workers, `batching.py` | |
| `RequestQueue` | abstract: what `do_batch` promises to its callers | |
| `BatchQueueProofs` | theorems about `BatchQueue`, and that it implements `RequestQueue` | `BatchQueue`, TLAPS |
| `ConnectionPool` | lock pool, connection pool, retry | |
| `ConnectionPoolProofs` | theorems about `ConnectionPool` | `ConnectionPool`, TLAPS |
| `PortBinding` | binding of ports and L2VNI mappings | |
| `PortBindingProofs` | theorems about `PortBinding` | `PortBinding`, TLAPS |
| `NetconfDatastore` | edits of a switch over NETCONF | |
| `NetconfDatastoreProofs` | theorems about `NetconfDatastore` | `NetconfDatastore`, TLAPS |
| `SwitchDrivers` | command templates of 23 netmiko drivers, by their effect | |
| `SwitchPorts` | ports and L2VNI of one switch under those templates | `SwitchDrivers` |
| `SwitchPortsProofs` | theorems about `SwitchPorts` | `SwitchPorts`, TLAPS |
| `NetworkSync` | networks on all switches, trunk ports that converge | |
| `NetworkSyncProofs` | theorems about `NetworkSync` | `NetworkSync`, TLAPS |
| `TrunkSubports` | a trunk port and its subports on OpenConfig switches | |
| `TrunkSubportsProofs` | theorem about `TrunkSubports` | `TrunkSubports`, TLAPS |
| `SecurityGroups` | callbacks of security groups, ACLs of the switches | |
| `SecurityGroupsProofs` | theorems about `SecurityGroups` | `SecurityGroups`, TLAPS |
| `MCBatchQueue`, `MCConnectionPool`, `MCPortBinding`, `MCNetconfDatastore`, `MCSwitchPorts`, `MCSecurityGroups` | values of the constants for TLC | the module |
| `MCNetworkSync` | the same for two modules without common state | `NetworkSync`, `TrunkSubports` |

An action carries the name of what it does in the code, and `map` in
`PROJECT.json` gives the lines. Definitions with the comment "Mutant: ..." are
not part of a specification: each is the action next to it with a plausible bug,
and shows that a property would notice that bug.

### BatchQueue

A *batch* is one call of `do_batch`; the same name stands for its caller, its
worker thread and its two etcd keys. One etcd transaction is one step, because
etcd orders transactions and everything between them is local to a thread.

| State | In the code |
|---|---|
| `input`, `createRev`, `revision` | keys below `/input/`, with their create_revision |
| `output`, `event` | keys below `/result/`; the first event that the caller's watch covers |
| `lock` | the etcd3gw lock of the switch; its owner is the worker that acquired it |
| `client`, `answer` | where `do_batch` and `wait_for_result` are; what they return or raise |
| `worker`, `todo`, `outcome` | where `_execute_pending_batches` is; the batches it listed; what the last one gave |
| `applied` | not in the code: what the switch executed, in order |

`AddBatch` is `add_batch` with the start of the thread. `StartWatch`,
`WatchEvent`, `PollResult`, `FetchResult`, `LastAttempt` and `DeadlinePasses`
are `wait_for_result`. `CheckPending`, `TryLock`, `RetryLock`,
`AcquireTimeout` and `VerifyLock` are the way to the lock; `ListBatches`,
`Connect`, `SendCommands`, `RefreshLock`, `RecordResult`,
`SaveConfiguration` and `ReleaseLock` are the work under it. `ExpireLock`,
`ExpireInput` and `ExpireOutput` are etcd's leases, `Crash` is the death of a
Neutron process. `Faults` says which of these may happen. `LockExpiresAt` names
the worker steps that may take longer than the lease of the lock (120 s); it is
what the guarantees depend on most.

### ConnectionPool

A *call* is one thread in `send_commands_to_device`, with `check_output` around
it, or in a query of the switch. The connection `<<c, a>>` is the one that call
`c` opens in its attempt `a`.

| State | In the code |
|---|---|
| `holder`, `nextName` | tooz locks of one switch; the name that `grab_lock_from_pool` tries next |
| `pool` | `_connection_pool` of each process (a `LifoQueue`) |
| `session` | the SSH session of a connection, as switch and client see it |
| `pc`, `hand`, `attempt`, `raised` | where the call is, `net_connect`, first or second attempt, whether blocks are left by an exception |
| `rejected`, `result`, `ran` | the output has an error pattern; what is returned; how often the switch ran the commands |

`TryLock`, `AcquireTimeout` and `Unlock` are `PoolLock`; `PopConnection`,
`FoundAlive`, `FoundDead`, `Connect`, `ConnectFails`, `PutBack` and `Abort` are
`_get_connection` with `_get_pooled_connection`; `Use`, `UseFails`, `Save` and
`SaveFails` are the body of its `with` block; `Retry` and `RaiseError` are the
`except` clause of `send_commands_to_device`; `CheckOutput` and `Drain` are the
decorator. `is_alive` may be wrong about a session that has just been dropped
(`FoundAlive` has no guard), never about an open one.

### PortBinding

The driver runs after Neutron's transaction and holds no lock between a query
of the switch and the commands that depend on the answer, so each query and
each set of commands is one step. Neutron's side (`bound`, `status`, `segment`),
the switches (`access`, `vni`, `members`) and the calls (`pc`, `link`, `vlan`)
are the state. `CheckVni`, `PlugVni`, `PlugPort`, `Complete` are
`update_port_postcommit` for one link after the other; `UnplugPort`,
`CheckSegment`, `CheckPorts`, `UnplugVni` are `_unplug_port_from_segment` and
`_cleanup_l2vni_if_needed`; `PlugFails` and `UnplugFails` are their exceptions.
`Bind`, `Update`, `Unbind` and `ReleaseSegment` are what Neutron does between
the calls. `scenario` is chosen once, by the initial state: whether calls
overlap, whether `vlan_has_vni` looks at the VLAN (on NX-OS it greps for the VNI
alone), and what fails. Properties that need a scenario name it in their
premise.

### NetconfDatastore

A *call* is one thread in `send_config_to_device`, with a NETCONF session of its
own; one RPC is one step. The switch is not part of the repository; it does what
RFC 6241 demands: a session that ends gives up its lock, its uncommitted edits
and its unconfirmed commit; only the session of a confirmed commit may follow
up on it; a locked candidate cannot be changed by others. Where the RFC leaves a
choice (whether a candidate that somebody has edited can be locked) the model
has both.

| State | In the code |
|---|---|
| `candidate`, `running`, `startup` | datastores of the switch; each item says who wrote it last |
| `before`, `pending` | what a confirmed commit is rolled back to; whose it is |
| `lock`, `session` | `client.locked`; `manager.connect` |
| `slots` | locks of `PoolLock` |
| `pc`, `attempt`, `raised` | where the call is; tenacity's attempt; how the attempt ended |
| `left` | not in the code: the step at which the session or the process was lost |

`Start`, `EnterPool`, `Connect` and `Close` are the `with` blocks;
`LockGranted`, `LockDenied`, `ClearCandidate` and `Retry` the lock and the
decorator; `Discard`, `Edit`, `ConfirmedCommit`, `Commit` and `Save` the body;
`RpcFails` is its `except` clause. `PoolLock` is here only its promise, since
`ConnectionPool` has its steps.

### SwitchDrivers and SwitchPorts

`SwitchDrivers` translates the templates of `devices/netmiko_devices/*.py`, the
`plug_switch_to_network` of the drivers with L2VNI, and what their queries look
for, into records of commands. `SwitchPorts` applies them: the port of a switch
is a mode, an access VLAN, a native VLAN, tagged VLANs and up or down; an
overlay is the set of the pieces that make it. Calls come one after the other.

| State | In the code |
|---|---|
| `scenario` | driver, port or bond, `ngs_disable_inactive_ports`, `ngs_port_default_vlan`, trunks, faults |
| `net`, `trunk`, `subs`, `active` | the port in Neutron: VLAN of its segment, trunk, segmentation ids of its subports, status |
| `port`, `overlay` | the interface, and what is configured for the VNI of a VLAN |
| `unsure` | not in the code: VLANs of a call that failed, which may be there or not |

`Plug` is `update_port_postcommit` with `plug_port_to_network` or
`plug_bond_to_network` and `_configure_l2vni_if_needed`; `Unplug` is
`_unplug_port_from_segment` with `delete_port` or `unplug_bond_from_network` and
`_remove_l2vni_mapping`; `AddSubport` and `DelSubport` are the methods of the
mechanism driver with the L2VNI of subports. A call that fails has sent a prefix
of its commands (`CutPoints`; Junos discards what it did not commit).

### NetworkSync

A *call* is `create_network_postcommit` or `delete_network_postcommit` of one
network. It visits its switches in their order; on a converging switch the
visit has two steps, as `_get_physnet_vlans` reads the database, once for each
set of physical networks (`physnet_vlans_cache`), before the edit is sent.

| State | In the code |
|---|---|
| `deployment` | the physical networks, trunk ports and kinds of the switches, `ngs_manage_vlans` |
| `db`, `made` | VLANs of the networks in the database |
| `call` | the switches that the call has yet to visit, what it has read |
| `config` | VLANs of a switch and of its trunk ports |
| `spoilt`, `outdated` | not in the code: where the last edit failed, raced with another call for the VLAN, or sent an old reading |

`EditDone` is `add_network` or `del_network` of the device: on netmiko switches
several commands, on OpenConfig switches one edit that replaces the VLANs of the
trunk ports. `EditFails` is the exception, which ends a create and only delays
the end of a delete. Deleting a network starts its call although the create may
still run, which is what Neutron does when the create raises. Neutron allocates
the VLANs of each physical network by itself (`Free`): two networks may have the
same VLAN unless one switch is on both of their physical networks, for a switch
has only one set of VLANs.

### TrunkSubports

The callbacks `subports_added` and `subports_deleted` of `trunk_driver.py` and the plug
and unplug of the parent port. `AttachSubport` and `DetachSubport` change the
database and start a callback; `ReadParent` is its transaction; `LinkDone` and
`LinkFails` edit the port of one link.

| State | In the code |
|---|---|
| `parent` | the database: is the parent port bound, the segmentation ids of its subports |
| `details` | the `trunk_details` of the parent port: `full` with the segmentation id of the parent, `plain` without it, `none` when the port has none |
| `running` | the calls, the subports they have read, the link they are at |
| `switched` | `VlanSwitchedVlan` of the switch port of each link: mode, access, native and trunk VLANs |
| `unsettled` | not in the code, like `outdated` above: the last edit sent an old reading, or failed |

`Plugged`, `Unplugged`, `Added` and `Deleted` are the four edits of
`openconfig_mixin.py`. With `trunk_details` they REPLACE what the port has, and those of the
callbacks name the native (or access) VLAN only if `trunk_details` has the
segmentation id of the parent; without `trunk_details` the callbacks merge or
remove their own subport only. The unit tests have all three shapes
(`test_generic_switch_mech.py:1656`, `:1668`, `:1741`).

### SecurityGroups

A *worker* runs one callback: the database changes, and the callback's steps are
put on its list `todo` (`GroupSteps`, `PortSteps`): readings of rules and ports, then
an edit of each switch. `Does` is what a command does to the ACLs of a switch:
NX-OS and OS10 bind a named ACL to ports (`NamedCommands`), SONiC makes a table
for all ports of a group and loads its rules from a file (`TableCommands`).

| State | In the code |
|---|---|
| `rules`, `member`, `bound` | the database: rules of a group, group of a port, ports with a binding |
| `worker` | what the callback has to do, what it has read, what of that is old by now |
| `device` | ACLs, files, and ports that an ACL is applied to |
| `oldRules`, `oldPorts`, `left` | not in the code: ACLs and bindings that come from an old reading or a failed callback |

## 3. What the runs check

| Run | Question | Distinct states |
|---|---|---|
| `batch_lock` | under every fault, with steps shorter than the lease: one session at a time, FIFO, own answers, and the queue implements `RequestQueue` | 235 k |
| `batch_ends` | while workers lose their lock during a long send, processes die and watches miss events: no request is lost, results are recorded under the lock and once, threads end, and callers are answered if no lease ends early | 339 k |
| `batch_long_send` | *violated*: FIFO when sending outlasts the lease | |
| `pool_calls` | two processes, one lock, sessions drop, waits time out, processes die: connections are in one place, none leaks, retries are bounded, calls end, and so release their locks | 175 k |
| `pool_bound` | three threads of one process, two locks, refused connections, failed commands, rejected outputs: no more sessions than `ngs_max_connections` | 2.5 M |
| `bind_calls` | three ports, two networks, two switches, in four scenarios: what Neutron calls ACTIVE is plugged and mapped, mappings do not pile up | 2.2 M |
| `bind_race` | *violated*: mappings are removed only when the last port is gone, with overlapping calls | |
| `netconf_calls` | two calls on seven kinds of switches and environments: what is done stays and is saved, edits are atomic, nobody commits foreign edits, failed edits are undone, calls end and leave nothing locked | 167 k |
| `netconf_rollback` | *violated*: what was not confirmed is rolled back | |
| `switch_calls` | one port under each of 23 drivers, two ports under each of 8 overlays: an ACTIVE port is connected, a port keeps no VLAN of earlier tenants, an overlay that is taken for complete is, and exists as long as ports need it | 294 k |
| `nets_calls` | two networks on two switches in six deployments, and a trunk with two links and each shape of `trunk_details`: switches have the VLANs of the database, however calls overlap, fail or die | 1.7 M |
| `sg_calls` | two workers, two groups, two ports, two switches: ACLs have the rules and ports of the database, but for old readings and failures | 1.5 M |

### Bounds, and why they are enough

- Two batches. Every hazard of the queue is between two parties: the worker of
  one batch and the caller or worker of another; a worker lists zero, one or two
  batches. A worker may lose the lock in the send step, where commands take
  longest (`batch_ends`, `batch_long_send`). Every counter of the module is bounded by the number of batches
  except `applied`, which is bounded by it times the workers, as every worker
  runs once. The theorems hold for any number.
- Three calls. Two in one process share a pool, the third is in another process
  and shares only the locks (`pool_calls`); or all three share the pool and two
  locks (`pool_bound`), which is the least where a pool can be full, have one
  idle connection, and be wanted by a third call. A call has at most two
  attempts, so nothing needs a bound of its own.
- Three ports, two of them on one network; one port has links to two switches;
  two VLANs, so a VLAN can be released and given to the other network.
- Two calls over NETCONF that write an item each and one in common, and an
  operator who writes another; two attempts stand for ten, as each attempt starts
  from the same step with the same state of the call.
- One port for each driver, as the templates name one port; two ports where
  they share something, the overlay of their VLAN. Two VLANs next to the default one:
  a port moves from one to the other, or has one as its network and one as a
  subport. Five drivers get a third, so that a trunk has two subports, one of which
  a failed call was about. Calls that fail are cut at every command.
- Two networks, each created and deleted once (a new network has a new id), and
  two VLANs, so that one may be given to the second network after the first has
  gone, or to both networks where they share no switch. Of the two switches one is visited first, which is where readings and
  failures differ. Two edits fail or processes die, so a create and the delete that
  follows it may both fail; `NetworkSync` itself has no bound but `MaxFaults`.
- A trunk with two links, two subports and two calls at a time: of two calls one
  is behind the other at a link, which is all that one link can tell. The theorem
  holds for any number.
- Two workers for security groups; more would only start another callback
  between the same steps. Each scenario has two of one thing (rule sets, ports,
  groups, switches) and one of the others.
- Symmetry is used only in runs without liveness properties.

### Fairness

- `BatchQueue`: weak fairness of each caller and each worker (threads that are
  alive run), and of the expiry of a lock whose owner is gone (etcd expires
  leases). Nothing is assumed of timeouts: `EveryoneAnswered` and `WorkersEnd`
  hold although no timeout ever helps. `EveryoneAnswered` has the premise
  `LeasesOutlastSteps`: a worker that loses its lock ends and leaves its batches
  queued, and if no other worker comes the callers wait for 300 s in vain. No strong fairness is needed to acquire
  the lock: each worker stops as soon as nothing is pending, and there are
  finitely many batches.
- `ConnectionPool`: weak fairness of each call's own steps, and of the expiry of
  locks of dead processes (tooz). A wait for the lock may time out, but need not.
- `NetconfDatastore`: weak fairness of each call, of the switch that misses the
  keepalives of a dead client, and of the expiry of tooz locks. None for the
  operator, who may keep the lock for ever: ten attempts end all the same.
- `PortBinding`, `SwitchPorts`, `NetworkSync`, `TrunkSubports` and
  `SecurityGroups` state safety only: after a failure nothing in the driver tries
  again until Neutron changes the object. Their properties say what is true when
  no call is on its way, and what the next call repairs.

### Disagreements the runs show

- `batch_long_send`: the lease of the lock (120 s) is refreshed after a batch
  was sent, so one long batch loses the lock; a second worker then executes the
  same queue, and the order the documentation promises is gone.
- `bind_race`: a VNI mapping is removed from a VLAN into which another call has
  plugged a port since the query.
- `netconf_rollback`: when the confirming commit fails, `client.locked` gives the
  lock back while the confirmed commit is pending. Another call locks the
  candidate, discards it to a running configuration with the unconfirmed edit in
  it, waits until the switch has rolled back, and commits that edit again.
  `FailedIsUndone` and `CommitsOwnEdit` hold where the confirming commit does not
  fail under the lock.

Met while modelling, without a run: queries of a switch take no lock, so the
bound of `pool_bound` does not hold with them, nor when several processes each
keep idle connections; a call that retries may wait for the lock twice as long
as `acquire_timeout`; the `discard_changes` that answers a lock denied by session
0 is sent without the lock, so the switch refuses it when somebody has the lock
by then, and that error leaves `_lock_and_configure` without a retry although
the documentation promises ten attempts; a switch without a usable datastore
gets nothing, and no error is raised; the retry "with a clean SSH connection"
takes the next connection of the pool, which may be as dead as the first; the
parent's VLAN is to be the native one of a trunk (`general-configuration.rst:176-178`),
and the plug makes it so, but a later change of the subports REPLACEs the VLANs
without it when `trunk_details` lack the segmentation id
(`openconfig_mixin.py:239-241`, `281-293`; `test_converge_no_native_vlan` expects
that).

Premises of properties that stand for something the code does:

- `ActiveIsConnected` claims trunks only for drivers with `SET_NATIVE_VLAN`. NX-OS,
  Aruba, DellNos, PowerConnect, SONiC and Junos accept trunks and have none, so
  the network of the parent is not configured (`general-configuration.rst:177-178`
  promises it). A trunk that is made of a port which is bound already is not claimed
  either: adding a subport then leaves IOS and NVUE without the VLAN of the parent,
  and has no effect on Arista and OVS, whose port stays in access mode.
- `OwnVlansOnly` claims trunks for five drivers: the unplug passes no
  `trunk_details` (`generic_switch_mech.py:1124`), so OS10, NX-OS, Aruba, DellNos,
  PowerConnect and SONiC leave the VLANs of the subports to the next tenant.
- `MappedIsComplete` leaves out NX-OS, Arista with a multicast group and NVUE with
  learnt peers: their queries look for a piece that is not the last one, so an overlay that
  was cut short is never completed. `OverlayServed` says nothing of subports of a
  port that is plugged as a trunk: the plug configures no VNI for them.
- `TrunkIsDatabase`, `SubportsAreDatabase` and `RulesCurrent` except the last edit when it sent an
  old reading: the readings are not ordered by anything, and the older one may come last.
- `SubportsAreDatabase` claims the native VLAN where `trunk_details` have the
  segmentation id of the parent, for the reason above, and the VLANs of the subports where there are
  `trunk_details`: without them the callbacks of one subport may be applied in
  either order, and the plug does not know the subports at all. That a port which
  is not bound has no VLANs is claimed for every shape.
- `OnlyMembersFiltered` excepts ports that were unbound: `update_port_security_group` and
  `remove_port_security_group` return early for a port without a binding, and the
  ACL stays on the switch port.

Errors of single drivers: SONiC raises TypeError when subports are added
(`sonic.py:699`), Brocade for bonds and for trunks (`brocade.py:79`); the OVS
parser of VLAN members sees access ports only; the drivers that override
`vlan_has_ports` and `vlan_has_vni`, all but NX-OS, raise when the query fails,
where the base class goes on; Junos without `ngs_save_configuration` never commits.
In security groups: a SONiC unbind from an old reading of the ports leaves a
table without rules; a create over an ACL that is half made merges rules; rejected
rules are only logged, though `netmiko_devices/__init__.py:867` says that the error
propagates to the user; SONiC's ingress rules match the source port
(`sonic.py:276-281`) where OS10 matches the destination port.

## 4. What is proved

All theorems hold for every value of the constants that the named assumptions
of the modules allow. Each proof has one step per action of `Next`; frame lemmas
say what an action leaves alone.

**Batch queue** (`BatchQueueProofs`)

| Theorem | Assumption | Inductive invariant |
|---|---|---|
| `TypeCorrect` | | `TypeOK` |
| `SessionsAreSerial` | `LockExpiresAt = {}` | `Owned`: a worker between acquire and release owns the lock |
| `ResultsAreRecordedUnderLock` | `"record" \notin LockExpiresAt` | `RecordOwned`: the same in the record step, which `RefreshLock` establishes |
| `ResultsAreRecordedOnce` | the same, and no slow callers | `ListCurrent`: what the lock owner has on its list is queued, or its caller is gone |
| `NoRequestIsLost` | no slow callers | `NothingLost` itself |
| `ExecutionIsFIFO` | `LockExpiresAt = {}` | `Order`: nothing on a list or in the queue is older than what was applied, and a list holds what was queued first |
| `AnswersAreOwn` | | `Unique` (revisions tell batches apart) and `Traced` (outcomes on their way from switch to caller) |
| `QueueImplementsPromise` | `LockExpiresAt = {}` | `Ledger`: a batch with a result is on no list, so its result is that of its last execution |

`SerialSessions` is not inductive, since it does not say who may enter; `FIFO`
is not, since it says nothing of what will be sent next. In the refinement,
`AddBatch` is `Submit`, `SendCommands` is `Execute`, the steps that end
`wait_for_result` are `Answer` or `GiveUp`, and all others stutter.

**Connection pool** (`ConnectionPoolProofs`): `PoolTypeCorrect`,
`ConnectionsInOnePlace`, `NoSessionLeaks`, `CommandsRunOnce`,
`SessionsStayBounded`, without assumptions on faults. The invariant `Connected`
adds to the first properties that program counter and hand match, and that the
connection an attempt would open has not been opened. `Counted` says, for each
step of an attempt, how often the commands have been run by then. For the bound,
`Guarded` says that a call that works with a connection has a lock, and `Bounded`
counts the sessions together with those that calls are about to open: that
number grows only when no session is idle in the pool, so each of them is then
in the hand of a call, and calls map one-to-one to the names of the locks they
hold. Like the property, it claims the bound for a process whose calls all take
a lock (`LockedProcess`).

**Port binding** (`PortBindingProofs`): `BindingTypeCorrect` and
`ActivePortsArePlugged`, for all scenarios, overlapping calls included. The
invariant says of each port: a bound port has a segment, the VLAN of a plugging call
is that of the segment, the links that it has passed are plugged, and an
ACTIVE port has all links plugged. `NoMappingGoesStale` and
`ActivePortsAreMapped` are about the scenarios that their properties name. They rest on
`Based` (two segments never have the same VLAN, calls that do not overlap are one,
a call for a port works on the port's own VLAN, and what is left when all is at
rest), to which `Watched` adds that a mapping without ports has a call on its way
that will look at it, `Known` that the VNI of a network is on the VLAN of its segment
only, or on one that is about to lose it, and `Mapped` that an ACTIVE port's VLAN is mapped on every link.

**NETCONF datastore** (`NetconfDatastoreProofs`): `DoneStays`,
`DoneSurvivesReboot`, `EditsAreAtomic`, `FailuresAreUndone`,
`NobodyCommitsForOthers`, for any calls, items, switches, operators and faults.
One invariant, `StoreInv`, in three parts:

- `Control`: who is within `client.locked` has the lock of the datastore, and an
  unconfirmed commit is that of the lock's holder, unless the confirming commit may
  have failed;
- `Stored`: every store that is the running configuration, or may become it by a
  roll-back, has what was reported as done and no call's edit in part;
- `Reverted`: no such store has anything of a call that failed, and the
  candidate differs from running by the edit of the lock's holder only.

The last two theorems hold where the confirming commit does not fail under the lock; that
premise is in the properties, and `netconf_rollback` shows why it is there.

**Trunk ports** (`TrunkSubportsProofs`): `TrunkPortsHaveSubports`, for any
subports, links and calls at a time, with failures and crashes. `SubportsAreDatabase` is
not inductive: it says nothing of what a call has read. `SubInv` adds `Fresh` (what
a call has read is the parent port of the database, and the port is bound unless the call is its
unplug, until the database changes), `Tidy` (nothing is kept of a call that is
over; only callbacks have yet to read) and `Settled`, which is the property with one
exception less: a callback that has not read the port yet counts only while the
port is bound, as it would otherwise do nothing. `EditsItsReading` says what each
edit leaves for each shape of `trunk_details`. `ChangesKeep` is the step of the
database, one lemma each for the others.

**Networks** (`NetworkSyncProofs`): `CreatedIsServed`, `DeletedIsGone` and
`TrunksConverge`, for any networks, switches and calls at a time, with failures
and crashes. The three properties share one invariant, `SyncInv`, as each needs what the
calls on their way know:

- `Fresh`: what a call has read is in the database, or noted as old;
- `Once`, `Distinct`: a network is created and deleted once, and no two that share
  a switch have the same VLAN;
- `Creating`, `Raced`: a create whose network is gone, and any other call for the VLAN
  of a network, are noted as racing on every switch that they have yet to visit. This is
  what makes an edit of another call harmless: it is either of another VLAN, or
  leaves the switch in `spoilt`;
- `Bare`: a switch without trunk ports or `ngs_manage_vlans` has nothing;
- `Served`, `IsGone`, `Converged`: the properties, with the calls that still run.
  `IsGone` is stronger than `DeletedGone`, where a create on its way is an
  excuse too: only a delete will take the VLAN off.

`SomeEdits` and `AllEdits` say what a part of an edit and a whole one do to a
switch; `StartKeeps` and `VisitKeeps` are what all starts and visits of calls have in
common.

**Switch ports** (`SwitchPortsProofs`): `ActivePortsAreConnected`,
`OnlyOwnVlansAreCarried`, `MappingsAreComplete`, `OverlaysAreServed` and
`SwitchPortsTypeCorrect`, for any ports, VLANs and environments, on all drivers and
overlays of `SwitchDrivers`. The proof has three layers:

- what a driver sends. The templates of the 23 drivers are looked at once: `Good`
  and `GoodVni` say which commands a template may have and in which order those come
  that depend on each other. Nothing else of a driver is used from there on;
- what a list of commands does. `Near`, with `Widened` for an added subport and
  `Narrowed` for a removed one, bounds the port after any prefix of a call;
  `UnplugEffect`, `PlugAccess`, `PlugTrunk`, `AddEffect` and `DelEffect` say
  what a call that was not cut short has made of the port;
- what holds between the calls. `SPInv` has, for each port, `Trunked` (Neutron's
  side), `Moded`, `Own` and `Connected` (the properties, on what is configured
  instead of on what the mode of the port makes of it: a VLAN that is
  hidden now appears when the mode changes), `NoNative` (no native VLAN is left that a
  later subport would bring back) and `Mapped`; for each VLAN `Complete`, `Whole`
  and `Unmapped`.

None of the four properties is inductive: `ActiveIsConnected` for example does not say
that a free NX-OS port has no native VLAN, on which the next trunk relies. The proof
found an error of the model: a change of one subport that succeeded used to
forget that a failed call had been about another subport.

**Security groups** (`SecurityGroupsProofs`): `RulesAreCurrent`,
`MembersAreFiltered`, `OnlyMembersAreFiltered`, for any workers, groups, ports
and switches, with overlapping callbacks and failures. The
invariant `SGInv` says what callbacks know and what they still have to do: `Callback`
(the steps on a list are those that the handler puts there; what has been read is
in the database, or noted as old), `Alive` (who has a group is bound, and the group
exists), `Addable` and `Filed` (which edits meet an ACL or a rule file that is
in their way), `Current` and `Filtered` (the properties, with the callbacks that
will still see to them), `Kept` and `Leaving` (which ports may still be in the
ACL of a group they have left).

Three facts about lists of commands are needed in both: what a fold over a list means
(`Trace`: the states the device goes through, one per command), what any prefix of the
list may touch, and what the whole list does. The library's induction theorems take
an operator as a parameter and cannot be used; `Induction` says the same of a
set of numbers, and is proved from the well-foundedness of the order of Nat.

The invariants `StoreInv`, `SPInv`, `SGInv` and those of `PortBindingProofs` were
checked by TLC on the instances of the runs before they were proved.

Only model-checked: the liveness properties `EveryoneAnswered`, `WorkersEnd` and
both `CallsEnd`, as fairness and ENABLED are out of the prover's reach; and the
three properties that are violated. Every invariant and action property of the other runs
is stated by a theorem.

## 5. What is left out of the models

- *etcd and tooz*: transactions are atomic and answered. An answer that is lost
  after the transaction was done is not modelled. tooz locks of a living process
  do not expire (the code starts the coordinator without a heartbeat thread, so
  with some back ends they could).
- *Commands and outputs*: their wording. `SwitchDrivers` has what a template
  does to a port, the other modules only whether commands were run and whether the
  output is an error. What a parser makes of outputs that the unit tests do not
  show is left out.
- *Port binding*: VLAN networks without L2VNI are the same steps without the VNI
  ones; `is_allowed` is left out, and so is the death of a Neutron process in the
  middle of a call, which leaves what `PlugFails` leaves. Overlapping calls
  (`PortBinding`) and the templates (`SwitchPorts`) are not in one model.
- *NETCONF*: an unlock that the switch refuses; `validate`, which changes
  nothing. In `NetworkSync` and `TrunkSubports` an edit is one step, as
  `NetconfDatastore` shows sessions to follow each other.
- *Networks*: flat networks and those without a segmentation id, for which the
  driver does nothing; the name that a VLAN gets; dynamic segments, whose VLANs
  `_get_physnet_vlans` counts as well; networks of one switch with the same VLAN,
  which the ranges of its physical networks must exclude.
- *Trunks*: the status of the subports; bonds and LACP of the OpenConfig driver; a
  change of the shape of `trunk_details` while the trunk exists.
- *Security groups*: the content of the rules, remote groups and address
  families, which the code turns into commands line by line.
- *Stateless helpers* (`devices/utils.py`, `utils.py`), the XML models, the
  configuration, the DevStack plugin: no state, or no part of the driver.

## 6. Plan

Done: `BatchQueue` with `RequestQueue`, `ConnectionPool`, `PortBinding`,
`NetconfDatastore`, in this order, as everything the driver does passes through
the first two, the third is what users see, and the fourth is the other way to
the switches; then `SwitchDrivers` with `SwitchPorts`, `NetworkSync`
and `TrunkSubports`, and `SecurityGroups`; and theorems for all safety properties
of the passing runs. Next:

1. The pure helpers (`devices/utils.py`, VLAN ranges of `openconfig_mixin.py`) as
   operators against reference definitions.
2. Composition: `PortBinding` over the promise of `RequestQueue` (batch mode).
