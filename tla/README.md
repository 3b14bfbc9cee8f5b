# Netspoc in TLA+

Specifications of the Netspoc compiler (`src/go`), their model checking with TLC and proofs
checked by TLAPS.  Netspoc reads a description of a network and its security policy and writes
configurations for packet filters.  It runs as a pipeline of two processes
(`src/bin/netspoc`):

    spoc1 --pipe POLICY CODE-DIR | spoc2 --pipe CODE-DIR

`spoc1` (pass 1) reads and checks the policy, finds paths, distributes rules and writes two
intermediate files per device; it announces each device to `spoc2` (pass 2), which optimizes the
rules and writes the final code file, or takes it from the previous run if the intermediate files
have not changed.

Paths without directory are those of `src/go/pkg/pass1`; `spoc2` is `src/go/cmd/spoc2/main.go`.


## Inventory

### Processes and files

| component | source | state | operations | with whom | what is hard | what makes it correct |
|---|---|---|---|---|---|---|
| Messages of pass 1 | `spoc.go`, `background.go`, `cmd/spoc1` | channels `msgChan`, `ready`; error counter; lists of sorting sections | `err`, `warn`, `stopOnErr`, `sortingSpoc`, `finish`, `startInBackground`, `collectMessages`, `printMessages` | all phases send; one goroutine prints and counts | main job, background job, two sorters and the printer share one unbuffered channel `ready`; buffer of limited size | no message lost; nothing behind a `stopOnErr` runs after errors in front of it; output does not depend on the schedule; success only without errors; program ends |
| Workers of pass 2 | `spoc2` | counters of workers, results in a channel | `applyConcurrent`, `waitAndCheck`, `pass2File`, `pass2` | reads the pipe of pass 1 | counting of goroutines, errors after the last name, panics | each device once, bounded workers, success only if all succeeded, ends |
| Code directory | `print-code.go`, `spoc2` | files of CODE-DIR and CODE-DIR/.prev | `checkOutputDir`, `printCode1`, `tryPrev`, `printCombined`, removal of `.prev` | both processes write while the other reads; the next run starts with what is left | killed processes, half written files, errors that end pass 1 only after all files are written, reuse of old code | pass 2 reads complete files; reused code is current; the code is that of one policy |

### Algorithms of pass 1, in the order of `SpocMain`

| component | source | what makes it correct |
|---|---|---|
| Reading of input | `pkg/parser`, `pkg/scanner`, `pkg/filetree`, `pkg/conf` | the tree is what the text says; a printed tree is read as the same tree |
| Objects of the topology | `setup-objects.go`, `mark-disabled.go` | references are resolved; a disabled interface disables what is only reachable by it |
| Zones and areas | `set-zone.go`, `get-aggregates.go` | zones are connected by unmanaged routers; an area is bounded by its borders only |
| Paths | `set-path.go`, `path-walk.go` | loops are cycles; all and only the paths allowed by pathrestrictions are found |
| NAT | `nat.go`, `check-dyn-nat-rules.go` | the NAT set of each domain names the address a network has in packets there, or an error is shown |
| Networks and subnets | `find-subnets.go` | the next larger network of a network in each NAT domain |
| Groups | `expand-group.go`, `print-group.go` | unions, intersections and complements; no recursion in groups |
| Services | `normalize-services.go`, `group-path-rules.go` | rules with equal path are grouped, none is lost |
| Ranges of hosts | `convert-hosts.go` | subnets cover exactly the range of addresses |
| Protocols | `order-protocols.go` | containment of protocols and port ranges |
| Redundant rules | `check-redundant.go` | a rule is redundant only if another one that stays contains it |
| Supernet rules | `check-supernet.go` | no address of a supernet is missed |
| Rules of devices | `distribute-rules.go`, `mark-secondary-rules.go`, `reverse-rules.go` | each managed device on the path filters; secondary devices filter no more than needed |
| Routes | `routes.go` | each destination is routed by the next hop on its paths |
| Code of devices | `print-code.go`, `spoc2` | optimized ACLs permit the same packets |
| Export and cut | `export.go`, `cut-netspoc.go` | the cut policy generates the same code for its services |
| Editing commands | `cmd/add-to-netspoc`, ... | only the named objects are changed |

All algorithms run in one goroutine, except the check for redundant rules, which runs in background; their hard part is not concurrency but the order of the
input, marks left by earlier calls, and numeric borders.  `PROJECT.json` lists each component
with its status and each hazard with its line.


## Modules

| module | content |
|---|---|
| `Messages` | goroutines and channels of pass 1 |
| `Pass2Workers` | goroutines of pass 2 |
| `CodeDir` | files over several runs of both processes |
| `CodeStore` | abstract specification of the code directory, implemented by `CodeDir` |
| `SetPath` | depth first search for loops, clusters and distances; `findZone1` |
| `PathWalk` | extends `SetPath`: pathrestrictions, `pathMark`, `pathWalk` |
| `Nat` | NAT domains, distribution of NAT tags, combined NAT sets |
| `PolicyObjects` | topology, objects and services for the modules of rules |
| `OrderProtocols`, `FindSubnets`, `ExpandGroups`, `ConvertHosts` | containment of port ranges; subnet relation and aggregates; groups; hosts and ranges |
| `NormalizeServices` | services become rules with lists of objects |
| `PathRules` | rules with one pair of zones; duplicates, adjacent subnets, reverse rules |
| `CheckRedundant` | redundant rules, in background |
| `ManagedLocal` | routers with `managed=local` |
| `CheckSupernet` | missing and transient supernet rules |
| `DistributeRules` | secondary optimization, ACLs of routers, and what they filter |
| `FindRoutes`, `PrintRoutes` | static routes; their code |
| `PolicyRules` | composes the modules of rules in the order of `SpocMain` |
| `AclObjects`, `CiscoAcl`, `IptablesChains` | addresses and protocols of ACLs in pass 2; optimization of Cisco ACLs; chains of iptables |
| `PrepareACLs` | `prepareACLs` of pass 2, composes the modules above |
| `MC...` | instances for TLC: constants that a `.cfg` can not express |
| `MessagesProofs` | proofs about `Messages` |
| `Pass2WorkersProofs` | proofs about `Pass2Workers` |
| `CodeDirProofs` | proofs about `CodeDir` and its refinement of `CodeStore` |
| `NatProofs`, `SetPathProofs`, `OrderProtocolsProofs` | proofs about `Nat`, `SetPath` and `OrderProtocols` |
| `ClusterProofs` | more proofs about `SetPath`: clusters of loops and bridges; extends `SetPathProofs` |
| `DataLemmas` | lemmas about sequences, least elements and recursive functions, used by the modules of proofs |

Definitions with `Mutant` in their comment are wrong variants of the definition behind them.  They are used by no
specification and show what would violate a property.

### Messages

A job is the control flow of `SpocMain` ("main") or of `checkRedundantRules` in the background
("bg").  Its program counter stands for a run of calls between two operations on channels:
`read`, `setup`, `rules`, ... send messages; `readStop` has called `stopOnErr` and `readWait` waits for
`<-c.ready`; `owner`, `unused`, `redundant` are sorting sections and `ownerFin`, ... wait in `finish`.

- A send on an unbuffered channel and its receive are one step (`Put`, `Emit`).  Errors and warnings
  are told apart; info, progress and diag messages behave like warnings.
- The copies made by `sortingSpoc` and `startInBackground` share `c.ready`, so `FromPrinter` and
  `FromSorter` may wake any job that waits.  This is how the code is written, and the reason for
  `messages_ready` below.
- `CollectMessage` takes a message from the buffer and prints it; `collectMessages` does nothing in
  between that another job can see.
- `stopOnErr` is called after reading, after services have been normalized and behind `printCode`.  `CleanChecks` says for each
  call that nothing behind it runs after an error in front of it.  It does not say that no code is printed after errors: those of owners, rules,
  NAT and routes are found between the last two calls, and `printCode` runs on.  What becomes of the code is said in `CodeDir`.
- `abort` of the parser ends the program with the messages printed so far (`ParseAbort`, `Abort`).

### Pass2Workers

`pc` is where `applyConcurrent` is.  `ReadInline`, `ReadAndStart`, `ReadFull` are the cases of its
switch, `InlineDone`, `StartNext`, `WaitForJob` call `waitAndCheck`.  `Finish(d, r)` is the return of
`pass2File` with its deferred send.  `Crash` is the Go runtime: an unrecovered panic, or all
goroutines asleep.  `ReadError` is an error of the scanner: the jobs started so far are waited for, then the program aborts.
`RemovePrev` may fail, too.  Result "fail" is a panic that `pass2File` does not recover, see the comments
there.  Pass 1 is a process that writes each name at most once and closes the pipe at some time.

### CodeDir

`dir` and `prev` give the content of each file, `Torn` for one that was opened and not completely
written.  Renaming of the old files, writing of a file and removal of `.prev` take several steps of
the file system, so a kill may come after any part of them (`Interrupted`, `Removed`).

- Errors end pass 1 in two ways.  `CompileError` is an error found by a `stopOnErr` in front of `printCode`: the directory is not touched.
  `LateError` is an error sent between `spoc.go:200` and `:224`: all files are written and announced, pass 2 replaces the code and removes
  `.prev`, and only then pass 1 fails.  Such a run is `Finished` like a successful one, and `last` is its policy: the next run compares with
  the files of the failed policy.  An error that reaches `max_errors` while files are written ends pass 1 in between; this counts as a kill (`Kill1`).

- Killed are processes, as by a signal; a power failure that loses written data is not modelled.
  A signal of the terminal also stops the child process `mv`.
- `linked` says that a code file is the same file in both directories, so writing to one writes to
  the other one.
- Left out: `<device>.raw`, `.devlist`, operation without `--pipe`, and the subdirectory `ipv6`,
  which is moved as a whole.  `newpolicy.pl` compiles into a fresh directory and moves it only after
  success; it is not affected by what is said of interrupted runs.

### SetPath and PathWalk

The topology is a bipartite multigraph: zones and managed routers are nodes, an interface is an edge.
A frame of `stack` is an active call of `setpathObj`; `CloseLoop` is the call that finds an active node,
`Descend` any other call, `Return` the return to the caller together with what the caller does with
the result.  The model chooses the order of zones and interfaces freely, the code takes that of its
input.  `ProcessObj` is `processObj` and `processRouter`.

In `PathWalk` one action `PathWalk(from)` stands for a call of `pathWalk` with "Router" and one with
"Zone".  The marks of earlier calls stay.  `walk` records the pairs of interfaces the function is
called with.  Marks are kept for each destination separately, so one destination is enough.  The
order of interfaces is that of their numbers here.

Left out: paths that start or end at an interface with pathrestriction (`intfClusterPathMark`,
`fixupZonePath`), secondary, virtual and loopback interfaces, names of partitions, and which elements of
pathrestrictions are ignored; only pathrestrictions that pass the check are looked at.

### CodeStore

What a user of the code directory relies on: a run replaces the code of all devices at once by that of the
policy it compiles, or leaves it alone; nothing is promised while a run is active or once a process has been
killed.  A run that fails may have done either: with early errors the code stays, with late errors it is that of the policy with errors,
but never a mix.  `CodeDir` implements it with the instance `Store`: its variables are mapped to the policy that is compiled, to the code
as it is visible between runs, and to whether a run is active or somebody has interfered (`StoreMode`).  This is checked as `ReplacesAtOnce` and
proved as `ImplementsCodeStore`.

### Nat

A domain is the set of zones that are connected by interfaces with equal binding (`FindNatDomain`, one
step per domain).  `LookupNat` builds the types and the lists of grouped tags.  `DistributeNat` is the loop that calls
`distributeNat`; frames of `stack` are calls of `distributeNat1` with the adjacent domains they still have to look at
(`ReachTwice`, `Deactivate`, `Proceed`, `Return` are the branches of its body).  After the first tag that is reached twice
the code distributes nothing else, because of `natErrors || ...`.  Zones, routers and tags are numbers, so that
the order of names, which the code uses, is the order of numbers; `topo.networks` has the order of `c.allNetworks`.

The address a network has in packets is stated by local conditions (`Fits`): a tag of the network that is
bound at an interface is in effect behind it and not in front of it, and nothing changes where no tag of it
is bound.  `TranslationFits` says that NAT sets are a solution of these conditions whenever no error is shown.

### The modules of rules

`PolicyRules` runs through the steps of pass 1 for a policy that is chosen in `Init`.  Variable `step` is the next step
of `SpocMain`, the action of a step is in the module named in the table; loops whose order matters are one action per
round (`OrderProtocols`, `ExpandGroups`, `ConvertHosts`, `CheckSupernet`, `FindRoutes`).  `CheckRedundantRules` runs concurrently
with `MarkManagedLocal` and the check of supernets, as the background job does; it is one step and reads nothing that these change, so only its
result matters.  Its error for equal rules with different values of `log` is left out: it is a late error (see `CodeDir`) and stops nothing there.

- The topology of zones and managed routers is a tree without NAT: paths are unique (`Hops`, `OnPath`), loops belong to
  `PathWalk`, translation to `Nat`.  Unmanaged routers link networks inside of a zone and matter for routes.
- A network is a zone, an address and a number of host bits; addresses have four bits, hosts are addresses of
  one network.  A packet is a pair of addresses and a protocol with port, sent from a network to another one.
- ACLs are sets of rules: deny rules and permit rules of a device, filtered first match by kind.  Rules
  that pass 2 may widen (secondary optimization) are widened before packets are looked at (`OptRules`).
- Reference definitions do not follow the code: what a service permits is computed from the groups as written
  (`Meaning`), what a router lets through from its ACLs, where a packet goes from its routes.

### PrepareACLs

Each step of `prepareACLs` is an action: parents of objects, optimization of `intfRules` and `rules`, joined port
ranges, ESP rules in front, protection of interfaces, final deny or permit, object groups, local filters; Linux devices get
chains instead.  The rules of the input have addresses of two bits and three ports.  Equal subtrees of a chain are one value in
the model; sharing of the variable `order` by several trees is kept.

## Runs

| run | shows | bounds |
|---|---|---|
| `messages` | no message lost or printed twice, each `stopOnErr` separates phases, success means no error, order of output, end of program | two messages per job, buffer of one, two texts, `max_errors` 2, with and without background job.  Two messages are needed to be sorted, to fill the buffer while its sender goes on, and to reach `max_errors` |
| `messages_ready` (violation) | the background job closes its channel while its sorter has still a message to send | one warning text is enough |
| `pass2` | each device once, bounded workers, success means all, end | four devices, 0 to 3 workers: fewer, as many and more devices than workers |
| `codedir` | files of announced devices are complete; unchanged devices are not generated; code that is reused belongs to the policy; with late errors the code is replaced as a whole | two devices, three policies which differ in one file, in both files and in the devices; three runs, one kill: a run before, the killed one and one after |
| `codedir_torn` (violation) | a code file half written by a killed run is reused by a successful run | two runs, one kill |
| `setpath` | loops, clusters, distances and the way to zone1 mean what path-walk.go takes them for | all topologies of 3 zones, 3 routers, 6 interfaces up to naming, each order of search.  They contain nested loops, loops with a common node, parallel interfaces, several partitions and isolated zones |
| `pathwalk` | the paths that are walked are those allowed by pathrestrictions | four topologies of 8 interfaces (loop with two tails, three parallel paths, two loops with a common node, two clusters), each with no pathrestriction, each possible pair and some larger or overlapping pathrestrictions; each destination; each zone1; paths of two sources are marked in each order (`MaxSources`) |
| `pathwalk_ends` (violation) | a search for a path that does not end | as `pathwalk` |
| `nat` | NAT sets fit to the bound tags at each router; combined NAT sets keep translations; addresses of `acl_use_real_ip` | a ring of three domains with at most one tag at each interface, a chain of four zones with up to two of three tags, a star with four zones and five tags; networks with one to three tags of each type.  The ring has the loops where a tag comes back to its origin, the chain has successive grouped tags, the star has groups of interfaces whose NAT sets differ by hidden tags |
| `acl` | optimized ACLs and iptables chains filter like the rules of the intermediate code; interfaces stay protected, log is kept | addresses of two bits, three ports, up to four rules of one family each (protocols, addresses, crypto, secondary rules, local filters, protected interfaces, chains): redundancy, adjacency and groups need two or three rules |
| `chains_order` (violation) | all rule trees of an ACL have the order of the last one | chains only |
| `rules` | from services to ACLs and routes: ranges nested, subnets marked, hosts covered, groups expanded, no pair of a rule lost, redundant rules may go, given access passes and finds its way, other access is blocked or warned about | about 2900 policies in twelve families, each varies one part of the pipeline and runs through all of it; four zones, two managed routers, four bits of address.  Two services or rules are needed to cover each other, two routers to trust each other, two networks of a zone for partial access |

Runs with `CHECK_DEADLOCK FALSE` describe programs that stop when they have ended; that they end is
property `Termination` there; `codedir` stops after its last run (`MaxRuns`).  The other ones check for deadlock: an algorithm always gets to its end, where
only a step `Done` or `Finished` is left that changes nothing.

### Disagreements of code and text

1. `messages_ready`: `background.go:27` says that `collectMessages` waits "until background job has
   finished, i.e. channel is closed".  But `finish` of the background job may be woken by the sorter of
   `checkUnusedGroups`, whose section of the main job runs at the same time.  Then the channel is closed while
   the sorter of the background job has still to send, and this send panics.
2. `codedir_torn`: code files are reused "if intermediate code hasn't changed" (`Changes:904`), but the
   code file itself may be torn.
3. `pathwalk_ends`: `pathMark` is said to return true or false.  With a pathrestriction at the only interface
   between a router of one cluster and a zone of another one it does not return: `getIntfLoop` attributes
   the interface to the loop of its router, `clusterPathMark` to that of its zone, and `clusterNavigation` steps
   from the exits to themselves.
4. `chains_order`: `findChains` says it stores "rule tree together with order of attributes", but it stores a pointer
   to one variable, which is sorted again for the next tree.

### Cases that properties leave out

Each guard stands for a case where the code does not do what the property says; without the guard TLC shows it.

- `NoStaleCode`: with two kills in a row (`MaxFaults = 2`, `MaxRuns = 4`) the code file left by a run
  that pass 1 did not finish meets intermediate files of another one, so complete but outdated code is reused.
  A directory `.prev` that is left over also keeps stale files.
- `WalkIsPaths` (`CommonBorder`): two interfaces of one pathrestriction at the border of a cluster and at the same node
  do not restrict a path that touches the cluster at this node only (`path-walk.go:947`).
- `ChainsSame`: protocols that are nested twice.  A protocol that is ignored as redundant takes its sub protocols with it
  (`spoc2/main.go:1409`), and only the last rule of a chain loses its goto (`main.go:2063`).
- `LogKept`: ESP and AH rules, which are moved in front of logged rules (`main.go:682`).  `IntfProtected` is about deny rules
  of the device as written: a final permit removes rules for interfaces although a deny rule may come before it.
- `OthersMarked` (`NestedTwice`): `find-subnets.go:577` marks a network without marking those that wait for it, although
  `:373` says that "bignet must be marked, if subnet is marked later".  `PendingIsMarked` states this; no run checks it.
- `ListsMeanGroups`: the reset of `user` is deferred to the end of `expandGroup1` (`expand-group.go:653`) and not to
  the end of the round, so a second automatic group in one list finds `user` without elements.
- `OnlyGivenPasses` (`StaleCache`): `findZoneNetworks` caches networks of a zone by address only, but the result lacks
  networks that are elements of the same rule.  A service with a rule for `any:[z3]` and `N2`, and another rule for
  `any:[z3]` alone, opens `N2` for the second rule without a warning.
- `OnlyGivenPasses` (`ConflictMissed`): `mark-secondary-rules.go:244` says that secondary optimization is disabled "for conflicting rules", but
  `collectConflict` looks for a rule with several networks at its other side with the first of them only (`pushed`, `:213`), and the rule in conflict
  must have exactly the same network there, not a part of it or one around it.  The guard leaves out policies where a rule is optimized although
  a rule for a supernet opens some of the addresses at its other side and not all of its networks there.  Conflicts with rules for the same network
  are checked in family `ConflictRules`, with the supernet at either side.  `ConflictsAreFound` states the whole; no run checks it.
- `OnlyGivenPasses` (`IsGivenAround`): the check of supernets ignores zones behind routers with `managed=local` that do not
  filter the packet.
- `GivenPasses` (`PartlyFiltered`): `filter_only` that matches a part of a network blocks access that was given to the
  whole network (`mark-managed-local.go:155`).
- `RoutesLead` (`InConnected`): `printRoutes` compares routes with each other but not with networks connected to the
  router, so a route to a part of a connected network vanishes in the default route (`print-code.go:288`), although
  `:355` says "still generate routes for small networks with supernet behind other hop".  `SubnetsKeepRoutes` states it;
  no run checks it.
- `CombinedKeepsAddress` (`MayBeSkipped`): `combineNatSets` skips a NAT map all tags of which it has seen
  (`nat.go:1131`).  With a network with tags `t` and `h` (hidden) and one with `t` only, the sets `{t}` and `{h}`
  combine to `{t}`, although the second network has its own address in one of them.
- `RealIpIsBehind` speaks of interfaces with different effective NAT.  Between two interfaces of the same group,
  `dstNatSet` is the combined set of the other group (`nat.go:1060`): with three interfaces, one of which has a bound
  tag, the ACLs between the other two use translated addresses that never occur there.

Other observations, outside of the models:

- `splitIpRange` works on 64 bits: a range of IPv6 addresses up to the last one overflows and does not end.
- `setNetworksBehind` uses a preliminary result if hops form a cycle (`routes.go:234`); three clusters with nine hops are
  needed, and the result depends on the order of a map.
- `printRoutes` chooses the hop of the default route by number of routes; with equal numbers the order of a map decides (`print-code.go:340`).
- `checkPathrestrictions` deletes elements from the slice it ranges over (`set-path.go:418`), so some of the elements it
  reports as ignored stay effective.
- Two identical rules of one service are both counted as duplicate; `oneway` is ignored by the check for
  redundant rules; `convert-hosts.go:240` looks at owner and NAT of the left half only.
- The exit status of pass 1 is the number of errors modulo 256.  With `concurrency_pass2 = 0` the channel has no
  buffer, the only goroutine waits for itself, and the Go runtime ends the program (`Crash` in `Pass2Workers`).

### Fairness

`Messages` and `Pass2Workers` assume weak fairness for each goroutine: the Go scheduler runs a goroutine
that can go on.  No fairness is assumed for the choice between several goroutines that wait for `ready`.
`ClosePipe` is fair because pass 1 ends (its `Termination`) and the operating system closes its pipe, also
if it was killed.  `Termination` of `Messages` has the premise that no `finish` has been woken by the sorter
of the other job (`ReadyOwn`); without it the panic of `messages_ready` is possible.  The other modules
state no liveness property.


## Proofs

Each proof module proves an inductive invariant of its component and derives the properties from
it, for every value of the constants that satisfies the named assumption (`ConstAssumption`,
`WorkersAssumption`, `CodeDirAssumption`, `NatAssumption`, `TopologyAssumption`, `FiniteAssumption`,
`AclObjectsAssumption`, `PortsAssumption`).  Each has the same layout:
`Init` implies the invariant, one lemma or step per action shows that it is preserved, the invariant implies
the property, and PTL combines these facts.

- **MessagesProofs.** The invariant adds to the types where each message held by a sorter or in the buffer
  may come from, which job may wait, and that the background job runs only between `startInBackground` and
  the end of its channel.  It has to say how far the shared `ready` mixes up jobs: a job that has passed
  `finish` may still have a sorter with messages.  `PhasesSeparated` needs that an error is counted in the
  step it is sent by `main`, that errors of the background job and of sorted sections have left their sorters and the buffer when `main` passes the last
  `stopOnErr` (`AllPrinted`, `LastCheck`), and that `printMessages` returns before it grants `ready`.  Theorems: `TypeCorrect`,
  `MessagesNotLost`, `PhasesSeparated`, `SuccessIsComplete`.

  The invariant `OrderInv` builds on that one: numbers of messages are new for their job (`Numbered`), of which
  stages messages in a sorter (`Held`), in the buffer (`OnTheirWay`) and in the output (`InOrder`) can be while `main`
  is at a given stage, that what is still held of a stage belongs behind what of this stage has already gone on, and
  that the sizes of these places add up (`Counted`).  Theorems: `MessagesConserved` (no message is lost or printed
  twice) and `OutputIsOrdered`, for each level of concurrency.
- **Pass2WorkersProofs.** The invariant relates the counters to the workers: in parallel mode `workersLeft`
  plus workers plus results in the channel is `concurrent`, and `started` is the number of jobs whose result
  has not been taken.  In sequential mode `started` runs below zero, which the invariant also says.
  Theorems: `WorkersTypeCorrect`, `WorkersStayBounded`, `SuccessIsForAll`, `DevicesHandledOnce`.
- **CodeDirProofs.** The invariant says which file pass 1 is writing and that announced devices have been
  written, that `.prev` has files only if it exists, and, as long as no process has been killed, how the content of
  both directories relates to the policy of the last run that finished, with or without late errors.  Theorems: `CodeDirTypeCorrect`,
  `AnnouncedIsComplete`, `SuccessIsCurrent`, `OnlyChangedIsGenerated`, and `ImplementsCodeStore`: each step of `CodeDir` is
  a step of `CodeStore` or leaves its variables alone, by the same invariant.

  What holds after one fault, in any step of any run: `OneFaultInv` says when code matches the two
  files of pass 1 beside it: in `.prev` whenever it can still be linked from there, in `CODE-DIR` up to the end of the run with the
  fault (`Before`), and afterwards for each device that the present run does not print (`After`); of those that it prints, what has been handled
  is of the present policy or a torn file (`Handled`).  Theorem: `CodeIsNotStale`.  A torn file that is reused is shown
  by the run `codedir_torn`.
- **NatProofs.** `NatInv` says of the traversal `distributeNat1`: each bound tag is active in its domain or its call is still to
  come (`Called`); each tag that is active in a domain has been passed to the domains next to it, or another tag of the
  same group takes over there, or an active call has still to do it (`Handled`).  This needs that ignoring the router
  where a call came from is justified by the caller, and what `NatMaps` keeps of the NAT maps (`NatMapsCover`).  Theorem: `TranslationsAreFit`,
  for every topology and every binding of tags.

  `DomainsInv` says what is known of domains themselves: each domain has the zone it is numbered by and
  each zone is in a domain (`DomainsKnown`), a border of a domain has the tags of all interfaces of its router to it
  unless an error is shown (`BordersKnown`), NAT types are those of the networks (`TypesKnown`), and the NAT set for
  `acl_use_real_ip` is the combined set of the domains at the other side (`RealIpKnown`).  Theorem `CombinedIsAgreed` is about
  `combineNatSets` for any list of domains: a real tag is kept if and only if all networks with this tag agree on it.
  Together they give `RealIpIsRight`, which joins both halves of the algorithm: the sets found by the traversal and their combination at one router.
  `NatAssumption` has finitely many links and tags that are positive numbers; `Cardinality` in `markNatDomains` and the order of names need that.
- **SetPathProofs.** `SetPathInv` is the largest invariant.  Redirection of loops ends; the distances of active calls increase
  and handled interfaces lead to reached nodes; loops of active calls start at active nodes and are younger in later calls; at each end of an interface
  with a loop the node is in the same outer loop, or is its exit, or has still to get it; the exit of each loop is in
  this loop or in one nearer to zone1.  The first part is about depth first search, where a loop found in a call
  is merged into loops found before; the last is needed for `setLoopClusterExit`, which follows exits and
  would not end otherwise: that it ends is shown by a least counterexample.  Theorem: `LoopsFormTree`, for all topologies over any sets of zones, routers and interfaces,
  finite or not.

  `StepsInv` rests on it and follows the steps of `findZone1`.  `processObj` gives all nodes of a cluster one
  distance, so `StepsDecreasing` does not hold of `dist` while loops are united; the invariant says that there
  is a distance that decreases with each step (`SearchDistance`, the one found by the search) and that `dist` differs from it only at nodes
  with a loop, where it is not larger.  Each node that has been left has a step unless it is zone1 (`StepsKnown`); steps and loops
  stay in their partition (`LoopsLinked`); partitions have their own ranges of distances, where the range of the
  partition in progress is bounded by the `max` of an active call (`Located`, `Partitioned`); a cluster exit is the exit of its
  own loop, which is not redirected (`OwnLoops`, `ClustersEnd`, `ClustersFound`).  Theorems: `DistancesDecrease`, and
  `FindZone1IsFound`: the walk that the model takes as often as there are nodes ends at zone1, since after `k` steps it has either arrived or left behind
  `k` nodes with larger distance.  This last argument counts nodes and needs `FiniteAssumption`.
- **ClusterProofs.** What clusters of loops mean is defined by the topology only: nodes are tied if they are connected without
  bridges, where a bridge is an interface whose ends are not connected without it.  The theorem `ClustersAreComponents` needs both directions.

  Nodes with the same cluster exit are tied: `TiedInv` says that each node with a loop is tied to the exit of its loop, each loop to the one it is
  redirected to and to its cluster exit, and each active call to all calls before it as far as the exit of its loop.  The step
  that needs an argument is an interface that leads back to an active node: it closes a cycle with the interfaces of the calls in between, so none of
  them is a bridge (`CycleTied`).

  Tied nodes have the same cluster exit: `TreeInv` says of each active call that from the nodes reached since it was
  called an interface leads to other nodes only if it is the interface of the call, has still to be handled (`Open`), or leads to
  an active node where a loop of a later call starts (`Back`).  When `setpathObj` returns no loop, the last two can not be, so its interface is the
  only one that leads out of these nodes (`Encloses`), a bridge.  Each cluster exit is such a node, so of two tied cluster exits
  each is in the nodes enclosed by the other, and the distance found by the search increases from a node to those that it encloses.
  Theorems: `ClustersInvariance`, `ClustersAreComponents`.
- **OrderProtocolsProofs.** `PrtSpec` is `orderRanges` alone, for any set of services: its actions and, for the rest of the program, steps that
  leave its variables alone once it has ended (`OtherSteps`).  `checkSubrange` works on a list that it changes while it walks
  along it.  `PrtInv` says that the list stays sorted and has each range once when `findOrInsertRange` adds to it behind the
  current position (`RangesInv`), that each range before this position is in the tree or has been split into two parts that are in the list behind it (`DoneInv`,
  `SplitInv`), that active calls are nested and closed calls end in front of the current range (`ActiveInv`,
  `PassedInv`), and that the tree so far is nested with `up` as the smallest range around (`UpInv`).  Theorem: `RangesAreNested`, for any
  number of ports; that parts of a split range together have its ports, and that
  splitting ends, follows from each half being narrower than the range, by a least counterexample.  `PolicyRules` takes these steps or leaves the variables alone, so it implements `PrtSpec`; this
  refinement has been checked with TLC for the instance of run `rules`.
- **DataLemmas.** The library states induction with an operator as parameter, which the installed provers can not
  instantiate.  These lemmas are the replacement of first order: a nonempty set of naturals has a least element, and a function given by
  recursion over a well-founded measure exists and solves its equation (`RecursiveFunction`).  They make the recursive functions
  of `Nat` and `SetPath` known to the provers.

Only model-checked:

- `LoopsAreCycles` of `SetPath`.  That any two interfaces of a loop have a common simple cycle is a theorem of graph theory
  about two disjoint paths between them, which would have to be proved here first, by induction over sets of interfaces.
- `PathWalk`, `PrepareACLs` and the modules composed by `PolicyRules`: they use recursive operators, which
  exclude proofs in their modules, and their properties compare sets of packets or of paths before and after an algorithm.
  Those about hosts, networks, rules and routes also rest on blocks of addresses of size `2^n`, and the provers know nothing of `2^n` for a variable `n`
  (not even that it is twice `2^(n-1)`); assumptions would be needed for that, and no proof here has any but those on its constants.
- Liveness (`Termination`), which is out of reach of the proof system with fairness.


## Plan

Done so far: messages, workers, code directory with its abstract specification, paths, NAT, rules from services to
ACLs and routes, optimization of ACLs.  What is left, in this order:

1. `Pathrestrictions`: `checkPathrestrictions` and `removeRedundantPathrestrictions` on slices with shared
   memory, composed with `PathWalk`.
2. `PathWalk`: sources and destinations at interfaces with pathrestriction (`intfClusterPathMark`,
   `fixupZonePath`).
3. Composition of `Nat` with the modules of rules: subnets and supernet rules in several NAT domains, checks of rules
   with dynamic NAT.
4. Zones and areas, disabled parts of the topology, crypto.
5. Cut and editing commands.


## Not modelled

- Reading of input: a recursive descent parser without state except its position; only its abort is in `Messages`.
- Objects of the topology: construction of linked objects and checks of single attributes.
- Zones and areas: zones, areas and their borders are given to the modules of rules.
- Export, cut and the editing commands: they work on finished results or on the syntax tree, and are planned.
- Crypto, redundancy groups, bridged networks, policy distribution points and owners, in all modules of rules.
- Syntax of device configurations, formatting of messages, conversion of addresses, configuration files and command line
  options: they have no state that outlives a call, and tests in `src/t` compare their output.
