# A verification project for Augur

Augur is a daemon that watches established `sshd` connections on a macOS host
and sends SIGTERM to the sessions whose SSH key it does not recognise. This
directory holds TLA+ modules that model it, TLC configurations that check them
on small instances, and TLAPS proofs of the properties that matter most.
`PROJECT.json` maps every definition to the lines it models, and lists the
runs, the mutants, the theorems, the hazards and the findings.

## The system: inventory

| Component | State | Operations | What is hard about it |
|---|---|---|---|
| Entry point (`cmd/augur/main.go`) | flags, context | load configuration, wire the parts, `-once`, `-dry-run`, stop on SIGINT/SIGTERM | started again by launchd with nothing in memory |
| Scan loop (`monitor.go`) | `terminated`, `inventory`, `inventoryExpires`, `nextProbe` | `Run`, `Scan`, `scanNetworkInventory`, `NetworkInventory` | works on a snapshot while sessions come and go; every dependency can fail; keys can be reused |
| Discovery (`lsof.go`, `connection.go`) | none | `Discover`, `Verify`, `ParseLsofOutput` | a line protocol with state carried between fields |
| Identity resolver (`identity.go`) | `identities`, `lastRefresh`, `lastError` | `Resolve`, `refresh` | cache, throttle, log window, pid reuse |
| Enforcer (`process.go`) | `visited` | `Terminate`, `terminateTree` | walks a process tree that changes; time of check and time of use |
| Policy (`config.go`, `monitor.go`) | the configuration | `MatchNetwork`, `MatchDevice`, `observationAllows`, `observationTerminates`, `Validate` | two forms of an address, lists that interact |
| Network prober (`probe.go`) | goroutines and channels of one scan | `Probe`, `scanTCP`, `probeAddress`, `expandProbePrefixes`, `combineObservations`, `enrichOS` | a worker pool under cancellation; limits at powers of two |
| Parsers (`probe.go`, `identity.go`) | none | ARP, NDP, nmap XML, auth log | text only |
| Installers (`scripts/`, `packaging/`) | files of the host, launchd | install, uninstall | order of checks and copies, partial failure, reboots |

How they interact: `Run` calls `Scan` at once and then at every tick. A scan
first refreshes the network inventory (audit only), then asks the discoverer
for a snapshot, and for each connection asks the resolver for its keys, the
policy for a verdict, and, when the verdict is to terminate and the connection
is not in `terminated`, the enforcer to terminate it. All of this is one
goroutine; the concurrency is with the host (sshd, users, the log, other
processes), with cancellation, and inside `scanTCP`.

What makes each part correct: the scan loop signals a session at most once,
never against the policy, and reaches every condemned session in the end; the
enforcer signals the session and what is below it, and nothing else; the
resolver attributes a key to the session that used it, or to none; the policy
does not depend on how an address is written; a scan of the network is complete
or an error; the inventory is fresh and never in the way of enforcement; the
installer keeps what it found and starts nothing that is not complete.

## Modules

| Component | Specification | Instance | Proofs |
|---|---|---|---|
| Admission policy | `Policy`, `PolicyCases` | `MCPolicy` | `InputProofs` |
| Scan loop, enforcement | `Monitor` | `MCMonitor` | `AugurProofs` |
| Scan loop, inventory; `Probe` | `Inventory` | `MCInventory` | `ProbeProofs` |
| Identity resolver | `IdentityResolver` | `MCIdentityResolver` | `IdentityProofs` |
| The daemon: loop and resolver | `Augur` | `MCAugur` | `AugurProofs` |
| Enforcer | `TreeTerminator` | `MCTreeTerminator` | `TreeProofs` |
| TCP scan | `TCPScan`, implementing `ScanResult` | `TCPScan` | `TCPScanProofs` |
| Targets and observations | `ProbeTargets`, `Observations`, `ProbeCases` | `MCProbe` | `ProbeProofs` |
| lsof parser | `LsofParser` | `MCLsofParser` | `InputProofs` |
| macOS installer | `Installer` | `Installer` | in the module |

`Places` has the lemmas about sequences that several proofs need: a nonempty set
of places has a greatest and a least one, induction over places, and that the
recursion of a fold has a solution.

How state and actions correspond to the code:

* `Policy` has the pure functions of the admission decision as operators with
  the names of the Go functions. `PolicyCases` puts every configuration and
  connection of an instance through them.
* `Monitor` is `Run` and `Scan`. `Discover` and `DiscoverFails` are the call of
  lsof, `Examine` one round of the loop over the snapshot up to the decision,
  `Verify`, `Signal` and `TerminateFails` the call of the enforcer, `EndScan`
  the clean-up of `terminated`, `Tick`, `Stop` and `Cancel` the `select` of
  `Run`. `Connect`, `Disconnect` and `Restart` are the host and launchd.
  Resolver and enforcer appear through their interfaces: any answer, any error.
* `IdentityResolver` is one resolver over the life of several sessions: `Resolve`
  with its throttle, `ReadLog` or `LogFails`, the merge into `identities`, the
  lookup, and `CompareStart` or `ProcessStartFails`. The log is a sequence of
  authentications of which a command prints the last `Window` ticks.
* `Augur` puts the resolver in the place of the arbitrary answer. Both see the
  same processes; the step in which `Resolve` returns is the step in which
  `Scan` judges (`Judge`). `Monitor` is its abstraction. A session is history: the
  code only has the connection of the snapshot. When several sessions have had
  that very connection, `Resolve` is called on behalf of the one that lives.
* `TreeTerminator` is one call of `Terminate`. The recursion is a stack of
  activations; each ps, pgrep, lsof and kill is a step of its own, and between
  them processes fork, exit and get pids that were in use.
* `TCPScan` is `scanTCP` and `probeAddress`: producer, workers, closer,
  collector and context, one action per channel operation. `ScanResult` is what
  a scan promises: the complete result or an error, and an error only after
  cancellation.
* `ProbeTargets` has the checks and the expansion of networks to addresses, with
  the word widths as parameters; `Observations` has `combineObservations` and
  `enrichOS`. `ProbeCases` runs them in the order of the program, from the file
  to the observations, over every configuration of an instance.
* `Inventory` is the same pipeline in time: `scanNetworkInventory` and `Probe`
  step by step (arp, ndp, dials, arp, ndp, nmap), each of which may fail, while
  hosts come and go, the clock runs and the inventory expires.
* `LsofParser` is `ParseLsofOutput`: `ScanProcess` and `ScanField` read one line
  each, `next` is the place of the next one; `FlushError`, `PidError` and
  `ScanError` are the three ways to return an error.
* `Installer` is `install-macos.sh`, one action per command, with failures,
  repeated runs, `--dry-run`, `--uninstall`, edits by the administrator and
  reboots.

A TLA+ variable that stands for a Go variable has its name (`terminated`,
`active`, `identities`, `lastRefresh`, `visited`, `openPorts`, `results`,
`nextProbe`, `inventoryExpires`, `record`); `pc`, `rpc`, `stack` and `wpc` are
control state; `signals`, `signalled`, `sent`, `tree`, `late`, `seen`, `polled`,
`steady`, `met`, `source` and the fields of `answer` are history that only the
properties read. Definitions introduced by "Mutant:" are in no specification:
each is a plausible bug in place of the definition after it, and shows that a
property can fail.

### Abstractions

* Addresses in the policy are records `[ip, mapped]` and a CIDR is the set of its
  addresses; in the probe they are numbers with a family. Keys and fingerprints
  are atoms. Slices whose order only affects what is logged are sets.
* A session in `Monitor` is one sshd process with one connection. A pid in use is
  not handed out, and the pid verified last is not recycled between that
  verification and `kill`: the code cannot defend itself in that window.
  `TreeTerminator` makes the same assumption for the root only.
* `Monitor` takes what the enforcer does before its last verification as part of
  failing or not; `TreeTerminator` is the detailed view.
* `TreeTerminator`: exited processes are reaped at once. `main` always provides a
  verifier, so the branch for a missing one is left out.
* `IdentityResolver`: `log show` prints records in the order of time.
* `TCPScan`: a dial has one outcome, fixed per scan; one that is interrupted by
  cancellation finds nothing.
* `Inventory`: the pool of workers is reduced to one dial after the other, which
  `ScanResult` justifies. The kernel resolves the address it dials, an entry does
  not leave the cache between the dial and the end of the probe, and arp and ndp
  exit with 1 and no output only when their table is empty.
* `LsofParser`: an endpoint is its port and whether it parses, a pid whether it
  is a number, and the connections found are a set. The output begins with a
  process, and no line p has a zero; otherwise lines may be missing, repeated
  and in any order. That lsof prints the items of field T on lines of their own
  (`TST=`, `TQR=`, `TQS=`) is how lsof documents its field output; which items
  there are depends on the system.
* `Monitor` takes a session for listed when it is established on a monitored
  port. Where the finding `lsof_readme` applies, nothing is listed and `Monitor`
  says how the daemon would behave if the parser kept the state.

## Runs

| Run | Instance | Shows |
|---|---|---|
| `monitor` | 4 sessions on 2 pids (s1 and s2 share pid and endpoint, s3 their pid), 2 configurations with and without dry-run, 3 wirings, 1 restart, fair | `AtMostOneSignal`, `SignalledIsRemembered`, `PolicyProtects`, `UnrecognizedIsTerminated` |
| `policy_cases` | one device, subsets of 3 networks, one allowed and one terminated entry with or without blanks, 8 connections in both address forms, 2 key sets | `FormIrrelevant`, `RestrictionNarrows` |
| `identity` | 2 sessions with one key, 2 ticks a second, window of 3 ticks, 7 ticks | `IdentityIsOwn`, `KnownStaysKnown`, `FoundAfterASecond` |
| `augur` | 2 sessions with one pid and endpoint, one recognised, window of 1 tick, 3 ticks, 1 restart | `RecognisedKilledOnlyFor`, `ImplementsMonitor` |
| `augur_readme` (violation) | 2 sessions of one device, no restart | `AuthenticatedSurvives` fails |
| `tree` | every forest of 4 processes with their own pids; 5 processes on 3 pids, fair | `NoPidTwice`, `RootLast`, `RootSignalHitsSession`, `OnlyTreeSignalled`, `NoOrphanLeft`, `AlwaysReturns` |
| `tcpscan` | 0 to 2 targets, 2 ports, concurrency 0 and 3, fair | `CompleteOnSuccess`, `NoSendOnClosed`, `ReturnIsQuiet`, `AllGoroutinesEnd`, `ImplementsScanResult` |
| `probe_cases` | every IPv4 CIDR of 4 bits, IPv6 CIDRs of 7 bits, words of 6 bits, pairs that nest and overlap, limits from 0 to above the cap, 3 sets of subnets | `TargetsExact`, `LimitsAgree`, `OnlyPrivateProbed`, `OnlyLocalProbed`, `OpenHostsObserved`, `NewestMac` |
| `inventory` | 2 IPv6 networks of one host each, both of which listen, an outside IPv4 neighbour, 3 ticks, 2 arrivals or departures, nmap for one host, fair | `ServedIsFresh`, `SteadyHostsObserved`, `NothingInvented`, `OnlyOpenFingerprinted`, `ProbesSpaced`, `EnforcementGoesOn` |
| `lsof` | a process over all combinations of command, user and up to two files with state and queue lines, then one with less or a line that is an error; with and without a filter | `ListedExactly`, `FailsExactly` |
| `lsof_readme` (violation) | the same | `EstablishedListed` fails |
| `installer_docs` (violation) | one host | `NeverOverwritten` fails |

The runs `monitor`, `identity`, `tcpscan` and `inventory` also check the type
invariant of their module. Deadlock is checked in every run: a stopped daemon, a
finished scan and a returned call have an explicit stuttering step, and nothing
else may be stuck.

### Bounds

* `MaxRestarts` (Monitor, Augur): one restart separates a daemon with memory from
  one without; a second adds nothing, since a restart forgets everything.
* `MaxTime` with `TicksPerSecond` and `Window` (IdentityResolver, Augur): two
  ticks make a second, so that ps rounds; in `identity` the window is longer than
  the throttle and shorter than the run, so that records persist and expire.
  In `augur` the window is shorter than a second; the excuse of the throttle in
  `RecognisedKilledOnlyFor` is needed all the same (without it the run fails: the
  log is read, the session authenticates in the same tick, and the next call
  answers from the map while the record is still inside the window).
* `MaxTime`, `MaxFlips`, `Interval`, `MaxHosts`, `OSMaxHosts` (Inventory): the
  clock allows a probe, the expiry of its inventory and another probe; two flips
  let a host leave and come back; nmap may take one host of the two that listen.
  Hosts without an open port, which are known by their MAC alone, are in
  `probe_cases` and in the theorems.
* `V4Bits`, `V6Bits`, `WordBits`, `MappedBase`, `MaxHostsCap`, `PrivateBlocks`
  (ProbeTargets): the real values are 32, 128, 64, ::ffff:0:0, 65536 and the
  private ranges. The small ones keep their relations: IPv4 shorter than a word,
  IPv6 longer, so that the guard on the shift is needed; the cap no larger than
  the smallest private block, on which `OnlyPrivateProbed` rests.
* Sessions, processes, hosts and ports: two sessions with one key are what
  `terminated` and `identities` can confuse, a third beside them makes the loop
  stop in the middle, and one with the same pid from another address is what
  revalidation is for. A pool of one worker for two targets makes the producer
  wait, one of three is clamped. Four processes make a chain of three below the
  root, or a fork beside a subtree; three pids for five let the root's pid come
  back inside the walk. For the theorems below none of these bounds matters.

### Fairness

`Monitor`: the daemon's own steps are weakly fair, it is a running process. lsof
and the enforcer's verification are strongly fair: they may fail any number of
times, but not always; without that nothing can be promised, as a failure is only
logged. Tick and Stop follow from the ticker and the `select`. Nothing is assumed
of sessions, cancellation or restarts. `TCPScan`: goroutines are scheduled and
every dial has a timeout. `TreeTerminator`: each command ends. `Inventory`: the
daemon's one goroutine goes on, which assumes that arp, ndp and nmap end (only
nmap has a timeout of its own), but not that any of them succeeds. None of them
assumes that processes exit or that the context is cancelled.

## Findings

* `lsof_readme`: README.md:4 says that Augur "monitors established `sshd`
  connections on configured ports". Field T of lsof is all TCP and TPI
  information, one item a line, and every line T overwrites what the parser knows
  of the state (lsof.go:168-170). Where lsof prints the sizes of the queues after
  the state, no session is ever listed and nothing is enforced. The tests of the
  parser only have lines `TST=`.
* `augur_readme`: README.md:4 promises that sessions are terminated "whose
  authenticated SSH key is not recognized". Within a second of a refresh the
  resolver answers from its map, and `Scan` takes a missing record for an
  unrecognised key: a session that authenticates with a recognised key after the
  log was read is terminated by a poll in the same second, without any failure.
  `RecognisedKilledOnlyFor` lists the other ways: an error of log or ps, a log
  window that no longer reaches back (a restart of the daemon), a pid and socket
  taken over after the poll.
* `installer_docs`: install-macos.sh:18-19 says that existing SSH configuration
  is never overwritten. An existing drop-in is announced as left untouched and
  then overwritten by line 112.

Another divergence is seen by reading alone: README.md:6 says that
`allow_addresses` "always permits listed source addresses", but `Validate` trims
the entries (config.go:166) and `observationAllows` does not (monitor.go:143), so
that a padded entry is accepted and ignored. `Policy` has padded entries, and the
properties of `policy_cases` hold with them.

`UnrecognizedIsTerminated` has to except a session that takes over the pid and
the remote endpoint of one that is gone: until a scan runs without it, it is
taken for the one already terminated. `OnlyTreeSignalled` and `NoOrphanLeft` have
to except hosts that recycle a pid during the walk: children are signalled
without validation. Further hazards that no property covers are listed in
`PROJECT.json` with the reason.

## Proofs

Every safety invariant and action property that a passing run checks is a theorem,
for every value of the constants, under the named assumptions. TLC evaluates each
of them on the instances of the runs:

* what the program has checked before: `ConfigsLoaded`, `CasesLoaded`
  (configurations pass `Validate`), `MainWires` (main provides all dependencies),
  `InventoryConstants` (networks that passed the checks and contain no
  IPv4-mapped address, a positive interval, outsiders that are outside);
* what the inputs are: `CasesTyped` (the records of a case have their fields),
  `OutputsTyped` (lsof prints lines of the fields it was asked for, the
  first of them a pid), `LocalsUnmapped` (no local subnet
  contains IPv4-mapped addresses), `TreeConstants` (the root is an sshd session;
  launchd is not one of the modelled processes);
* numbers: `ConstantsOK` (finitely many hosts, integer concurrencies), `ClockOK`,
  `ResolverConstants` (a second has ticks, nobody is not a session), `WidthsOK`
  and `BlocksOK` (the relations between widths, cap and private ranges listed
  under Bounds), `PowersOfTwo` (2^0 = 1 and 2^(n+1) = 2 * 2^n, for which the
  provers have no rule).

`AugurProofs`, the scan loop: type correctness and the three safety invariants.
None is inductive alone. A session is signalled once because `terminated` still
holds its key (`SignalledIsRemembered`) when the loop tests it; the key survives
the clean-up because the loop has met or will meet the session (`SeenByScan`); it
will because the session was signalled on a monitored port (`PolicyProtects`);
and that holds because what is signalled is on the socket that was verified
(`VerifiedOK`), which is the connection that was condemned (`CurOK`).
`TerminableWithoutKeys` carries the policy across: who is terminable with some
keys known is terminable with none, and only the endpoint matters then.

`AugurProofs`, the daemon: every step with the real resolver is a step of
`Monitor`, or a stutter (`DaemonRefinement`), so `AtMostOneSignal` and
`PolicyProtects` hold of the daemon (`DaemonSafe`); and its resolver behaves as
`IdentityResolver` (`ResolverRefinement`). The invariant says that the map holds
sessions that have started, under their own key, so that the answer is one that
`Monitor` allows. With the refinement the invariant of the resolver holds in the
daemon (`ResolverInvariant`), and `DaemonExcused`, that is
`RecognisedKilledOnlyFor`, follows from it and three more facts: what holds a pid
of the snapshot since before the poll is on the connection that the snapshot
shows (`SnapshotOK`), `Resolve` works for that session (`AskedOK`), and until the
enforcer is done the answer is still the one that condemned it (`AnsweredOK`).
So a session signalled without an error either came after the poll, or its
record was not found; then the resolver's `RefreshOK` says that the record is
outside the window or younger than the last refresh. TLC refuted a first version
in which `Resolve` could be on behalf of a dead session with the same connection
as a living one: that choice is the model's, not the program's, and was removed.

`IdentityProofs`: type correctness, `IdentityIsOwn`, `KnownStaysKnown` and
`FoundAfterASecond`. The record of a living session is the last one of its pid in
the log, because the pid is not used again before it ends (`LogOK`). So a refresh
that reads any later part of the log does not replace it, and a record that was
read once stays in the map (`SeenOK`). What a successful refresh has not read is
outside the window or younger than the refresh (`RefreshOK`), and a lookup
follows a refresh that is less than a second older than the call (`CallOK`). The
map after a refresh takes the last record of each key, the largest of a set of
places (`Places`).

`TreeProofs`: all five safety invariants of the walk, for every host. First,
`WalkInv`: activations are on different pids, every marked pid is on the stack or
signalled and never both, and only the one just entered is not marked; hence
`NoPidTwice`, and, with the root at the bottom of the stack, `RootLast`. At the
last signal the root's pid is held by the session that was verified (`AimOK`).
Second, `TreeInv`, where no pid is recycled: processes are a forest (`ForestOK`),
the stack is a path in it (`PathOK`), and a child older than the walk is listed,
being visited, or signalled (`CoveredOK`). The one argument that is not local is
that a child which is passed over has been signalled: it is marked, and it cannot
be an activation, because the processes between the two would be a cycle
(`NotAncestor`).

`TCPScanProofs`: type correctness, `CompleteOnSuccess`, `NoSendOnClosed`,
`ReturnIsQuiet`, and the safety part of the refinement to `ScanResult`. The
invariant is conservation of targets: until the context is cancelled a target is
unsent, held by a worker, in the buffer, or recorded exactly (`Conserved`), what
workers hold is exact (`ExactOK`), and goroutines stop in order (`OrderlyOK`,
`HandshakeOK`). That at least one worker exists (`SomeWorker`) rests on the clamp
and on the early return for no targets.

`ProbeProofs`, the pipeline: `CaseInv` says that a configuration that was loaded
passed validation and that the targets are the expansion of its networks.
`WithAddresses` and `WithPrefixes` give the result of the two loops for any
number of networks: the addresses of all blocks, each once. `BlockExact` says
what one block is (the hosts of the network without those reserved), as long as
no shift overflows, which validation has excluded. `PrivateWhole` is why testing
one address is enough: the networks are no larger than the private blocks, sizes
are powers of two, so one that shares an address with a block lies inside it
(`Nested`). `Combination` says what `combineObservations` keeps of the readings:
for each address its ports, and the last MAC that is not empty.

`ProbeProofs`, the inventory: `InventoryInv` has type correctness, what the steps
of a probe hold (`LocalsOK`, `PortsOK`), that a host that has been up since the
probe began is in the tables or readings of the steps passed (`SteadyOK`), that
what is stored comes from a probe that met it (`ContentsOK`), and how probe,
expiry and clock are related (`TimesOK`). One lemma a part, one step an action.
That few hosts are fingerprinted is a counting argument (`NmapBounded`): the
number of smaller addresses with an open port tells the hosts given to nmap
apart, and is below the limit. The inventory is older than the probe under way
(`BeginsLater`), which tells a probe that stored that it found nothing from one
that failed.

`InputProofs`, the policy: everything that compares an address unmaps it first,
and a device with networks passes a subset of the tests of one without.

`InputProofs`, the lsof parser: `ParserInv` says that the lines before `next`
are no errors, that the connections are those of the processes before the
current one, none of which had to fail (`Done`, `Clean`), and that the record is
what the lines of the current process read so far make of it (`RecordOf`: the
last command, the last login name or the first user id, all names, the last
state). It is the invariant that fails if a field of one process reached the
next. A line adds the greatest place to those of its field (`SeenNext`); when the
next process or the end is reached, the lines read since the last pid are exactly
those of that process (`AllRead`), so flush takes its connections
(`FlushedBefore`). Nothing is assumed of the order of the lines.

`Installer`: `Progress` relates the position in the script to the files; from it
follow `ConfigAndDaemonKept`, the part of the documentation's promise that is
true, and `StartedComplete`.

Only model-checked: liveness (`UnrecognizedIsTerminated`, `AllGoroutinesEnd`,
`AlwaysReturns`, `EnforcementGoesOn`) and the fairness part of
`ImplementsScanResult`, which are beyond the prover. The invariants that the
proofs need were checked on the instances of the runs, or smaller ones, as well.

## Not modelled

* Text formats: log lines, ARP and NDP tables, nmap XML, JSON, the text of lsof
  endpoints. The functions keep no state; what they extract is an input.
* Defaults of the configuration, the log level, flag parsing, `newLogger`,
  logging: no behaviour that a property could be about.
* `localInterfacePrefixes`: the subnets are an input (`LocalSets`), read once.
* `install.sh` and the packaging: `install.sh` copies a binary and a missing
  configuration; `KeepAlive` of the LaunchDaemon is the `Restart` action.
* Real time: how late a scan may be when a probe takes long.
* The composition of the scan loop with the walk of the enforcer: `Monitor` needs
  of it that an error or a success tells whether the session was signalled,
  which is `RootLast`, and that nothing else with its pid was, which is
  `RootSignalHitsSession`; the two are proved, their composition is not.
