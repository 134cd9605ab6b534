----------------------------- MODULE Inventory ------------------------------
(***************************************************************************)
(* The network inventory of the scan loop: scanNetworkInventory and        *)
(* NetworkInventory of internal/monitor/monitor.go with                    *)
(* SystemNetworkProber.Probe, readNeighbors and enrichOS of                *)
(* internal/monitor/probe.go, inside the loop of Run and Scan.             *)
(*                                                                         *)
(* A probe reads the neighbour caches (arp, then ndp), dials every target, *)
(* reads the caches again, combines the readings and lets nmap fingerprint *)
(* the hosts that answered.  All of it happens in the goroutine that       *)
(* enforces the policy, while hosts come and go.  The pool of scanTCP is   *)
(* reduced to one dial after the other and to failure by cancellation,     *)
(* which is what ScanResult promises; the limits and the local check are   *)
(* in ProbeTargets and may only make the probe fail here.                  *)
(*                                                                         *)
(* The kernel, external: a dial on the link resolves the address, so that  *)
(* the cache has its MAC if the host is up and an incomplete entry if not; *)
(* an entry may disappear, but not between a dial and the end of its probe. *)
(* arp and ndp exit with 1 and print nothing only if their table is empty. *)
(***************************************************************************)
EXTENDS Observations

CONSTANTS
    Networks,    \* Config.ProbePrefixes: the prefixes to probe
    MaxHosts,    \* settings.MaxHosts, within the limits of Validate
    OSMaxHosts,  \* settings.OSDetection.MaxHosts
    Interval,    \* settings.Interval
    Listeners,   \* the hosts that accept connections while they are up
    Outsiders,   \* neighbours outside the prefixes, which never change
    MaxTime,     \* bound on the clock
    MaxFlips     \* bound on the arrivals and departures of hosts

Targets == ToSet(expandProbePrefixes(Networks, MaxHosts).targets)

(* The networks have passed the checks of Probe: no interface has a subnet *)
(* with IPv4-mapped addresses in it, so that none of them has one.         *)
ASSUME InventoryConstants ==
    /\ Networks \in Seq(Prefix)
    /\ \A i \in DOMAIN Networks : \A n \in MappedBase..(MappedBase + 2^V4Bits - 1) :
          ~InPrefix(Networks[i], [fam |-> 6, n |-> n])
    /\ expandProbePrefixes(Networks, MaxHosts).ok
    /\ OSMaxHosts \in Nat
    /\ Interval \in Nat \ {0}
    /\ Listeners \subseteq Targets
    /\ Outsiders \subseteq Addr /\ IsFiniteSet(Outsiders)
    /\ \A a \in Outsiders : ~containsPrefix(Networks, a)
    /\ MaxTime \in Nat \ {0} /\ MaxFlips \in Nat

VARIABLES
    now,              \* the clock
    up,               \* the targets at which there is a host
    cache,            \* address -> its entry in the neighbour cache
    flips,            \* arrivals and departures so far
    ctxDone,          \* the context is cancelled
    probing,          \* "off", "no prober" or "on"
    pc,               \* where Run, Scan and Probe are
    nextProbe,        \* m.nextProbe, or Zero
    started,          \* the local variable now of scanNetworkInventory
    before, after,    \* the neighbours read
    undialled,        \* targets not dialled yet
    openPorts,        \* what scanTCP has found
    observations,     \* what Probe is about to return
    inventory,        \* m.inventory
    inventoryExpires, \* m.inventoryExpires, or Zero
    steady,           \* targets up since the probe began
    met,              \* targets up at some moment of the probe
    source            \* the probe that inventory comes from: [start, met]

vars == <<now, up, cache, flips, ctxDone, probing, pc, nextProbe, started,
          before, after, undialled, openPorts, observations, inventory,
          inventoryExpires, steady, met, source>>
host == <<now, up, cache, flips, ctxDone, probing>>
throttle == <<nextProbe, started>>
readings == <<before, after, undialled, openPorts, observations>>
stored == <<inventory, inventoryExpires, source>>
witness == <<steady, met>>
-----------------------------------------------------------------------------
(* The zero time.Time: the clock starts later. *)
Zero == 0
Nothing == << >>
Cached == Targets \cup Outsiders
Reading == {"arp before", "ndp before", "arp after", "ndp after"}
Probing == Reading \cup {"tcp", "combine", "nmap"}

Init ==
    /\ now = 1
    /\ up \in SUBSET Targets
    /\ \E known \in {{}, Outsiders} :
          cache = [a \in Cached |-> IF a \in known THEN "complete" ELSE "absent"]
    /\ flips = 0
    /\ ctxDone = FALSE
    /\ probing \in {"off", "no prober", "on"}
    /\ pc = "scan"
    /\ nextProbe = Zero
    /\ started = Zero
    /\ before = << >> /\ after = << >>
    /\ undialled = {}
    /\ openPorts = Nothing
    /\ observations = Nothing
    /\ inventory = Nothing
    /\ inventoryExpires = Zero
    /\ steady = {} /\ met = {}
    /\ source = [start |-> Zero, met |-> {}]
-----------------------------------------------------------------------------
(* The network.  Time passes, and entries of the cache expire, while the   *)
(* daemon dials or waits for the next poll: what passes during its short   *)
(* commands is counted there.                                              *)
ClockTick ==
    /\ now < MaxTime
    /\ pc \in {"tcp", "wait", "stopped"}
    /\ now' = now + 1
    /\ UNCHANGED <<up, cache, flips, ctxDone, probing, pc, throttle, readings,
                   stored, witness>>

Arrive(a) ==
    /\ a \notin up /\ flips < MaxFlips
    /\ up' = up \cup {a}
    /\ met' = IF pc \in Probing THEN met \cup {a} ELSE met
    /\ flips' = flips + 1
    /\ UNCHANGED <<now, cache, ctxDone, probing, pc, throttle, readings,
                   stored, steady>>

Leave(a) ==
    /\ a \in up /\ flips < MaxFlips
    /\ up' = up \ {a}
    /\ steady' = steady \ {a}
    /\ flips' = flips + 1
    /\ UNCHANGED <<now, cache, ctxDone, probing, pc, throttle, readings,
                   stored, met>>

Expire(a) ==
    /\ cache[a] # "absent"
    /\ pc = "wait" \/ (pc = "tcp" /\ a \in undialled)
    /\ cache' = [cache EXCEPT ![a] = "absent"]
    /\ UNCHANGED <<now, up, flips, ctxDone, probing, pc, throttle, readings,
                   stored, witness>>

Cancel ==
    /\ ~ctxDone
    /\ ctxDone' = TRUE
    /\ UNCHANGED <<now, up, cache, flips, probing, pc, throttle, readings,
                   stored, witness>>
-----------------------------------------------------------------------------
Due == nextProbe = Zero \/ now >= nextProbe

(* Scan goes on without a probe. *)
Skip ==
    /\ pc = "scan"
    /\ probing = "off" \/ ~Due
    /\ pc' = "discover"
    /\ UNCHANGED <<host, throttle, readings, stored, witness>>

(* Mutant: the next probe is scheduled only when this one has succeeded. *)
BeginUnscheduled ==
    /\ pc = "scan"
    /\ probing # "off" /\ Due
    /\ UNCHANGED nextProbe
    /\ started' = now
    /\ steady' = up /\ met' = up
    /\ pc' = IF probing = "on" THEN "arp before" ELSE "discover"
    /\ UNCHANGED <<host, readings, stored>>

(* The next probe is scheduled, whatever becomes of this one. *)
Begin ==
    /\ pc = "scan"
    /\ probing # "off" /\ Due
    /\ nextProbe' = now + Interval
    /\ started' = now
    /\ steady' = up /\ met' = up
    /\ pc' = IF probing = "on" THEN "arp before" ELSE "discover"
    /\ UNCHANGED <<host, readings, stored>>

(* Mutant: a probe that fails is tried again at once. *)
ProbeFailsRetries ==
    /\ pc \in Reading \/ (ctxDone /\ pc \in {"tcp", "nmap"})
    /\ pc' = "arp before"
    /\ before' = << >> /\ after' = << >>
    /\ UNCHANGED <<host, throttle, undialled, openPorts, observations, stored,
                   witness>>

(* Probe returns an error: off the local subnets, arp or ndp fails, or the *)
(* context is cancelled.  It is logged, and Scan goes on.                  *)
ProbeFails ==
    /\ \/ pc \in Reading
       \/ ctxDone /\ pc = "tcp"
       \/ ctxDone /\ pc = "nmap" /\ NmapTargets(observations, OSMaxHosts) # {}
    /\ pc' = "discover"
    /\ UNCHANGED <<host, throttle, readings, stored, witness>>
-----------------------------------------------------------------------------
(* readNeighbors: the entries of one table, in the order of two commands. *)
Family(step) == IF step \in {"arp before", "arp after"} THEN 4 ELSE 6
Following(step) ==
    CASE step = "arp before" -> "ndp before"
      [] step = "ndp before" -> "tcp"
      [] step = "arp after" -> "ndp after"
      [] step = "ndp after" -> "combine"

Entry(a) == [address |-> a, interface |-> "en0",
             mac |-> IF cache[a] = "complete" THEN "mac" ELSE ""]
Table(family) ==
    {Entry(a) : a \in {b \in Cached : b.fam = family /\ cache[b] # "absent"}}

(* Mutant: neighbours outside the configured networks are dialled too. *)
ReadTableForTargets(step, entries) ==
    /\ IF step \in {"arp before", "ndp before"}
       THEN before' = before \o entries /\ UNCHANGED after
       ELSE after' = after \o entries /\ UNCHANGED before
    /\ undialled' = IF step = "ndp before" THEN Cached ELSE undialled
    /\ UNCHANGED <<host, throttle, openPorts, observations, stored, witness>>

(* The entries of a command are appended; the targets come from the        *)
(* prefixes alone.                                                         *)
ReadTable(step, entries) ==
    /\ IF step \in {"arp before", "ndp before"}
       THEN before' = before \o entries /\ UNCHANGED after
       ELSE after' = after \o entries /\ UNCHANGED before
    /\ undialled' = IF step = "ndp before" THEN Targets ELSE undialled
    /\ UNCHANGED <<host, throttle, openPorts, observations, stored, witness>>

List(step) ==
    /\ pc = step
    /\ ~ctxDone
    /\ Table(Family(step)) # {}
    /\ ReadTable(step, SetToSeq(Table(Family(step))))
    /\ pc' = Following(step)

(* Mutant: an empty table ends the reading of neighbours. *)
ListNothingStops(step) ==
    /\ pc = step
    /\ ~ctxDone
    /\ Table(Family(step)) = {}
    /\ ReadTable(IF step = "arp before" THEN "ndp before" ELSE step, << >>)
    /\ pc' = IF step \in {"arp before", "ndp before"} THEN "tcp" ELSE "combine"

(* Exit status 1 without output: the next command is run. *)
ListNothing(step) ==
    /\ pc = step
    /\ ~ctxDone
    /\ Table(Family(step)) = {}
    /\ ReadTable(step, << >>)
    /\ pc' = Following(step)

(* scanTCP dials a target on its ports.  What the kernel learns from it is *)
(* part of the step.                                                       *)
Dial(a) ==
    /\ pc = "tcp"
    /\ ~ctxDone
    /\ a \in undialled
    /\ undialled' = undialled \ {a}
    /\ openPorts' = [t \in DOMAIN openPorts \cup ({a} \cap up \cap Listeners) |-> {22}]
    /\ cache' = [cache EXCEPT ![a] = CASE a \in up -> "complete"
                                       [] a \notin up /\ @ = "absent" -> "incomplete"
                                       [] OTHER -> @]
    /\ UNCHANGED <<now, up, flips, ctxDone, probing, pc, throttle, before,
                   after, observations, stored, witness>>

Dialled ==
    /\ pc = "tcp"
    /\ ~ctxDone
    /\ undialled = {}
    /\ pc' = "arp after"
    /\ UNCHANGED <<host, throttle, readings, stored, witness>>

Combine ==
    /\ pc = "combine"
    /\ observations' = combineObservations(Networks, before, after, openPorts)
    /\ pc' = "nmap"
    /\ UNCHANGED <<host, throttle, before, after, undialled, openPorts, stored,
                   witness>>
-----------------------------------------------------------------------------
(* Mutant: the inventory expires two intervals after the probe's end. *)
StoreExpiringLate(result) ==
    /\ inventory' = result
    /\ inventoryExpires' = now + 2 * Interval
    /\ source' = [start |-> started, met |-> met]
    /\ pc' = "discover"
    /\ UNCHANGED <<host, throttle, readings, witness>>

(* The end of scanNetworkInventory when Probe has succeeded. *)
Store(result) ==
    /\ inventory' = result
    /\ inventoryExpires' = started + 2 * Interval
    /\ source' = [start |-> started, met |-> met]
    /\ pc' = "discover"
    /\ UNCHANGED <<host, throttle, readings, witness>>

(* Mutant: an error of enrichOS is an error of Probe. *)
NmapFailsProbe ==
    /\ pc = "nmap"
    /\ ~ctxDone
    /\ NmapTargets(observations, OSMaxHosts) # {}
    /\ pc' = "discover"
    /\ UNCHANGED <<host, throttle, readings, stored, witness>>

(* enrichOS: nmap is missing, fails, takes too long or prints nonsense;    *)
(* the base inventory stays.                                               *)
NmapFails ==
    /\ pc = "nmap"
    /\ ~ctxDone
    /\ NmapTargets(observations, OSMaxHosts) # {}
    /\ Store(observations)

(* enrichOS: nmap reports some of the hosts it was given, or is not run at *)
(* all because no host has an open port.                                   *)
NmapReports ==
    /\ pc = "nmap"
    /\ ctxDone => NmapTargets(observations, OSMaxHosts) = {}
    /\ \E known \in SUBSET NmapTargets(observations, OSMaxHosts) :
          Store(enriched(observations, [a \in known |-> "an OS"]))

(* The rest of Scan, which Monitor models, and the select of Run.  What    *)
(* Probe had in its local variables is gone.                               *)
Discover ==
    /\ pc = "discover"
    /\ pc' = "wait"
    /\ before' = << >> /\ after' = << >>
    /\ undialled' = {} /\ openPorts' = Nothing /\ observations' = Nothing
    /\ steady' = {} /\ met' = {}
    /\ UNCHANGED <<host, throttle, stored>>

NextScan ==
    /\ pc = "wait"
    /\ pc' = "scan"
    /\ UNCHANGED <<host, throttle, readings, stored, witness>>

Stop ==
    /\ pc = "wait" /\ ctxDone
    /\ pc' = "stopped"
    /\ UNCHANGED <<host, throttle, readings, stored, witness>>

Stopped == pc = "stopped" /\ UNCHANGED vars

Network == \/ ClockTick \/ Cancel
           \/ \E a \in Targets : Arrive(a) \/ Leave(a) \/ Expire(a)

Daemon ==
    \/ Skip \/ Begin \/ ProbeFails
    \/ \E step \in Reading : List(step) \/ ListNothing(step)
    \/ \E a \in Targets : Dial(a)
    \/ Dialled \/ Combine \/ NmapFails \/ NmapReports
    \/ Discover \/ NextScan \/ Stop

Next == Network \/ Daemon \/ Stopped

Spec == Init /\ [][Next]_vars

(* The daemon is one running goroutine, and the commands it waits for end. *)
FairSpec == Spec /\ WF_vars(Daemon)
-----------------------------------------------------------------------------
(* Monitor.NetworkInventory: what the rest of the program can see. *)
NetworkInventory ==
    IF inventoryExpires = Zero \/ now >= inventoryExpires THEN Nothing ELSE inventory

Observed == [mac : {"", "mac"}, interface : {"", "en0"}, ports : SUBSET {22},
             os : {NoOS, "an OS"}]

(* Type correctness of the inventory. *)
TypeOK ==
    /\ now \in 1..MaxTime
    /\ up \subseteq Targets
    /\ cache \in [Cached -> {"absent", "incomplete", "complete"}]
    /\ flips \in 0..MaxFlips
    /\ ctxDone \in BOOLEAN
    /\ probing \in {"off", "no prober", "on"}
    /\ pc \in Probing \cup {"scan", "discover", "wait", "stopped"}
    /\ nextProbe \in 0..(MaxTime + Interval)
    /\ started \in 0..MaxTime
    /\ undialled \subseteq Targets
    /\ DOMAIN openPorts \subseteq Targets
    /\ observations \in [DOMAIN observations -> Observed]
    /\ inventory \in [DOMAIN inventory -> Observed]
    /\ inventoryExpires \in 0..(MaxTime + 2 * Interval)
    /\ steady \subseteq up /\ met \subseteq Targets

(* "Short-lived": nothing that NetworkInventory returns was read two       *)
(* intervals ago or earlier, however long the probe took and however many  *)
(* probes have failed since.                                               *)
ServedIsFresh ==
    DOMAIN NetworkInventory # {} => now < source.start + 2 * Interval

(* Two probes begin at least an interval apart, whatever became of the     *)
(* first: a failing probe does not turn every poll into a scan of the LAN. *)
ProbesSpaced ==
    [][pc = "scan" /\ pc' = "arp before" /\ started # Zero
       => now >= started + Interval]_vars

(* The probe that has just ended had results, or has stored that it had    *)
(* none: it did not fail on the way to them.                               *)
ProbeEnded == pc = "discover" /\ (DOMAIN observations # {} \/ source.start = started)

(* A host that is up during a whole probe is found, with its MAC even if   *)
(* all its ports are closed, and with its ports if it listens: whichever   *)
(* tables are empty, and although nmap fails after the readings.           *)
SteadyHostsObserved ==
    ProbeEnded /\ ~ctxDone =>
        \A a \in steady :
            /\ a \in DOMAIN inventory
            /\ inventory[a].mac = "mac"
            /\ a \in Listeners => inventory[a].ports # {}

(* An open port in the inventory is that of a host which was up during the *)
(* probe the inventory comes from, and no neighbour from outside the       *)
(* configured networks is in it.  (A target that nobody has is listed when *)
(* the dial left an incomplete entry in the cache.)                        *)
NothingInvented ==
    \A a \in DOMAIN inventory :
        /\ containsPrefix(Networks, a)
        /\ inventory[a].ports # {} => a \in source.met

(* README.md: nmap runs "against only hosts where a TCP probe succeeded",  *)
(* so what it reports is about a host that was up during the probe, and    *)
(* about no more hosts than os_detection.max_hosts allows.                 *)
OnlyOpenFingerprinted ==
    LET fingerprinted == {a \in DOMAIN inventory : inventory[a].os # NoOS}
    IN  /\ fingerprinted \subseteq source.met \cap Listeners
        /\ Cardinality(fingerprinted) <= OSMaxHosts

(* The audit-only inventory never keeps the daemon from enforcement: every *)
(* poll gets to the discovery of SSH connections, although every probe may *)
(* fail and every command of a probe may be the last that works.           *)
EnforcementGoesOn == []<>(pc \in {"discover", "stopped"})
=============================================================================
