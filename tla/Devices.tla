------------------------------ MODULE Devices ------------------------------
(***************************************************************************)
(* The device scanner as a whole: the remarks and their saves (Remarks),   *)
(* and beside them the scan loop, which names the devices from the DHCP    *)
(* leases and, for those of the ARP table that have no name, from reverse  *)
(* DNS, asked outside the lock; names of devices that were not seen for an *)
(* hour are forgotten.  Names live in memory: a restart starts from none.  *)
(*                                                                         *)
(* The leases, the ARP table and the DNS are the environment: every scan   *)
(* may find anything in them.                                              *)
(***************************************************************************)
EXTENDS Remarks

CONSTANTS
  IPs,
  Names,  \* host names
  Hour    \* time without a sign of life, in ticks

ASSUME DevicesAssumption == Hour \in Nat /\ "none" \notin Names

NoName == "none"
Never  == Hour + 2
Found  == [IPs -> Names \cup {NoName}]

VARIABLES
  hostnames,  \* hostnames[ip], or NoName
  sinceSeen,  \* ticks since lastSeen[ip], at most Hour + 1; Never: no entry
  scan,       \* "idle" between two scans, "resolve" and "update" in one
  merged,     \* the names the scan has found
  needResolve,
  \* History variables, read by properties only.
  leased,     \* the names the leases gave in this scan
  resolved    \* the devices whose name is from the DNS

nameVars == <<hostnames, sinceSeen>>
scanVars == <<scan, merged, needResolve, leased>>
devVars  == <<vars, nameVars, scanVars, resolved>>

DevicesTypeOK ==
  /\ hostnames \in Found /\ merged \in Found /\ leased \in Found
  /\ sinceSeen \in [IPs -> 0 .. Never]
  /\ scan \in {"idle", "resolve", "update"}
  /\ needResolve \subseteq IPs /\ resolved \subseteq IPs

Nothing == [ip \in IPs |-> NoName]

NamesInit ==
  /\ hostnames = Nothing /\ sinceSeen = [ip \in IPs |-> Never]
  /\ scan = "idle" /\ merged = Nothing /\ leased = Nothing
  /\ needResolve = {} /\ resolved = {}

DevicesInit == Init /\ NamesInit

\* g's names, f's where it has none.
Over(f, g) == [ip \in IPs |-> IF g[ip] = NoName THEN f[ip] ELSE g[ip]]

-----------------------------------------------------------------------------
\* (slip: every device of the ARP table that has no name yet is asked for)
UnknownLeased(arp, leases) == {ip \in arp : hostnames[ip] = NoName}

\* A device that the leases name, or that had a name, is not asked for.
Unknown(arp, leases) ==
  {ip \in arp : leases[ip] = NoName /\ hostnames[ip] = NoName}

\* The leases and the ARP table are read; the devices in the latter are seen.
Look ==
  /\ up /\ scan = "idle"
  /\ \E leases \in Found, arp \in SUBSET IPs :
       /\ merged' = leases /\ leased' = leases
       /\ needResolve' = Unknown(arp, leases)
       /\ sinceSeen' = [ip \in IPs |-> IF ip \in arp THEN 0 ELSE sinceSeen[ip]]
  /\ scan' = IF needResolve' = {} THEN "update" ELSE "resolve"
  /\ UNCHANGED <<vars, hostnames, resolved>>

\* batchReverseDNS: some are resolved, others fail or take too long.
Resolve ==
  /\ up /\ scan = "resolve" /\ scan' = "update"
  /\ \E answers \in {f \in Found : \A ip \in IPs \ needResolve : f[ip] = NoName} :
       merged' = Over(merged, answers)
  /\ UNCHANGED <<vars, nameVars, needResolve, leased, resolved>>

\* (slip: the devices that were never seen)
ExpiredUnseen == {ip \in IPs : sinceSeen[ip] = Never}

\* lastSeen knows the device and it was seen too long ago.
Expired == {ip \in IPs : sinceSeen[ip] = Hour + 1}

\* The names are merged into the cache, and what has expired is removed.
Update ==
  /\ up /\ scan = "update" /\ scan' = "idle"
  /\ hostnames' = [ip \in IPs |-> IF ip \in Expired THEN NoName
                                  ELSE Over(hostnames, merged)[ip]]
  /\ sinceSeen' = [ip \in IPs |-> IF ip \in Expired THEN Never ELSE sinceSeen[ip]]
  /\ resolved' = {ip \in (resolved \cup {i \in IPs : merged[i] # NoName}) \ Expired :
                    leased[ip] = NoName}
  /\ merged' = Nothing /\ needResolve' = {} /\ leased' = Nothing
  /\ UNCHANGED vars

Scan == Look \/ Resolve \/ Update

\* Bound: time beyond an hour is not told apart.  The queries of one scan take
\* a second each, 32 at a time: far less than a tick.
Pass ==
  /\ scan = "idle"
  /\ sinceSeen' = [ip \in IPs |-> IF sinceSeen[ip] < Hour + 1 THEN sinceSeen[ip] + 1
                                  ELSE sinceSeen[ip]]
  /\ sinceSeen' # sinceSeen
  /\ UNCHANGED <<vars, hostnames, scanVars, resolved>>

\* Both parts end and start together; the names of the old process are gone.
ProcessEnds == Exit /\ hostnames' = Nothing /\ sinceSeen' = [ip \in IPs |-> Never]
                    /\ scan' = "idle" /\ merged' = Nothing /\ leased' = Nothing
                    /\ needResolve' = {} /\ resolved' = {}

ProcessStarts == Restart /\ UNCHANGED <<nameVars, scanVars, resolved>>

Edits == /\ \E g \in Savers : SetRemark(g) \/ SaveStep(g)
         /\ UNCHANGED <<nameVars, scanVars, resolved>>

DevicesNext == Scan \/ Pass \/ ProcessEnds \/ ProcessStarts \/ Edits

DevicesSpec == DevicesInit /\ [][DevicesNext]_devVars

\* The goroutines are scheduled; scans follow one another.
DevicesFairSpec ==
  /\ DevicesSpec /\ WF_devVars(Scan)
  /\ \A g \in Savers : WF_vars(SaveStep(g))

-----------------------------------------------------------------------------
(***************************************************************************)
(* Properties.                                                             *)
(***************************************************************************)
ScanEnds == scan = "update" /\ scan' = "idle" /\ up'

\* When a scan has ended, every device that goes by a name from the DNS was seen
\* by ARP within the hour before, so that a gateway that runs for months does
\* not collect the names of devices that are gone (device.go scan, its fourth
\* step).  Names from the leases have no such guarantee: the removal goes by
\* lastSeen, and a device ARP never shows is not in it.
ResolvedNamesExpire ==
  [][ScanEnds => \A ip \in resolved' : hostnames'[ip] # NoName /\ sinceSeen'[ip] <= Hour]_devVars

\* When a scan has ended, a device the leases name goes by that name, whatever
\* it was called before and whatever the DNS says, unless ARP had seen it and
\* not for an hour, which makes it nameless until the next scan.
LeaseNameWins ==
  [][ScanEnds => \A ip \in IPs : leased[ip] # NoName =>
       \/ hostnames'[ip] = leased[ip]
       \/ hostnames'[ip] = NoName /\ sinceSeen[ip] = Hour + 1]_devVars
=============================================================================
