# lanproxy-gateway in TLA+

lanproxy-gateway turns a Linux host into a transparent proxy gateway for a
LAN: nftables TPROXY rules and policy routing send the TCP connections of the
clients to a local relay, which forwards them through an upstream HTTP or
SOCKS5 proxy, or directly when the proxy fails. This directory models that
program, checks the models with TLC and proves theorems about them with TLAPS.

## The system

| part | source | state | operations | talks to |
|---|---|---|---|---|
| process lifecycle | `cmd/gateway/main.go` (run), `internal/app` | main goroutine, goroutine of `App.Run`, context | `Run`, `Stop`, `retry`, signal handling | all managers, relay, scanner, sampler, web server |
| route manager | `internal/route` | `applied*`, `forward*WasEnabled`; kernel: rules, routes, forwarding switches | `Setup`, `Restore`, `ForceClean` | `ip`, `/proc` |
| netfilter manager | `internal/netfilter` | `applied`; kernel: table `inet lanproxy_gw` | `Setup`, `Restore`, `ForceClean` | `nft` |
| clean command | `cmd/gateway/main.go` (clean) | none of its own | `ForceClean` of both managers | the kernel, beside a running service |
| relay | `internal/relay` | listener, `closeCh`, `wg`, `activeConns`, one goroutine per connection | accept loop, `handleConn`, dial and fallback, `bidirectionalCopy`, `Stop` | clients, proxy, servers, collector |
| statistics | `internal/stats` | per-device counters in 64 shards, ring of recent connections, ring of samples | `OpenConn`, `RecordConn`, `Totals`, `Devices`, `Recent`, `sample` | relay (writes), sampler, API (reads) |
| device scanner | `internal/device` | `hostnames`, `lastSeen` | `scan`, reverse DNS | ARP, DHCP leases, API |
| remarks | `internal/device` | `remarks`, `remarkDirty`, file and `.tmp` file | `SetRemark`, `saveRemarks`, `loadRemarks` | API, disk |
| logger | `internal/logger` | current file and date | `output`, `rotate`, `cleanup`, `Tail`, `Close` | everybody, disk |
| authentication | `internal/auth` | `sessions` | `Login`, `valid`, `Logout` | API |
| HTTP API, web UI | `internal/api`, `internal/web` | browser: polling timer, edited remark | handlers; polling, editing, login | collector, scanner, logger, auth |
| configuration, other commands | `internal/config`, `cmd/gateway` | a file read once | `Load`, `Validate`, `status`, `config` | |

What is hard in it: the kernel state outlives the process and is changed by
`Setup`, `Restore` and the clean command one external command at a time, each
of which may fail; `Stop` runs in one goroutine while `Run` may still be in its
set-up in another; a process may be killed anywhere and its successor must
cope; every connection is several goroutines and two peers, each of which may
be slow, silent or gone; the limits are checked in one goroutine and counted in
another; remarks are saved by unsynchronised goroutines; log lines are stamped
before they are ordered; the answers to the web page's overlapping requests
come in any order, and a restart forgets the session they rely on.
`PROJECT.json` lists each such place with its line and the property that covers it.

What makes each part correct:

* lifecycle, managers, clean: complete interception while serving, orderly and
  complete removal at the end, nothing of the host's own changed for good, and
  at no moment a packet that is marked for a route that is not there.
* relay: each connection is settled exactly once, counters and sockets agree
  with the handlers, refusal only at the limit, `Stop` returns after the last
  handler, and only peers can hold it up.
* copy: nothing is lost, the end of a stream is learned on the other side, idle
  connections end, and only peers can hold one.
* statistics: no update of a counter is lost, totals and rates hang together
  although they are read while they change, the rings are bounded logs.
* remarks: the file is whole at every moment, goes forward only, and no edit is
  overlooked.
* scanner: a device goes by the name of its lease, else by one from the DNS,
  and by that one only while it is around.
* logger: a line is in the file of its date until that file is old enough, the
  open file is in the directory and under `gateway.log`, and the log page shows
  the newest lines although it reads without the lock.
* authentication, web UI: no ended session is let through; the page that shows the
  app is refreshed by exactly one timer and notices the loss of its session.

## The modules

### Gateway

One gateway host: the `run` process, its kernel state, and the clean command.

| TLA+ | code |
|---|---|
| `kern[r]` | forwarding switch `r` is 1; rule, route or table `r` exists |
| `applied`, `was` | `applied*` and `forward*WasEnabled` of the managers |
| `run`, `runAt` | where `App.Run` is, and the resource `Setup` or `Restore` is at |
| `main`, `mainAt`, `attempt`, `errs` | where `App.Stop` is, the resource, `retry`'s counter, `Restore`'s collected errors |
| `closed`, `listening`, `conns` | `closeCh`, the listener, connections in `wg` |
| `cleaner` | where the clean command is |
| `orig`, `entry`, `stopAt`, `meddled`, `alone` | history, read by properties only |

Every external command and every `/proc` access is a step, so the two
goroutines and the clean command interleave between any two. `Setup` of one
resource is `ReadForward` or `DropStale`, then `Apply`, then `Record` (the
assignment of the flag). `faults` counts the commands that failed for no
reason in the kernel state; a command that must fail (deleting what is absent,
adding what exists) fails without one. `nft -f` can also fail after its
transaction: it is the one child not started in its own process group.
`Start` begins a process with fresh memory on the kernel state as it is;
`Kill` and `Reload` (SIGHUP) end it anywhere. `HostForward` is the forwarding a
host may have before the gateway comes. `CleanStart` asks nobody whether the
service runs, as `cleanCmd` does not: clean may begin and go on beside a process
in any of its states. Properties that such a meeting would break by design say
so with `meddled` (the process had company) and `alone` (the command had none);
`ResidueCostsFaults` holds in spite of it.

The flags are read by one goroutine and written by another without a lock.
They are single words, written once from false to true, and the goroutines
may be delayed at every step, so a stale read is one of the interleavings.
A fault means a command did nothing, except for `nft -f`.

### Ruleset, Traffic

`Ruleset` is the rendered chain of `netfilter.go` as a function: `Matches` and
`Verdict` are its eight rules in order, `Rendered` the conditions of the
template, `Classify` the first match, `Fate` what the kernel makes of it given
the listener and the policy routes. `Intended` is the README's promise for the
same packet. How the kernel treats `tproxy`, marks and a missing socket is
external. `Traffic` extends `Gateway` with these packets: its state is
`Gateway`'s, and `NoPacketIsLost` asks for the fate of one packet of each kind
in every state.

### Ledger, Relay, MCRelay

`Ledger` is the abstract promise: a connection is refused, or opened and
settled once with its traffic; when the relay has finished nothing is open and
nothing opens. `Relay` is the accept loop, the handlers with their deferred
calls one by one, the dial with its fallback, the collector's counters, and
`Stop`. `Books` maps it to `Ledger`, and `ImplementsLedger` is checked.
`acceptor` is the position of the loop, `pc[c]` that of a connection's handler,
`socks[c]` the sockets held for `c`. The relay begins where `Relay.Start` has
returned; a `Stop` that overtakes `Start` is in `Gateway`. The collector's
counters are summed over the devices, because the handlers only add to them.
HTTP CONNECT and SOCKS5 differ in bytes only and are one `handshake`.

### Splice

`bidirectionalCopy` for one connection: a goroutine per direction reads with
an idle deadline, writes without one, and passes the end on when the type of
its destination has `CloseWrite`. `upstream` says which type it is, `"http"` for
the `*bufferedConn` of `dialHTTP`, which hides `CloseWrite`, and `"tcp"` for a
SOCKS5 or direct connection; with the default configuration a fallback gives
either. When both goroutines are done `Close` is the return of `handleConn`,
whose deferred calls close both sockets. A chunk is one `Read`; ticks are
fractions of the two minutes. `Relay` has this as its phase `copy`.

### Stats, MCStats

`stats.Collector`. A handler (`pc[c]`) finds or makes the entry of its device
(`Lookup`, `CreateDevice` with its second look), adds to one atomic word per
step, and pushes its record into the ring. `Totals` walks the shards holding
each one's read lock (`ReadLocked` blocks the making of entries), loads word by
word in the order of the code, and its sum goes to the sampler or to
`/api/status`. A sample is kept as `rate * elapsed`, the bytes between two
readings; `tooSoon` is the return for less than half a second. `log` and
`sampled` remember everything that was ever put into the rings, so that what
`Recent` and `TrafficSamples` compute can be compared with it; `Collected` is the
loop of the latter. The received
bytes are handled like the sent ones and left out.

### Remarks

`SetRemark` and its saving goroutines. The remarks are known by the number of
the edit that made them. The disk is inodes, because a goroutine may still
write through its descriptor after another has renamed the file: `tmp` and
`file` are names, `content[i]` is empty, one remark text, or one written over a
longer one. `Restart` may fail to read a file that is there and goes on without
remarks (`unread`). `Exit` is any end of the process, orderly ones included, since
nobody waits for the goroutines; what was written stays (no power failure).

### Devices

`Remarks` with the scan loop beside it. `Look` is `scan` up to the snapshot of
the cache (leases, ARP table, `lastSeen`), `Resolve` the reverse DNS queries,
which run outside the lock, `Update` the merge and the expiry. `merged` and
`needResolve` are the local variables of `scan`. What leases, ARP and DNS answer
is chosen freely in every scan. `leased` and `resolved` are history: which names
the leases gave in this scan, and which names in the cache came from the DNS.
The scan and the edits share a lock and no data except through `Devices()`,
which only reads.

### Logger

`output` line by line: `Stamp` reads the time before the lock, `Lock` compares
dates, `Rotate` closes the old file and opens the new one or fails, `Relink`
replaces `gateway.log` or fails to (`linkMade`), `CleanOld` removes what is too
old, `WriteLine` writes and unlocks. The file system is a set of dates with
their lines; `orphan` says that the open file was removed under its writer.
`AskPath`, `ReadPath` and `Answer` are `handleLogs` with `Tail`, which reads
the path after the lock was released; `Passing` is the loop that filters. Time
is local, in ticks of a fraction of a day, `zone` its offset from UTC.

### Console

`auth.go`, the middleware and the login handlers of `api.go`, and the page's
`app.js`. `req[i]` is a request of the page: sent, let through, served, lost,
or aborted when the page went away. `CheckSession` is `Middleware` with
`valid`, which deletes an expired session; `AnswerData` is the handler behind
it, which answers also when the session has ended in between; `ServeLogin` and
`ServeLogout` are the handlers. On the page `CheckDone`, `LoginDone`,
`PollRefused`, `PollDone` and `LogoutDone` are the continuations after each
`await`, `StartPolling` and `StopPolling` the handling of `pollTimer`.
`intervals` counts the timers that fire, which the code cannot see. A restart
of the gateway empties `sessions` and leaves the cookie.

Definitions marked `(slip: ...)` are plausible mistakes in the definition below
them. Putting one in the place of the original makes the run fail that checks
the property it breaks (`mutants` in `PROJECT.json`): each property is able to
notice something. No specification uses them.

## The runs

| run | instance | shows |
|---|---|---|
| stop | 1 process, 4 faults, 1 connection, IPv4, fair | `OrderlyTeardown`: while a process that served is stopping, a loaded table still has its listener and routes. `ResidueCostsFaults`: rules remain only after 4 failed commands, a raised switch after 3, with the clean command beside it or not. Clean-up comes to an end. `StartHeldOnlyByPeers`: start-up does too, in service or with its error reported, unless a failed set-up waits for a connection its peer does not end |
| crash | 2 processes, IPv6, 1 connection, packets of every kind | the next process serves completely whatever its predecessor left; forwarding is lowered only by its raiser, and never on a host that forwarded before; clean removes what a kill at any step leaves; no packet is lost on the way up, in service and on the way down |
| relay | 3 connections, limit 1, fallback, fair | counters, sockets and the wait of `Stop` agree with the handlers; the relay implements `Ledger`; nobody is refused early; only peers hold `Stop` up; the loop answers everybody |
| copy | both types of upstream, 2 chunks each way, fair, peers free not to read | nothing lost, honest counts; `CopyEnds`: a copy ends or waits in a `Write` its own peer holds; `EndsAreLearned`: an end of stream is learned on the other side at once, or, by a server behind an HTTP proxy, when the handler closes |
| stats | 3 connections of 2 devices in 2 shards, rings of 2, 4 readings | no update is lost, totals hang together, rates never wrap, samples add up, both rings return the newest entries in order |
| devices | 3 edits, failures, restarts, 1 device, 2 names, fair | saves that do not overlap keep the file whole and move it forward; at rest the file is up to date; every edit is picked up; a lease's name wins; a name from the DNS goes after an hour; a start may fail to read the file |
| logger | 2 writers, 4 days, 2 days kept, zones half a day east and west | every line is in the file of its date until that is old enough; the current file exists; the link leads to it if it could be made; the page shows the newest lines |
| console | 2 requests under way, 2 logins, restarts, fair | one timer for the app; no ended session is let through; a lost session is noticed |
| signal_at_start, stop_twice, silent_proxy, remarks_torn | small ones | four claims of the repository that the code does not keep, see below |

Bounds. Four faults are what it takes to defeat three attempts and the
fallback, so both sides of `ResidueCostsFaults` are reached. Two processes are
one crash and its successor; a third would start from a state a second can
leave. `stop` has the faults and `crash` the second family, because the product
of both is out of reach; the proofs cover it. The one connection of `stop` is
enough to hold a set-up that failed; without IPv6 nothing reads `fwd6`, so two
states of the host's forwarding are all there is to tell apart there, and the
other runs have all four. One kind of packet for each combination of conditions
of the rules is all the chain can tell apart. Without fallback a handler only
takes a shorter way to `record`, so the relay runs with it. Three connections
let one be refused while one runs and one is about to be counted. Two chunks
with a window of one make writes block and reads go on after them; an idle
limit of two ticks lets one direction be idle while the other is not. Rings of
two wrap around with three entries. Three edits are two overlapping saves and
one that follows them, perhaps in the next process. One device is enough for
the names, which do not depend on each other; two names let lease and DNS
disagree; an hour is one tick. Two writers let one be late at midnight; four
days with two kept let a file age out and a late writer come back to it; half a
day is the coarsest zone that moves a date. Two requests let a refused poll
arrive after the login that follows it, two logins give that login a session of
its own. `CHECK_DEADLOCK` is off everywhere: a process may be down for good, a
relay stopped, a copy finished.

Fairness. `Gateway` and `Relay` assume that goroutines are scheduled and that
dials end by their five-second timeout; nothing makes a peer answer, a client
close or an operator act. So `CloseConn` is not fair, and neither are the peers
of `Splice`, where only the goroutines run and time passes: a peer that stays
connected and stops reading keeps the connection for ever, because `Write` has
no deadline, and with it `Stop`, or `Run` if its set-up failed. The liveness
properties name that state instead of excluding it. `Remarks` assumes that its
goroutines run. `Devices` assumes that the scan and the goroutines that save
run, not that scans find anything. `Console` assumes that polls are sent again
and again, that of those some are served and some refusals arrive (strong
fairness: the network may lose any number of them), and `SessionLossNoticed`
that the gateway stays up from some time on. The logger needs none: its
properties are about safety.

### What the code does not keep

Four runs are expected to find a violation of something the repository says of
itself: `signal_at_start` (a signal during set-up leaves rules), `stop_twice`
(a failed set-up ends in a panic on the second close of `closeCh`),
`silent_proxy` (no deadline on the handshake), `remarks_torn` (two saves share
one temporary file, and a process that ends at the wrong moment leaves an empty
remark file). The `findings` in `PROJECT.json` quote the lines. Smaller ones
are in the actions and have no run of their own: forwarding a killed process
had raised stays on for good (`ReadForward` of its successor); the unit's
`ExecReload` sends a SIGHUP that ends the process (`Reload`); a failed `nft
list` counts as a missing table (`ListTable`); connections accepted before a
handler has counted itself pass the limit (`CheckCap`, `Count`); a direction
that is silent for two minutes is shut though the other is busy
(`ReadTimesOut`); a copy with a peer that does not read never ends (`Write`,
`HeldByPeer`); a set-up that fails while a connection is open, one a
predecessor's table sent or one made to the port directly, waits in
`relay.Stop` for that connection's peer, and the process neither serves nor
exits until then (`RunRelayWait`); of two overlapping saves the older may win
(`Rename`).

Others were found with instances that are not among the runs, or by reading:

* README.md:216 of the repository says "TCP 半关闭正确处理" (TCP half-close is
  handled correctly). With `upstream.type: http`, the default (config.go:105),
  the upstream connection is a `*bufferedConn` (relay.go:305) and the test for
  `*net.TCPConn` (relay.go:249) fails: the server does not learn that the client
  has ended its stream before its own direction has ended too, by itself or by
  its deadline, and the handler closes. `EndsAreLearned` without its last
  disjunct fails, and only for `upstream = "http"`.
* A remark file that is there and cannot be read when the process starts is
  taken for none, and the next edit saves over it (device.go:235-238): with
  nobody at work the file and the memory differ (`RestIsSaved` fails without its
  condition on `unread`), and then the older remarks are gone. An edit's number
  stands for all edits up to it, which is no longer so after such a start;
  `LoneSavesGoForward` therefore leaves the case out.
* A link that cannot be removed or made leaves `gateway.log` at an older file, or
  missing, until the next rotation, and nobody is told (logger.go:168-169).
* With one day of retention, west of UTC, a start or a rotation in the last
  hours of the day, as many as the offset, removes the file it has just opened
  (`CurrentFileExists` fails with `MaxAgeDays = 1`; logger.go:199 compares the
  midnight UTC of the file's date with the time of day).
* With one day of retention a file may be removed at midnight and made again,
  empty, by a line that was stamped before it: the page then misses lines
  although the file it reads is there (`PageShowsNewest` fails with
  `MaxAgeDays = 1` in UTC).
* Names that only the leases gave are never forgotten, against the comment at
  device.go:142: the clean-up walks `lastSeen`, which ARP alone fills.
* `session_secret` is read and not used: sessions do not outlive a restart.
* A poll overwrites a remark that is being typed (app.js:200), against the
  comment above it. A 401 that arrives after a new login, or a late answer to
  `checkAuth`, shows the login form although the session is valid. Expired
  sessions nobody presents again stay in the map (auth.go:71).

## The proofs

Each theorem holds for every value of the constants that the named assumption
of its module allows; where it needs more, it says so as its own assumption. The
argument of each module:

**GatewayProofs**, from `GatewayAssumption`.

* `TypeCorrect`: `Spec => []TypeOK`.
* `ForwardingKept` and `ForwardLowered`. `ForwardingNeverLost` is not
  inductive: the argument is that a process never sets the applied flag of a
  switch that was on when it started. `ForwardInv` says so for the flag and for
  the steps on the way to it, and that a switch on in `orig` is on in `entry`.
  `LoweredByUndoOnly` shows that only `route.Restore` lowers a switch, which
  needs `ForceInv`: the forced cleaning walks rules and routes only.
* `ServingComplete`. `ServingInv` says that while main waits and no clean
  command interferes, everything `Setup` has passed (`Earlier(runAt)`) is in
  place; `EarlierNext` relates it to `SetupNext`, `AdvanceKeeps` carries it
  over a step. What the predecessor left does not occur in it.
* `StopIsOrderly`, `ResidueIsEarned`, `CleanIsComplete`. `OrderlyTeardown` and
  `ResidueCostsFaults` compare the kernel with the number of failures, so the
  invariant accounts for them: `RecordInv` says that what a serving process set
  up is recorded as its own, and `StopInv` that, wherever `Stop` is, a resource
  that should be gone and is not has cost one failure in each attempt that has
  passed it (`TableCosts`, `RoutingCosts`), and that the table has been taken
  down before anything else is touched unless four failed (`TableGoesFirst`).
  The clean command beside the process only takes away what `Stop` would
  (`CleanTakes`), so the account holds with it too.
  There is one lemma per phase of `Stop` (`NfRestoreStep`, `NfForceStep`,
  `RtRestoreStep`, `RtForceStep`). `CleanIsComplete` uses `CleanInv`: what the
  clean command has passed is gone and nobody puts it back.
* `ServedAsPromised`, `NoneIsLost`, `PacketsAreSafe`. `ServedAsPromised` and
  `NoneIsLost` are about `Ruleset` alone: `Lines` finds the first rule that
  applies, `VerdictFits` compares it with `Intended`. `PacketsAreSafe` joins
  them with `StartInv` and the invariants of the teardown: as long as the table
  is there, so are the routes of each family that the chain marks.

**SpliceProofs**. `CopyInv` says what the position of a goroutine means for its
counts: a goroutine that has left its loop holds an undelivered chunk only if
its destination reset. Both theorems are for either type of upstream connection.

**RelayProofs**. The counters count the connections at certain places of
`handleConn`; `Counts` says which (`wg`, `activeConns`, the collector), `Where`
which sockets are held at which place, `Loop` relates the accept loop to `Stop`.
`Moves` is the arithmetic of one connection going from one place to another.
`KeepsTheLedger` maps each step to a step of `Ledger` or a stutter.
`BooksAreHonest` adds the bytes: `BytesAddUp` says that `txBytes` and `rxBytes` are
the sums of what the settled connections carried, `Tally` what one more of them
changes.

**Sums**. What these sums and the loops below compute is recursion, so it needs
induction. `Induction` is the induction rule for a set of naturals in the place
of a predicate, from the well-foundedness of `<`; `SetInduction` is the one for
finite sets. `SumsExist` shows that the recursive function in the fold of the
community modules exists, `SumOfFold` what one element adds to it, and
`SumEmpty`, `SumAdd`, `SumBump`, `SumMonotone`, `SumNat` and `SumZero` are what the
other modules cite.

**StatsProofs**. Three arguments that do not depend on each other, joined in `IInv`:

* `NoneIsForgotten`. `Counts` says that each counter of a device counts, or adds
  up, its connections at certain places, and that a handler about to use an
  entry finds it; so the entry that `CreateDevice` would make anew has nothing in
  it to lose (`UnknownIsZero`). `Move` is the change of one connection.
* `PassHangsTogether`, `RatesAreNatural`. None is inductive: the counters change
  under the reader. `Snapshot` says that what a pass has added up so far splits
  into what it has read of each device, none of it more than the device has
  now, and that of each device it is through with it has read at least what the
  reading before had. A device whose entry appears behind the reader had
  nothing in the reading before. `ActiveBound` is where the order of the
  loads of `active` and `total` matters. The three ways a pass goes on are
  `ReadingStarts`, `ReadingOpens` and `ReadingLoads`, and `ReadingOutlivesConns` is
  the handlers' part.
* `NothingIsSkipped`, `RecentIsEndOfLog`, `SamplesAreEndOfLog`. A ring holds the end
  of the sequence of what was written to it (`HoldsEnd`); `Around` is the
  arithmetic modulo the capacity, `RingPush` one write. `CollectedIsEnd` runs the
  loop of `TrafficSamples` over such a ring. That the samples add up is
  `SumAppend`.

**DevicesProofs**. For the remarks, `Past` says that everything on the disk and in
the goroutines is an edit that was made, `Lone` what holds as long as saves have
not overlapped: at most one goroutine is between its copy and its end, the
temporary file is its own, and the file is not newer than its copy. The scan
leaves the remarks alone (`RemarksAlone`), so the theorems about `Remarks` hold for
`Devices` (`RemarksKept`). For the names, `NamesInv` says that what came from the
DNS is a device the ARP table has shown, so that `lastSeen` knows it:
`NamesExpire` rests on that. `LeaseIsPreferred` needs that `merged` gives the
lease's name wherever there is one, through the queries outside the lock.

**LoggerProofs**. `GoneIsTooOld` turns the comparison of times in `cleanup` into
one of dates, which costs a date west of UTC. `Opened` says that who is past the
rotation has the file of its own line open, also when it is late, and that an
open file that was removed is too old; so a line is written to the file of its
date or is too old already (`LinesKept`). `CurrentExists` assumes a retention
other than one day, or UTC: without that it is false (above). For the page,
`Numbered` says that no two lines of a file are the same, and `Asked` that the file
the page has asked for begins with the lines it had then, or was removed; it is
not made again (`GoneIsNotMadeAgain`), because a line waits no longer than the
model allows (`Timely`, the bound of `Tick`) and more than one day is kept.
`PassingSelects` is the loop that filters: it keeps the order and every line that
passes. `AnswerShows` follows from these for any file and any limits, and
`NewestShown` from it; it assumes a retention other than one day, as it must.

**ConsoleProofs**. `TokensAreIssued`: nobody holds or ends a token before it is
given out; `LiveHaveNotEnded`: a session that is live has not ended. `OneInterval`
needs no more than `AppIsPolled` itself; `EndedAreRefused` needs both.

Model-checked only:

* Liveness (`StopReachesRelay`, `StartHeldOnlyByPeers`, `StopHeldOnlyByPeers`,
  `AcceptLoopNeverStalls`, `CopyEnds`, `EndsAreLearned`, `EditsAreCopied`,
  `SessionLossNoticed`): the proof system does not treat `ENABLED`.

Every invariant and every other action property that a run checks has its
theorem. Recursion that only TLC could follow is left nowhere in the models.

## Not modelled

What the page renders, the editing of a remark in it, themes and charts; the
choice of the LAN interface and `App.New`'s wiring; parsing, defaults and
validation of the configuration, a file read once; the status and config
commands, which print or write one file; encoding and parameter parsing of the
API and its static files; log levels and formats; bytes of CONNECT and SOCKS5;
`Collector.Devices` with its sorting; building and packaging. None of these
keeps state that others change. Failures inside the kernel other than a refused
or failed command, and power failures of the disk.

## What is left

1. The configuration as a pure module: which files `Load` accepts and what
   `Validate` promises to the managers.
2. The page with the remark being edited, if the code learns to spare it.
