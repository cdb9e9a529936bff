# minimalist in TLA+

This directory holds the verification project of `minimalist`, the single-binary manager of a
mihomo side router on a Debian NAS: TLA+ modules translated from the Go source, TLC
configurations that check them on small instances, and proofs that TLAPS checks for every
instance. Line references are to `src/internal/...`.

## 1. Inventory of the system

| Component | State it keeps | Operations | What makes it correct |
|---|---|---|---|
| State document (`state`, `app`, `provider`) | `state.json`: nodes, rules, ACL, subscriptions; one cache file per subscription | nodes rename/enable/disable/remove, import-links, rules and acl add/remove, subscriptions add/enable/disable/remove/update | identities unique, rule targets exist, nothing orphaned, a refresh touches only what it owns, a damaged file is not started over |
| Runtime rendering and service (`runtime`, `app`) | provider, rule and config files under `mihomo/`, the unit `minimalist.service`, what the core has loaded | render-config, start, stop, restart, the apply step of node commands, systemd's restarts | the files come from one valid document; success means the core runs the stored nodes |
| Transparent-proxy rules (`app`) | iptables chains and jumps, `ip rule`, routing table 233 | apply-rules, clear-rules | exact and idempotent on success, never live while half built, repairs what a failed run left |
| Core upgrade (`app/core_upgrade.go`) | core binary, `.bak`, `.failed`, the running core | core-upgrade-alpha with rollback | a working core is never lost |
| Release selection (`app/core_upgrade.go`) | none | choose release and asset | newest alpha, the asked CPU level, order of the input irrelevant |
| Host-proxy transaction (`app/host_proxy.go`, `webui.go`) | `proxy_host_output` in `config.yaml` | enable, disable, from CLI, menu and web | file, rendered config and kernel agree after success and after rollback |
| Configuration store (`config`) | `config.yaml` | Ensure with secret backfill, wizard, web editors | no edit lost, the secret stable |
| Cutover guard, setup (`app`) | legacy and new unit, unit file, sysctl | setup, install-self, preflight, guard of high-risk commands | no high-risk command while only the legacy service is live |
| Rules repository (`rulesrepo`) | manifest, entry files | add, remove, remove by index, find, render | no duplicates, an edit changes one entry, what is stored is rendered |
| Web control plane (`app/webui.go`) | one mutex, a token | HTTP handlers around the commands | commands of the web never interleave, every request is answered |
| Menu (`app`, `header.go`) | position in the menus, chosen index | prompts around the commands | a confirmed action hits the node that was shown |
| Link parsing (`provider`) | none | URI schemes, base64, provider YAML | pure conversion |
| Runner, CLI, logs (`system`, `cli`, `logs.go`) | none | child processes with a 30 s limit, dispatch, journal snapshots | a failure is reported |

### How they interact

Every CLI command, menu entry, web request and unit hook is its own process (or request) that
calls `ensureAll` - layout, `config.yaml`, `state.json`, default rules repository - and then one
command. They share files and the kernel, never memory, and take no lock; only requests of one
web server exclude each other through a mutex. A node command saves the document and then, if
`systemctl is-active` says so, renders the runtime files and restarts the unit. The unit runs
`verify-runtime-assets` and `apply-rules` before the core and `clear-rules` after it, so the
program is also called back by systemd, and `Restart=on-failure` starts the core without any
render. `host-proxy` saves the configuration, renders and applies the rules in its own process.

### What is hard

- **Interleaving**: load, change and save of a whole document, check-then-append of a jump,
  check-then-rename of a backup, all without a lock. `os.WriteFile` cuts a file and then writes
  from its start, so of two overlapping writes to `state.json`, `config.yaml` or a rule file the
  shorter one keeps the end of the longer one behind it.
- **Crash**: files are truncated and rewritten in place; a program of forty iptables commands,
  or one of seven renames, may be killed anywhere (systemd's timeouts, the runner's 30 s).
- **Partial failure**: several writes where one fails; errors that are dropped on purpose
  (`-F`, `-X`, route flush, removing `.failed`), errors read as "absent" (`iptables -C`).
- **Stale state**: a copy held across fetches or prompts; a check on one document and a render
  from it while another is stored; a restart by systemd with old files.
- **Retry**: a second apply, clear or upgrade after one that stopped part-way.

`PROJECT.json` lists these hazards at their lines, with the properties that would catch them going
wrong. Where no property would, the entry says why: mostly because the code makes no attempt, and
the model shows what happens instead.

## 2. Plan

| # | Module | Composes | State |
|---|---|---|---|
| 1 | `StateDoc` - the document and the pure part of each operation | - | done, lemmas in `StateStoreProofs` |
| 2 | `StateStore` - processes over the stored file | 1 | done, proved in `StateStoreProofs` |
| 3 | `Service` - document, runtime files, unit, core | 2, and implements its specification | done, proved in `ServiceProofs` |
| 4 | `Routing` - the iptables and ip programs | `Filtering` | done, proved in `RoutingProofs` |
| 5 | `ReleaseSelection` - the order of tags and the choice of an asset, against a reference | - | done |
| 6 | `CoreUpgrade` - download, renames, restart, rollback | 5, and implements `AtomicCore` | done, proved in `LifecycleProofs` |
| 7 | `Lifecycle` - setup, the unit with its hooks, the cutover guard, upgrades beside them | 6, and implements its specification | done, proved in `LifecycleProofs` |
| 8 | `HostProxy` with `config.yaml` - save, render, apply, roll back, web form and editor, wizard | render and apply as single steps | done, proved in `HostProxyProofs` |
| 9 | `RulesRepo` - entry files as sequences of lines | `Filtering`, what the loops over a list keep | done, proved in `RulesRepoProofs` and `FilteringProofs` |
| 10 | `Console` - web pages under one mutex, shells beside them, indexes of a shown list, renders file by file | the commands of 1 and 3, abstracted | done, proved in `ConsoleProofs` |

What is left: a proof that the sort of `ReleaseSelection` orders every listing, with the lemmas on
tags it needs; a module that lets `Routing`'s own commands run inside `Lifecycle`'s hooks, and one
that has `HostProxy`'s render and apply as the steps of `Service` and `Routing`; the provider groups
of the rendered configuration.

## 3. The modules

### StateDoc and StateStore

`StateDoc` declares no variable: it has the document as a record of sets and sequences and, for
every operation, its checks (`Can...`) and the document it saves (`Renamed`, `NodeSetTo`,
`SubscriptionRemoved`, ...). Nodes and subscriptions are sets, since their order only decides
which index an operator types and all are tried. A name is a word and a suffix, because
`uniqueName` tries `word`, `word-2`, `word-3`, ... until one is free and not reserved. A link is
its base key and the word it suggests.

`StateStore` runs these as processes. `pc` follows a command from `Load` (or `Create`, when
`state.Ensure` finds no file) through its computation to `Truncate` and `Write`, the two halves of
`os.WriteFile`; `mem` is the copy it works on. `ImportRow` is one turn of the loop in
`AppendImportedNodes`, `Fetch`/`FetchFails` one subscription of `UpdateSubscriptions`,
`RemoveCache` the `os.Remove` before the save. `Crash` may happen anywhere. Two writers that
overlap may garble the file; a garbled or empty file fails `json.Unmarshal`, so no command gets
past `Load`.

### Service

`Service` extends `StateStore` with the runtime files (`rendered`: provider nodes, rule targets,
whether the render got to its end), the unit, and the node list the core has `loaded`. `RenderNodes`
and `RenderRules` are the two halves of `RenderFiles` that matter: the provider is written
first, rules and config after. `StartAttempt` is one start of the unit as `BuildServiceUnit`
defines it: the two `ExecStartPre` commands read the *stored* document, then the core reads the
files. `UnitRetries` is systemd's restart, which renders nothing. `StoreSpec` says that all of this
implements `StateStore`.

### Routing

A program (`ApplyProgram(c)`, `ClearProgram`) is the sequence of commands the Go function runs;
each action runs one. Loops that delete while a check succeeds put the step back. The kernel is
which chains exist with which entries, how many jumps feed each, how many copies of the ip rule
there are and whether table 233 has its route. `Fail` ends a program at any command whose error the
code returns, and stands for a kill as well. `alone` and `intact` are history: they say which
programs have run without another one beside them, which the properties need because the code
takes no lock.

### ReleaseSelection, CoreUpgrade and AtomicCore

`ReleaseSelection` has no variables. A listing is a sequence of releases; tags and names are
sequences of code points, since `naturalCompare` is about their order, and an asset is a record of
what its name says. `SortedIn` is one insertion of the sort (`slices.SortFunc` sorts up to twelve
elements by insertion, in a fixed order, which matters where the comparison is no order).
`selectLatestAlphaAsset` yields a set of at most one asset, empty for every error. `Supersedes` and
`Runs` are the reference that `DownloadsNewestFit` compares with: they read numbers as numbers and
never sort.

`CoreUpgrade` has one action per file operation of `replaceCoreBinaryAtomically` and
`restoreCoreBinaryBackup`, each allowed to fail, and the restart checks. `Answers` are the binaries
that answer `-v`, `Works` those that keep the service up; the check after a restart may still find
a core active that later exits. `seen` is the listing and the CPU level an upgrade chooses from.
`kept` remembers what the last failed rollback reported to preserve.

`AtomicCore` is what that promises without its files: a slot that always holds a binary that
answers, and another one in it only while the one before is set aside. `CoreSpec` maps the slot to
`core`, or to `core.bak` where `core` is missing, and the one set aside to `old`.

### Lifecycle

`Lifecycle` extends `CoreUpgrade` with the unit (absent, inactive, active, waiting for a retry),
whether it is enabled, the legacy service, whose rules are in the kernel, and what each command is
still to run after it has passed the guard (`task`): the guard is asked once, and the legacy
service may change right after. The unit's hooks call the program back, and the guard is asked
again there (`HookReady`), at a time when the unit is not active: this is why a unit that runs
without being enabled cannot start again once the legacy service is live, although a command would
still pass. `Up` is a start whose
hooks pass, `Down` one that fails and goes to `waiting`; `StopHook` is `ExecStopPost`, and does
nothing where the guard stops it. `RetryUp` and `RetryDown` are systemd's retries every five
seconds. `startable` stands for the runtime assets and an enabled node. Every step is a step of
`CoreUpgrade` or leaves its variables alone, so what holds there holds here.

### HostProxy

`file` is `config.yaml` as two switches (`output` is `proxy_host_output`, `base` whether anything
else is routed), one value `rest` for every other setting, and whether a controller secret is
stored; or it is `Blank`, cut by `os.WriteFile` and not written yet, which parses as the defaults;
or `Absent`; or `Garbled`, which no longer parses. `WrittenOver` is what a save may leave where another
has written since its cut: its own document, one that does not parse, or, for a text of the web
editor, which may leave settings out, a mix of the two. Every call but the web editor is refused on a
`Garbled` file. `Load` and `Probe` are the two reads of `config.Ensure`; `Cut` and `Write` are the
two halves of `Save`, also when `Ensure` itself saves (`filling`). Every command goes through them,
and `setHostProxy` three times: for itself, in `RenderConfig` and in `ApplyRules`. `phase` says
which part of the transaction a call is in: `Persist` keeps the copy read before the prompt as
`previous`, and `Failed` sends a failed transaction back through the same steps with it. `Render`
and `ApplyRules` are single steps here that may fail before or half way; their own commands are the
subject of `Service` and `Routing`. Web requests take `mutex`; the commands do not. The record of a
call that has returned is kept until somebody else writes, so that the properties can speak of calls
nobody disturbed; `disturbed` says who wrote beside a running one, which then forgets what it found
when it `began`.

### RulesRepo

`source[r]` is the file of a rule set as lines, `Comments` the lines that start with `#`. `Stat`,
`CopyCut` and `CopyWrite` are `InitDefaultRepo`, which copies the manifest first; `Read` is
`FindRuleset` and `ReadEntries` followed by the decision of the command (`Added`, `Removed`,
`RemovedIndex`), or one file of `Render` (`Rendered`). Writing an entry file drops its comments, as
the code does, and adding a value that starts with `#` is accepted where its type accepts it and
leaves no entry.

A file is cut and then written from its start, by edits (`Cut`, `Write`) and by the copying
(`CopyCut`, `CopyWrite`). `WrittenOver` is what a body may leave of lines that another process has
written since the cut: itself, or itself followed by the end of the longer file, from the start of a
line or from inside one. Which of these depends on lengths in bytes, so the model allows each;
`Tails[v]` is what the rest of a line may read as, another entry or an invalid one. `torn` is history:
the rule sets that two writers have mixed in this way.

`Filtering` is the loop that keeps what is not in a set (`Without`), as a recursive function rather
than the fold of the community modules, so that it can be reasoned about. `RulesRepo` drops comments
and removed entries with it, `Console` the nodes of a subscription, and `Routing` uses it to say which
entries a part of a program leaves in one chain.

### Console

A process is a browser page (with its request at the server) or a shell (a CLI command or the
menu). `List` shows the node list; `OnNode` acts on a row of the list last shown, by its index;
`Command` imports, adds a rule, renders or refreshes subscriptions. Requests that take a body wait
for it in `body` before the mutex, or, for `handleRules`, in `rulebody` under it. `Edit` checks the
private copy and saves it; after a node command `Apply` may render, and a render is three steps:
provider, rule files, and `config.yaml`, whose rules are read back from the rule files on disk
while its provider comes from the copy. `Fails` is any error, `Answer` the deferred unlock and what
the page or the menu shows next, which is the old list after an error on a page. `ServerDies` takes
all requests with it. `crossed` and `moved` are history: they name the processes that one outside
their lock has cut across, and the lists overtaken by a removal. `MCConsole` lets two processes at a
time be at work (`crew`).

## 4. The runs

| Run | Instance | Shows |
|---|---|---|
| `StateStore` | one process from no document on, without a bound on commands: 2 keys, 2 words (one reserved), suffix up to 3, both lists with up to 2 rules, 1 subscription; or 2 processes with 3 commands from a seeded document | each part of the document's consistency, one command after another and under interleaving and death; a refresh changes nothing of the operator's, and keeps the nodes of a subscription it could not fetch; a damaged file stays |
| `Service` | 1 process, 2 keys, 1 rule, all faults | success of an apply means the core runs the stored nodes; whole runtime files resolve; refinement of `StateStore` |
| `ServiceDrift` | the same, no faults | **violated**: RemoveNode under an AUTO rule (below) |
| `Routing` | 1 process at a time, 3 configurations, all faults | no live half-built chain, exact success, termination |
| `RoutingOverlap` | 2 processes, 3 programs, 1 configuration | a program that runs alone repairs what an overlap left |
| `RoutingMisread` | 1 process, `iptables -C` may fail falsely | **violated**: a live chain is flushed (below) |
| `Lifecycle` | 1 command or upgrade at a time, 4 binaries, 6 listings, 2 CPU levels, all faults, the legacy service coming and going | a core is never lost, alone and as a refinement of `AtomicCore`; a failed upgrade keeps the old one; the newest fit is what is tried; the guard holds everywhere; a waiting unit comes back |
| `CoreUpgradeRetry` | the same | **violated**: a reported backup is removed by a retry (below) |
| `HostProxy` | 2 calls of 6 kinds or changes of the nodes, 2 faults, 2 documents to edit | a switch reported changed or restored is so in file, runtime files and kernel; nothing else is lost; web requests exclude each other |
| `HostProxyDisable` | the same | **violated**: disable without an enabled node (below) |
| `RulesRepo` | 2 processes, 3 commands, 2 rule sets with a shared entry and a comment, 1 fault | every file stays one that renders unless two overlapping writes have mixed it; a damaged rule set is refused by all later commands and never rewritten; undisturbed edits and renders are exact |
| `Console` | 2 pages, or a page and a shell that has read the document; 2 commands and any number of listings; 2 manual nodes, 1 of a subscription | every request is answered; a render is whole unless one outside the lock cuts across; a command meets the node that was shown |

**Why the bounds are enough.** Two keys give a duplicate and a fresh link, two words and three
suffixes a name conflict, a reserved name and a rename to a free one, and two rules per list are what a
rename needs to make two rules equal. Two
processes and three commands give every pairwise overlap plus a reader of its outcome. The routing
configurations are the explicit-only one, everything on, and one without DNS hijacking and host
output, so each apply meets leftovers it must drop and ones it must rebuild; `MaxJumps` = 2 is
the most two overlapping programs append. In `HostProxy` two calls give every pair of kinds, two
faults fail a transaction and then its rollback, and the two documents differ in every field. In
`Lifecycle` the listings have tags of two lengths and one with a zero in front, releases of
one day and of several, ones without a match, not alpha, not a prerelease, with the level left open
and with a name that is not packed or misspelled; one process at a time
takes commands and upgrades in every order, and `LifecycleProofs` has what holds of more. In `Console` two commands are what it takes to overlap, and the shell
that has read the document before the run begins gives a stale save without spending a third.
In `RulesRepo` three commands give a pair that overlaps and one that meets the outcome; numbers
run from 0 to 4, past the end of the three entries a file can have without damage; the tails make
of the rest of a line a second copy of an entry, or one that is not accepted. This is the longest
run, about 2.2 million states and two minutes. The two processes of each are symmetric, and only
invariants are checked there. Four binaries are one per class - installed, works,
answers only, answers not.

**Deadlock.** `StateStore` and `Service` stop for good once a save died half-way (the file is
unreadable and every command refuses), and the runs that bound the number of commands (`RoutingOverlap`,
`HostProxy`, `RulesRepo`) stop at their bound.

**Fairness.** Three properties need it.

- `ProgramsEnd` (`Routing`): weak fairness of `Command(p)`, the next command of a program that is
  running. A program is one process that issues its next child process when the last has returned,
  and the runner ends each after 30 s. Beginning programs, and failures, are not fair.
- `WaitingComesBack` (`Lifecycle`): strong fairness of `RetryUp`. systemd tries every five seconds
  for as long as the unit waits, and an upgrade takes the core away for an instant only; an endless
  series of upgrades could otherwise meet every attempt in that instant.
- `RequestsAnswered` (`Console`): weak fairness of `Progress(p)` for the web's requests, since
  files, child processes and fetches end (30 s each), and strong fairness of `Lock(p)`, since
  `sync.Mutex` hands itself to a waiter it has kept for over a millisecond. Nothing is assumed of
  bodies, because the server sets no read timeout: the property has instead the premise that no
  body is awaited for ever with the mutex held.

### Disagreements the runs show

1. *RemoveNode and AUTO* (`app.go:687`). Disabling a node validates the whole document first;
   removing one only looks for rules that name it. With an AUTO rule, removing the last enabled node
   saves a document every render refuses, and the running core keeps the node. `docs/STATUS.md:15`
   promises render and restart after every node command.
2. *A failing check is read as absence* (`app.go:2232`). `deleteJump` stops when `iptables -C`
   fails, whatever the reason, and the chain is flushed with its jump live. `docs/DECISIONS.md:54`
   wants clear-up failures to stop the program so that no half-old, half-new rules are written.
3. *The preserved backup* (`core_upgrade.go:127`). A retry removes `.bak` first. `docs/STATUS.md:86`
   says it is preserved when a rollback failed.
4. *Disable without nodes* (`app.go:1022`). `ApplyRules` asks for an enabled manual node whenever
   anything is routed, so a confirmed `host-proxy disable` on a host whose last node was disabled
   fails at apply, saves the switch as on again, and fails at apply once more.
   `host_proxy.go:32` says it turns the host proxy off after confirmation, and
   `.trellis/spec/backend/error-handling.md:59` asks for a node for enable only.

Some things met on the way have no promise in the repository to compare with, so no run claims
them: a file cut by a crash, or read between the cut and the write of another save, counts as the
default configuration and `Ensure` stores it (`config.go:116`); the manifest is copied before the
files it names, so an initialisation killed after it is never completed (`rulesrepo/repo.go:48`);
two saves of `config.yaml` that overlap may leave a file that does not parse, which only the web
editor can then replace (`config.go:160`), and two edits of a rule set one that lists an entry twice,
which every later command refuses until somebody edits the file by hand (`rulesrepo/repo.go:371`);
`host-proxy` saves the copy it read before its prompt over whatever was saved meanwhile
(`host_proxy.go:59`); `core-upgrade-alpha` has no guard, so on a host before its cutover its restart
leaves a unit that is not enabled in systemd's retries until somebody stops it
(`core_upgrade.go:160`); a `stop` while the guard blocks `clear-rules` leaves the rules in place
(`runtime.go:335`); tags that are equal but for zeros are compared by their whole length, so among
them the choice depends on the order of the listing (`core_upgrade.go:426`), and an asset whose
prefix is not in lower case is a candidate whose CPU level is not recognised (`core_upgrade.go:296`);
`handleRules` reads its body with the mutex held, so a body that does not end stalls the whole web
(`webui.go:306`); a page keeps its list after a removal that was saved and not applied, so the
operator's next click may meet another node (`webui_static/app.js:94`); and renders of a shell and of
the web that overlap leave files of two documents until the next render (`runtime.go:118`).

## 5. What is proved

Every theorem holds for every value of the constants. The assumptions are the named ones of the
modules (`DocAssumption`, `StoreAssumption`, `ServiceAssumption`, `RoutingAssumption`,
`UpgradeAssumption`, `HostProxyAssumption`, `DocumentsAssumption`, `RepoAssumption`,
`ConsoleAssumption`), which TLC evaluates in the runs: they give the constants their types, keep
markers such as `Nobody` and `Missing` apart from the values beside them, and take the shipped rule
files to be ones the tool itself accepts. Three hypotheses are more than that, and stand in the
theorems that need them: `OneProcess` and `OneAtATime` (commands, or upgrades, that do not overlap;
the code takes no lock) and `~Misread` (an `iptables -C` that fails means the rule is not there; the
run `RoutingMisread` is what happens without).

Each theorem about a safety property follows the same argument: an inductive invariant that says
more than the property, one lemma per action (or per kind of action) that keeps it, and the property
from the invariant. What has to be added, and why:

- **`StateStoreProofs`** - `TypeCorrect`; `StoredConsistent`, from `StoreInv`: the stored document
  *and the private copy of every process* are consistent, all subscription ids come from `newID`, and
  a refresh only holds ids of its own copy. The copies are what makes it inductive: a save of a stale
  copy is harmless to consistency because each copy was consistent when loaded and every operation
  keeps it so. The lemmas per operation come first in the module. `IdentitiesKept`, `TargetsKept`,
  `RulesKept` and `SubscriptionsKept` are its parts, the invariants of the runs. `UnreadableStays` and
  `RefreshKeepsManual` follow from type correctness and a case split on the actions; the second also
  says that a refresh drops nodes only of a subscription whose new body has just arrived.
- **`ServiceProofs`** - `ServiceImplementsStore`: each step of the service is a step of `StateStore`
  or leaves its variables alone, so `ServiceStored` gets the document's consistency for free.
  `ServiceTypeCorrect`, where `Placed` says at which stage of the store each phase of a render may be.
  For one command at a time: `RenderedResolves`, where `HalfRendered` says that between the two halves
  of a render the provider is that of the process's copy, which `ValidateRuleTargets` has accepted;
  and `AppliedIsLoaded`, where `Fresh` says that a command past its load or save works on what is
  stored, and `WholeRendered` that the provider written is of that document. With overlapping
  commands neither would hold.
- **`RoutingProofs`** - `TypeHolds`, misread checks included: no built-in chain ever jumps to a chain
  that is gone, since `-X` refuses a chain that is referenced and `-A` a chain that is missing. The
  other results are about a program that runs alone. `Place` says that it has done the first `k` steps
  of its sequence, and may be about to delete a jump it has found or to add one it has not; `SoFar`
  what these `k` steps have made of the kernel, *whatever they found in it*: which jumps are gone, which
  chains are empty or hold how much of their body, which jumps and rules are in. `RoutingInv` is
  `SoFar` for every program that is alone, that no other runs beside it (`Solo`), that programs which
  have not overlapped are alone (`Serial`), and `LiveChainsWhole`. With it, `LiveChainsAreWhole`: up to
  its fourth step a program only takes jumps away, from then on those that are in have their chains
  complete behind them, and one that fails leaves what its last step left. `SuccessLeavesExactly`:
  after the last step `SoFar` is the configuration, so success is exact and idempotent whatever earlier
  programs, failed, killed or interleaved, have left. Programs that overlap keep nothing of this, and
  the invariant claims nothing about them but types.
- **`LifecycleProofs`** - of the upgrade: `TypeCorrect`; `NeverWithoutCore` and `OldCoreKept`, from
  `UpgradeInv`, which says at each stage which file holds the old core; `ImplementsAtomicCore`, where
  each step is one of `AtomicCore` or a stutter. All but the first assume `OneAtATime`. Of the
  lifecycle: `LifecycleImplementsUpgrade`, step by step, so `LifecycleKeepsCore` carries
  `CoreRecoverable` over; `LifecycleTypeCorrect`; `StandsAsideAlways`, by cases on who acts, for any
  number of commands and upgrades at once.
- **`HostProxyProofs`** - all safety properties, from `HostInv`: `Values` are the types, `Exclusive`
  says which request the mutex belongs to, and of each call, `Placed` which phase and step it may be at
  and `Tracking`, for one nobody has disturbed, how its copy, the file, the runtime files and the kernel
  relate there: what the phase has already reached, and that the rest is still as the call found it.
  The rollback is the case that needs it, since it runs the same three steps with another aim. A
  garbled file is never one an undisturbed call left, since nobody else wrote after its cut.
  `ChangeReachesAll`, `RollbackRestoresAll`, `SettingsAreKept` and `WebIsSerial` read it off.
- **`RulesRepoProofs`** - `FilesStayRenderable`: every file is acceptable or one of those that
  overlapping writes have mixed (`Sources`), through failures and kills, because what a command is about
  to write is acceptable on its own (`Placed`), and a write leaves that, or what was there, or a
  mix. It claims nothing of the mixed ones; `DamageIsPermanent` does: a file that is missing or
  lists an entry twice makes every command that reads it fail, so once nobody is about to write it,
  nobody will be (`DamageStays` needs no more than the types). A mixed file with a broken entry but no
  double one is outside both: edits still accept it, renders refuse it. `RendersExactly` and `EditsExactly` need `Tracks`: what an undisturbed command has copied, read and
  computed so far is what the files before that point call for (`Before`, `Wanted`). What the loops
  over lines compute for lists of any length is in **`FilteringProofs`**: `Without`, a recursive
  function, by an induction over the set of the lengths at which a fact holds, which gets by without
  the library's induction rules.
- **`ConsoleProofs`** - `IInv` is `Shape` (types as far as it needs them), `Exclusive` (a request past
  the mutex is the one that holds it) and `WholeSoFar` (a process in the middle of a render that nobody
  outside its lock cut across finds in the files what it has written); `OneRequestAtATime` and
  `WholeRenders` follow. `ListInv` adds the full types with distinct nodes (`Typed`), that an index
  that waits to be used is one of the list on the screen (`Picked`), and that such a list, unless it
  was overtaken, still heads the document and the copy about to be edited (`Overtaken`);
  `ConsoleTypeHolds` and `CommandsActOnNodeShown` follow.

The run `RoutingOverlap` asks nothing beyond `RoutingProofs`: its repair after an overlap is a case
of `SuccessLeavesExactly`.

Only model-checked: the liveness properties `ProgramsEnd`, `WaitingComesBack` and `RequestsAnswered`,
which are out of the prover's reach, as is everything under fairness; `DownloadsNewestFit`, whose sort
is a fold over the listing; and the violations.

## 6. Not modelled

Text: link parsing, YAML, message wording, listings, journal output. Data without control: ports,
CIDRs, mark values, display times and counts of subscriptions, the index an operator types. The
filesystem is the one the code sees: rename and remove are atomic, a write is truncate then write,
and a power loss that loses renamed data is not considered. `newID` is taken to be unique, although
it is the clock in nanoseconds. In `HostProxy` the two programs of two overlapping
`apply-rules` do not interleave (that is `RoutingOverlap`), and in `Lifecycle` a program is one step.
Of the web, authentication, static files, the overview and the log pages are left out: they change
nothing. Of the menus, only the node menu keeps something across a prompt. Conversion of links and
the values in the rendered YAML are pure text, with no state to relate. The addresses that
`containerBypassIPs` reads once from docker (`app.go:2271`), and that drop out when docker fails, are
data of a routing configuration too. The order in which `RemoveSubscription` deletes a cache file and
saves (`app.go:865`) is modelled, but no property says that a subscription has its file. These components are listed
in `PROJECT.json` with their status.
