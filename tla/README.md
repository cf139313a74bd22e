# Verification of meta-openembedded

TLA+ models, TLC runs and TLAPS proofs for the programs of the
meta-openembedded layers. Paths are relative to `src/`.

The repository is mostly declarations: 2519 BitBake recipes, patches to other
projects, licence texts and configuration. What executes and decides something
is a few dozen programs and scripts that the layers carry themselves. This
project models those where order, concurrency, failure or accumulated state
matters, the heaviest first.

Contents: [inventory](#inventory), [modules](#modules), [runs](#runs),
[proofs](#proofs), [what is only model-checked](#only-model-checked),
[what is not modelled](#not-modelled), [plan](#plan),
[how to run](#how-to-run).

## Inventory

### Modelled

**Offline systemctl** (`meta-oe/recipes-devtools/systemd/systemd-systemctl/systemctl`).
A Python program that runs at image build time, when no systemd is alive, and
populates `/etc/systemd/system` of a root file system.
- *State*: the symbolic links below `etc/systemd/system`, `etc/machine-id`;
  within a run the remaining arguments, the set of units `preset-all` has yet to
  visit, and the recursion of `SystemdUnit.enable` through `Also=`.
- *Operations*: `enable`, `mask`, `preset-all`. They read unit files and
  drop-ins from three locations (two when `/lib` is a symlink) and preset files.
- *Interactions*: package post-installs and the image class call it one after
  the other on the same root; what one call linked, the next finds.
- *Hard*: it iterates over a Python set, so in no fixed order; links it made
  are files the same run finds later; `Also=` recurses without memory; it may stop
  anywhere (missing unit, a file where a link should go, recursion limit, kill)
  and be run again; drop-ins, templates and aliases combine.
- *Correct when*: links are exactly those the `[Install]` sections and presets
  call for, whatever the order and whatever was interrupted; nothing made before
  is redirected; a mask stays a mask; `machine-id` is never early.

**OpenIPMI helper** (`meta-networking/recipes-support/openipmi/files/openipmi-helper`).
The shell script behind `ipmi.service`.
- *State*: loaded kernel modules, device nodes, `/var/lock/subsys/ipmi`, and
  during a run `RETVAL` and the position in the script.
- *Operations*: start, stop, stop-all, restart, condrestart, start/stop of
  watchdog and power control, four status queries, usage.
- *Interactions*: with the kernel through `modprobe` and `lsmod`; with udev, that
  makes nodes when it gets round to it; with applications that hold a device open;
  with a service manager that may kill it between two commands.
- *Hard*: every `modprobe` may fail alone; what the script looked at changes
  before it acts; the wait for `/dev/ipmi0` is bounded; errors are bits that
  later code may clear.
- *Correct when*: a status without an error, and the lock file after a start or stop that came to its
  end, say what the kernel has; a stop keeps watchdog and poweroff going; a stop-all is complete or says so.

**pxaregs** (`meta-oe/recipes-support/pxaregs/pxaregs-1.14/pxaregs.c`, as built, with the
recipe's patches).
A C program that dumps and sets the registers of a PXA250 through `/dev/mem`.
- *State*: the registers, which outlive and are shared by all invocations; in
  one invocation the loop index, the cached word and the static `newaddr`/`lastaddr`.
- *Operations*: dump all or matching rows; set one field by read-modify-write.
- *Interactions*: none of its invocations locks anything; the hardware changes
  bits of its own accord.
- *Hard*: the gap between load and store; addresses, masks and shifts of 1320 rows written by hand; a cached
  register word printed across several lines.
- *Correct when*: a store changes its field and nothing that stood still; a bit
  nobody sets stands still; field lines belong to the word printed above them; every name of
  the table stands for its own bits of its own register.

**gitpkgv class** (`meta-oe/classes/gitpkgv.bbclass`).
Python that BitBake evaluates whenever a recipe's `GITPKGV` or `GITPKGVTAG` is expanded.
- *State*: in each unpacked repository a file with the number of commits up to the
  revision; in a call the url it is at, an open file, the version so far.
- *Operations*: `get_git_pkgv`, with and without tags.
- *Interactions*: tasks of one recipe (the package writers, for one) run at the same time and
  share the file without a lock; `do_unpack` replaces the repository; a build is killed.
- *Hard*: test, size test, removal, creation and reading of the file are separate system
  calls; a new file is empty until it is closed; a failing git is not noticed in a pipe.
- *Correct when*: no version carries a number that is not the revision's, and what a
  killed or failed call leaves does not get into a later one.

**dnsmasq under resolvconf** (`meta-networking/recipes-support/dnsmasq/files/dnsmasq.resolvconf`
and `init`).
- *State*: resolvconf's records of nameservers, one per interface; the list that the hook
  writes and its times of access and modification; a temporary file per hook process; the
  daemon, the modification time it saw last and the list it serves; the init script's position.
- *Operations*: the hook (list the records, read them, compare a time, perhaps sleep, write
  the temporary file, rename it); start, stop and restart of the init script.
- *Interactions*: resolvconf runs the hook whenever a record changes; the init script changes
  a record itself, which runs the hook in its midst; the daemon polls the list.
- *Hard*: records change between listing and reading, and between the reading of one and the next;
  times have a resolution of a second; a second may begin while a hook writes; a hook may fail under
  `set -e`, or go on where `set -e` does not look, be killed and leave its file to a
  process of the same number; two may overlap; the init script may end between any two commands.
- *Correct when*: the list is a whole one, of records as they have been while the hook ran, unless a
  command failed unnoticed; the last update is noticed; dnsmasq is not told to ask itself, and nobody is told to ask
  a dnsmasq that is not there.

**zram init script** (`meta-oe/recipes-extended/zram/zram/init`).
- *State*: the module's devices, their sizes, swap headers, which of them are swapped on; the
  script's loop.
- *Operations*: start, stop, restart.
- *Interactions*: with the kernel, which refuses to reset a device or unload a module in use.
- *Hard*: `set -e` ends the script where something fails, with some devices done; CPUs may come and go
  between the two counts; devices are looked up by the beginning of their names.
- *Correct when*: a start that ends well has a swap per CPU within the memory configured;
  what failed half way can be cleared up by running the script again.

### Not modelled yet

| Component | State and operations | What is hard | Properties worth having |
|---|---|---|---|
| Signing class (`meta-oe/classes/signing.bbclass`) | SoftHSM tokens, roles, key/certificate slots, CA links | roles imported in any order, a role defined twice, cyclic CA links | a signing role always has key and certificate; the CA chain ends |
| dm-verity image class (`meta-oe/classes/image_types_verity.bbclass`) | sizes and offsets of data, padding and hash tree | rounding at block boundaries | the hash tree begins where the header says and overlaps no data |
| check-version-mismatch, fitimage classes | pure translation of tables and text | little state | output mentions exactly the declared parts |
| zram systemd scripts (`zram-swap-init`, `-deinit`) | one device, its size and header | the unit that swaps it on is another | init and deinit are inverse |
| Android gadget scripts | configfs tree | order of linking and binding; interruption | cleanup can always run to the end |
| conntrackd fail-over | external and internal cache, kernel table | roles change while caches are flushed | exactly one primary commits |
| Database start-up scripts | data directory, initialised or not | interruption of the first initialisation | never serves a half-made directory |
| Daemon init scripts (some sixty copies of a pattern) | pid file, process | stale pid, double start, racing stop | at most one daemon per pid file |

Left aside for good, with the reason in `PROJECT.json`: the remaining
bbclasses, the webmin installer and `oe-stylize` (one sequential pass without
state between runs), `usleep` (one number handed to one library call), dnsmasq's systemd helper
(its order is systemd's), and the recipes, patches, licences and data.

## Modules

| Module | Role |
|---|---|
| `Systemctl` | the offline systemctl: state, actions, properties, mutated definitions |
| `MCSystemctl` | image families and command lines for TLC |
| `SystemctlProofs` | theorems about `Systemctl`: types, links, masks |
| `PresetProofs` | theorems about `preset-all` and about recursion, on top of those |
| `CommandProofs` | theorems about the end of commands, on top of `SystemctlProofs` |
| `IpmiHelper`, `MCIpmiHelper`, `IpmiHelperProofs` | the same for openipmi-helper |
| `PxaRegs`, `MCPxaRegs`, `PxaRegsProofs` | the same for pxaregs |
| `PxaTable`, `MCPxaTable` | the table of pxaregs row by row, and `PxaRegs` given it and 32-bit words |
| `GitPkgV`, `MCGitPkgV`, `GitPkgVProofs` | the same for the gitpkgv class |
| `ResolverList` | abstract specification: updates that publish a list of nameservers in one step |
| `Dnsmasq`, `MCDnsmasq`, `DnsmasqProofs` | hook, daemon and init script, which implement `ResolverList` |
| `Zram`, `ZramProofs` | the zram init script; its constants need no MC module |

A definition whose name starts with `Mutant` is a plausible bug: the definition
named after it with one guard, assignment or operand wrong. No specification uses
them; they are there to see that the properties would notice. The programs
share no state with one another, so their modules are not composed, but for the parts of one
system: `Dnsmasq` holds hook, daemon and init script, and `MCPxaTable` joins `PxaRegs` to its table.

### Systemctl

A unit name is `<<base, instance>>`; `Plain` stands for no `@`, `Bare` for a
template without instance. `links` is a set of records `[at, to]`; a path says
whether it lies in `system/` itself (aliases, masks) or in `<unit>.wants/` or
`.requires/`. An image is a record of what a root holds at first: entries of the
three locations, `[Install]` keys of files and drop-ins, presets, shipped links.

| Model | Code |
|---|---|
| `Locations`, `FoundIn`, `FirstIn`, `RegularIn` | `locations`, `_path_for_unit` and the tests of `enable` before it parses |
| `Config` | `SystemdFile`: the unit file, then the drop-ins of every location, values appended |
| `ServiceOf`, `DefaultInstance`, `NoInstance`, `TemplateOnly` | instance and template handling at the start of `enable` |
| `PresetFiles`, `PresetState`, `Unparsed` | `Presets`: name-wise override, sorted files, first match |
| `AddLink` | `add_link`: returns if a link is there, fails if a file is |
| `Call`, `NewFrame` | entry of `SystemdUnit.enable`, up to its first link |
| `DepStep`, `AlsoStep`, `AliasStep`, `Return` | one round of each loop of `enable`, in the order of its loops |
| `Start`, `EnableNext`, `MaskNext`, `PresetNext`, `Finish` | `main`, `preset_all`, `SystemdUnit.mask` |
| `Killed` | the build is interrupted between two links |

An exception ends the command: `exit` is `sys.exit`, `index` the IndexError of a
blank `DefaultInstance=`, `exists` the FileExistsError of `os.symlink`,
`recursion` Python's RecursionError. `machineId` is only ever touched by
`Finish`, as `preset_all` does it last. Text parsing is left out: an image
holds parsed keys and directives (`Blank` keeps apart an empty assignment from
none, `unparsed` is the line on which the preset parser gives up). `settled` is
history: a `preset-all` succeeded and no other command ran since.

### IpmiHelper

The script is straight-line shell; `prog` is the sequence of instructions that
is left of it, each instruction one step, so that the environment moves between
any two commands. Functions are expanded where the script calls them (`UnloadAll`,
`LoadModules`, ...), early returns cut the sequence (`AfterLoad`). `retval` is the
set of weights set in `RETVAL`, and keeps the odd `&&` chain of `load_ipmi_modules`
(`Bail`: the return is taken only when the last command of the unload succeeded).
`settled` is history: the last command that loads or unloads the modules came to its end, and `RETVAL`
had nothing to say of the hardware modules or of the unload (`Settle`).
The kernel is external: `CanLoad` says what a `modprobe` may leave loaded (all, nothing, or
only the base it pulled in), `Unloaded` what `modprobe -r` removes (nothing that is in
use, and the base with its last user). `Udev`, `Hold`, `Release` and `Killed` are the
environment. A status command reads all it prints in one step.

### PxaRegs

A word is the set of its one-bits, so shifts and masks are set operations and the
width is a constant. `proc[p]` holds what invocation `p` has come to use: nothing
(`Idle`), a dump with its static variables, a set before its load, a set between load
and store. `raced` is history: the bits of the register that changed since the load.
`vals` of a call is a set because the code ignores what `sscanf` returns (an
unreadable value leaves the variable as it was: any word). `Fail` covers open, mmap
and kill: each ends the process. The hardware flips only bits of `Volatile`;
registers on which *writing* a one clears a bit are not distinguished from memory.

### GitPkgV

A file is an inode: `path` is the directory entry, `data` the content, so a call keeps
a file that another one removes. Each system call of `get_git_pkgv` on the cache file is an
action of its name (`Exists`, `Size`, `Count`, `Remove`, `Create`, `Close`, `Open`, `Read`,
`Describe`), `Url` the head of the loop; ends are `done`, `none` (not unpacked) and
`raised` (the file went away under `getsize` or `open`). A number is `n` (the right one),
`0` (what stands for a git that failed) or `empty`; the version is the sequence of what each
repository contributed. `tree` says what git finds: it may fail while a
repository is being unpacked. `hist` is history: `alone` while no other call ran beside
this one, `warm` when everything was cached at its beginning.

### PxaTable

`RegTable` is `regs[]` as the recipe builds it: with the rows that `usb.patch` and
`serial.patch` add (7), and without those for boards nobody defines (`CONFIG_ARCH_RAMSES`,
`CONFIG_ARCH_PXA_IDP`): 1320 rows. A row is a name, an address, a shift and the set of bits of its
mask; types and descriptions are left out. The definitions follow the table's groups, and use its
regularities: `Register` is a row for the full word and its fields, `Numbered`
counts fields up, `Pins` is a bit for each of 85 pins in three registers. Where the
table is irregular, so is the model: names of another register (`Named`), FBR1
at FBR0's address, PRESCALE of the pulse width modulators one bit too wide. What the board-specific part
would add is not harmless: its UARTD rows repeat names, which `setreg` refuses.

### ResolverList and Dnsmasq

`ResolverList` keeps the records, the list published, the list served, and for
each update its `window`, the records as they have been since it began; a fifth, `faulted`, names the
updates some command of which has failed. `Publish` takes, in
one step, the records to ask from one moment of the window, and what each of them holds from a moment of its own
(`Readings`); an update in `faulted` may publish a part of that.
`Dnsmasq` implements it: `published` is the list in the file, `served` what the daemon has
read, `window` is a history kept in the hook's process, and `faulted` are the hooks whose `cut` is set. Everything between
(temporary files, times, polling, the init script) is a stutter of the abstract specification.

| Model | Code |
|---|---|
| `Chosen`, `ListRecords` | `list-records` and the loop on lines 48-62; `Rank` is resolvconf's order |
| `After`, `Chosen` | `--after lo.dnsmasq` leaves out what ranks before dnsmasq's own record; the loop omits that one and stops after the next `lo.*` |
| `ReadRecord`, `Took` | `sed` and `uniquify`, lines 64-68: one record after the other, in order, each as it is when it is opened; a record that has gone lists nothing |
| `ListFails`, `ReadFails`, `StatFails` | a failing `list-records` (48), `sed` (66), `stat` or `date` (75) is a word of another command, so `set -e` does not see it: the hook goes on with what was printed |
| `Stat`, `Wake` | lines 75-77: the time of last *access* (`%X`) against the present second |
| `Truncate`, `Append`, `Rename` | lines 81-83; truncation keeps the time of access of a file that is there |
| `Fail`, `Kill` | `set -e` for the other commands (mkdir, sleep, redirections, mv) and for a shell that cannot fork, with the trap of line 80 once it is set; a kill without it |
| `Spawn`, `Announce`, `Retract`, `KillDaemon`, `Returned` | the commands of the init script; `Returned` waits for resolvconf |
| `GiveUp` | `set -e` or a kill ends the init script before any of its commands |
| `Poll` | dnsmasq, as the comment on lines 70-74 has it: it reads the list when its mtime is another |

`Resolvconf` changes a record and starts a hook; resolvconf renames a record into place, so each is read as a
whole. A list is the set of its nameservers: their order, which `uniquify` keeps, is left out. `env` says what a
machine's hooks may do: overlap, be `slow` (a second may begin between truncation and rename), be killed, be `faulty` (go
on after an unnoticed failure). `Calm` is none of the four. A reader moves the file's
time of access only when it is not after the time of modification, as file systems do by
default (relatime). That is why `%X` works in calm conditions: the time of access is then
never before the mtime nor after the present, so a list of the present second has it, too. The
process numbers are few, so a killed hook's file is met again by the process that gets its number.

### Zram

Each command of `start` and `stop` that can fail is a step; `Refused` ends the script before any of
them, for whatever reason of the kernel's. The refusals that follow from the state are in the
actions: `Reset` of a device that is on or not there, `SwapOff` of one that is not on, `RmMod` of
a module in use, `Count` of no CPU. They end in `aborted`, the others in `refused`: the
properties are about the first. `Matches` is what grep finds for `/dev/zram$i`. The CPUs are
read at `Count`, so those in `num` may be stale.

## Runs

| Run | Question | Instance |
|---|---|---|
| `SystemctlPresets` | does preset-all produce what the image calls for, once or again, interrupted or not? | 609 images, 2 commands |
| `SystemctlCommands` | do enable, mask and preset-all in any order keep each other's links, and does each step bring them nearer to an end they reach? | 228 images, 9 command lines, 2 commands, fairness |
| `IpmiHelper` | do status, lock, nodes and kernel agree? | 96 configurations, all commands, unboundedly many |
| `IpmiInterfaceReported` | does a start report every interface that is missing? No: a violation, see below | as `IpmiHelper` |
| `PxaRegs` | do races stay inside the raced bits? | 2 invocations, 7 rows on 2 registers, 3 bits |
| `PxaTable` | is the real table sound: does each name reach its own bits, and is each register dumped once? | 1320 rows, 32 bits, every name set to zeros and ones over zeros and ones |
| `PxaTableShown` | does a dump of both frame buffer registers show both? No: a violation, see below | as above |
| `GitPkgV` | which calls get the numbers right? | 2 tasks, 2 repositories, one tagged; unboundedly many calls |
| `GitPkgVSortable` | does every version have its number? No: a violation, see below | 2 tasks, 1 repository |
| `Dnsmasq` | what do hooks publish, and what does the daemon serve? | 4 records, 2 hooks, 6 machines (`Machines`), 2 seconds and those slept, fairness |
| `DnsmasqMtime` | is the new mtime always another? No: a violation, see below | serial hooks, slow or not |
| `Zram` | why do start and stop fail, and what have they achieved when they do not? | 0, 1, 2 or 11 CPUs, 4 changes |

### Bounds and why they are enough

*Images.* `AlsoRoots` are all 125 `Also=` graphs of three units over five lists
(nothing, each unit, a pair), each with and without a preset that disables two
units: chains, self-references, 2- and 3-cycles, disabled units pulled in. A cycle
through more units behaves as the 3-cycle. `AliasRoots` let two units claim the
name of a unit, of each other's alias, of an administrator's file, of a mask and of nothing.
`TemplateRoots` combine every source of `DefaultInstance` with dependents of both kinds, an
`Also=` to an own instance, to another unit and to a missing one, and preset
files that override one another by name. `CornerRoots` are the three cases that the
properties except (see [Properties](#properties)): they keep the exceptions from being empty. `MaxDepth` stands
for Python's recursion limit, 1000 in the program. `AcyclicAlsoTerminates` speaks of a limit of at least two calls per unit that
can be enabled, and 6 is that for the three units of all images but one (in
`SystemctlCommands` 4 suffices: its `Also=` lists never go deeper unless they circle). `MaxCmds` = 2: a property of this program relates one command to what an earlier
one left, whose state is in the links alone; interrupted runs count as commands.

*IPMI.* Nothing bounds the number of commands: the state is finite. Hardware modules
`ipmi_si` and `ipmi_smb` are treated alike by the script, except that si comes first, so
of the two configurations with one of them one is left out. `DevTimeout` is
150 in the script; the wait does the same in every round and the outcome (node
came, or not) is the same for 1.

*pxaregs.* Two invocations race as any number does, for a store is disturbed by "the others"
only. The table has a row of every shape of the real one: a register in
full, a field at shift 0 and above, overlapping fields, a register at address 0 (the
initial value of `lastaddr`), a name that stands twice. `p1`, `p2` are
interchangeable model values in the specification, properties and calls, so `Swapped` is
a sound symmetry; no liveness is checked under it.

*gitpkgv.* Calls, kills and unpacking are not bounded. A task that has ended its
call may begin another, so two tasks already give a reader beside a writer, two writers, and
a reader that follows one writer and meets the other. Two repositories make a call go round its loop and
let calls be at different files. `Inodes` = 3 is enough that `Create` always
finds a free one: an inode is in use as a directory entry (2) or held open by a running call,
and the creating call holds none and its entry is gone.
`t1`, `t2` are interchangeable, as above.

*pxaregs' table.* One invocation, since `PxaRegs` is where they race. A field that spills or
overlaps changes another one when all ones are stored over zeros, or zeros over ones; states
after a store are checked and not continued from, as a second store says nothing new of
a row. Dumps are of all names, and of the two frame buffer registers.

*dnsmasq.* The records are dnsmasq's own, one of an interface, another local one and one of an interface behind
that: what it takes to omit a record, to choose one or two, to stop after the local one and to choose the
last only while that is not there. So two records are read at two moments, and lists that were the records' at
no moment do get published. Each machine of `Machines` has bounds of its own, `changes` of interfaces' records
and `events` (commands, deaths, kills, reboots; what the init script changes is not counted): calm ones with one
change and two events, and with three and one; a slow one whose hooks are killed; a slow and faulty one;
one whose hooks overlap through four changes; and one that is all of it, with one of each. `MaxTime` = 2 bounds the clock except
for a hook that sleeps; a longer pause differs from a shorter one only in that all times compared are past.
What bounds cannot show, that no more changes, records or hooks make a difference, the theorems do.

*zram.* One CPU is a loop that ends at once, two one that goes round, eleven the least number with a
device whose name begins with another's (zram10), and none is what grep fails for.
`MaxChanges` = 4 lets two commands fail, or CPUs come and go, before a third is
judged. Memory is 1015, so that both divisions leave a remainder.

The runs of `Systemctl`, `Dnsmasq` and `Zram` say `CHECK_DEADLOCK FALSE`: after the changes
allowed nothing is left to do. The others check deadlock.

### Fairness

Only liveness uses it. `Systemctl` has `WF_vars(Step)`: `Step` is the program's own next
instruction, of one sequential process, which the operating system schedules as long as it is
runnable, and nothing in it blocks on another process. Nothing is asked of kills or of
new commands.

`Dnsmasq` has weak fairness of `Tick` (time goes on), `Poll` (a running dnsmasq polls, which
is what lines 70-72 of the hook rely on) and `Hook(p)` (a process that can run is run). Nothing is
asked of resolvconf, of failures, or of the init script. `Tick` stops at
`MaxTime` unless a hook sleeps, so `Wake` is always reached.

The others have no liveness property: pxaregs and gitpkgv have no loop that depends on anybody
else, the loops of zram are over a fixed number, and the only wait of openipmi-helper counts down.

### Properties

Of `Systemctl`: `LinksJustified` (a link made is owed to the unit file it points
to), `FirstLinkWins` (paths keep their targets), `MaskFinal` (no new link to a masked
unit), `PresetExact` (the links are the closed form `Expected`, computed from the image
alone), `MachineIdMeansPopulated`, `Idempotent`, `AcyclicAlsoTerminates`, `CommandsAdvance`
(each step ends the command or lowers what is left of it, lexicographically: the units not begun,
then the lines of each active call from the outermost), `CommandEnds`.
`PresetExact` and `MachineIdMeansPopulated` assume `Collisionless`: with two units
claiming one alias the outcome does depend on the order of a Python set, and the images
of `SystemctlPresets` include such collisions for `Idempotent`, which holds nevertheless.
What exactly they must except came out of the proofs:
- An alias such as `foo@1.service`, where `foo@.service` is there, is a file in `/etc` once it
  has been linked. The run that linked it had collected its units before; the next
  run finds it and enables it. So `Idempotent` holds unless such a name is not there at first
  (`AliasesExist`), and `Collisionless` excludes it.
- The guard `caller_unit != also` compares a unit *file* with a name. When an instance
  `foo@1` asks for `bar` and `bar` for `foo@.service`, the latter is taken for its caller and skipped, and
  what `foo@.service` asks for by its default instance is linked only if it is a unit
  of the presets itself (`Untwisted`).
- A link in `/etc` to `/dev/null` that is not a mask, in a `.wants/` directory say, is in the way of the link the image calls for.
- A template that names an instance of its own in `Also=` recurses without end although no unit names
  itself, while a plain unit that names itself does not: the second call is skipped.
  `Tangled` counts the first as a cycle and the second not.

Of `IpmiHelper`: `StartedFully`, `StopLeavesFeatures`, `StopAllClean`, `LockAgrees` (what condrestart and
status-all read from the lock is true of the kernel: with it the hardware modules are loaded, without it no
interface is; after a start or stop that was killed, or whose status named a hardware module (bit 0) or an unload
(bit 5) that failed, the two may be apart in either direction, until the next that comes to its end; nothing else parts
them), and `NodeReported`: without udev, a start that loaded an interface either made its node or says so in bit 2.
With udev it may say nothing although the wait ran out.

Of `PxaRegs`: `StoreExact`, `SpareBitsStand`, `FieldsOfHeading`.

Of `GitPkgV`: `AloneExact` (no matter what was left in the cache, a call with no other
beside it is right), `WarmExact` (on a full cache overlapping calls are right). Together they say
which part of the sharing is safe; `SortableVersion` is the rest.

Of `PxaRegs` for the sake of its table: `FieldsApart` (setting a field changes no row that does not overlap it,
raced bits excepted), `HeadedOnce` (a full dump reads each register once, and under the row of its whole word).
They hold of tables in order, and `TableSound` says that the 1320 rows are one: no name
stands twice (`setreg` would refuse it), the rows of a register stand together with the whole word first, and no two fields have a bit
in common but two in each pulse width modulator. RTAR_RTMV, RCNR_RCV and OSCR_OSCV have the
mask of a full word, so they can be set and are never printed.

Of `Dnsmasq`: `Implements` (the refinement), `PublishedIsCurrent` (without overlap, and after a hook
that published with no failure it did not notice, the list is that of the present records: a part that an earlier
hook published does not last), `NeverAsksItself`, `AnnouncedRuns` (nobody
is told of a dnsmasq that has been told to end), `CalmMtimeDiffers`, `ChangesAreNoticed` (a list
other than the served one has a time that the daemon has not seen) and `PublishedIsServed`. The
last three hold in calm conditions only: the list may go unnoticed when a second begins while a hook writes, when it
meets a file left by a killed process of its number, overlaps another, or cannot get the time from `stat` or `date`. `AnnouncedRuns` excepts a dnsmasq
that dies of its own accord, which nothing in these scripts notices; a stop, and so a restart, of
such a one fails in `start-stop-daemon -K`, and restart does not get to start. A restart may also be
refused because the old dnsmasq has not ended yet, with the record retracted: nobody is then
told to ask it. The systemd units of the recipe start dnsmasq without `-r`, and are not modelled.

Of `Zram`: `StartedFully`, `WithinFactor`, and `StartAborts` and `StopAborts`, which list *all* reasons
for which the script fails for itself. Two of them are worth knowing. With eleven CPUs or more, a
stop that is interrupted after zram1 has been switched off cannot be completed by another stop: grep finds
zram10, and swapoff fails for zram1, until a start (which fails itself, at zram2) has switched zram1 on again. And a count of no CPU ends the script before its fallback
to one. `WithinFactor` excepts machines whose number of CPUs has changed: a start
divides the memory by the number it counts.

### Where code and comments differ

Four runs refute what comments and messages say (the lines are quoted in `PROJECT.json`).

`IpmiInterfaceReported`: loading `ipmi_imb` clears the bit that a failed `ipmi_devintf` has set.

`PxaTableShown`: FBR1 has FBR0's address, so `pxaregs FBR` shows one register and `pxaregs FBR1 v`
sets the other one.

`DnsmasqMtime`: the hook compares the time of *access* with the present second to make sure of
a new mtime. A list that a slow hook created in one second and finished in the next has an old access
time and a present mtime, and the next hook replaces it without sleeping. The same happens with a
temporary file that was left by a killed hook of the same number.

`GitPkgVSortable` refutes the header of gitpkgv.bbclass, by which a version begins with a
number: two tasks that both find no file remove and create it one after the other;
the version of a call that reads between the second creation and its closing begins with nothing.

Three more disagreements of openipmi-helper with its comments follow from the text alone, and no run is spent on
them: with udev, start never looks whether the wait for `/dev/ipmi0` ran out (line 316);
status-powercontrol asks for a module nobody loads (464); and a stop that unloads
`ipmi_devintf` only in its second pass leaves `/dev/ipmi0` (285).

## Proofs

TLC settles the instances above; TLAPS proves the following for all values of the
constants, under the ASSUMEs of the modules (images, requests, configurations,
table and calls have their types; timeout, depth, memory and numbers of commands are naturals;
unit names are finitely many, as files in a root are; the commands of openipmi-helper are the labels of
the `case` that ends the script, every other word being `usage`, its default;
no row of the register table shifts a bit out of the word; no record but dnsmasq's own holds
dnsmasq's own address).

**Systemctl** (`SystemctlProofs`): `TypeOK`, `LinksJustified`, `MaskFinal`, `FirstLinkWins`. The
inductive invariant is `IInv`: `TypeOK`, `LinksJustified`, and `CallsGood`, which is what
makes the second inductive. A link's justification is the configuration of the file it
points to, but `DepStep` and `AliasStep` only see a job on a stack; `CallsGood` says of every
frame that its jobs are values of the keys of its own unit file in its own location, that
its service is a name of that file, and that it is a bare template only when
`templateOnly` is set. Lemmas about the helper operators (`FirstInType`, `ConfigType`,
`ServiceOfType`, ...) come first, then one step per action. That `DefaultInstance`
chooses an existing value rests on the least element of a set of naturals, for which
the well-foundedness theorem of the library is used. `FirstLinkWins` and
`MaskFinal` rest on `CallStepEffect`, which says which link a step of `enable` may make:
`AddLink` is the only way to one, and the file it points to was looked at by `RegularIn`.

**preset-all** (`PresetProofs`): `PresetExact`, `MachineIdMeansPopulated`, `Idempotent` and
`AcyclicAlsoTerminates`, for images of any size, presets of any kind and units in any order, with
runs that fail or are killed anywhere. What a run
has done is not in its state: a call that has returned leaves nothing but links. `RunInv` therefore says that
*there is* a set `Q` of calls (a name and who asked for it) that explains the state. Each is `Sound`
(its unit can be enabled, and it is a root of the run or was asked for by another call of `Q`); each of its
jobs is done or still in a frame that serves it (`Worked`); each frame on the stack serves a call of `Q`
(`Framed`); each unit owed a call is in `services` or has its call (`Rooted`); and without
collisions nothing outside `Reached` is called (`Within`). One lemma, `Advances`, shows that `Q`, or `Q`
with one more call, explains the state after a job; each action is an instance of it.
When the run ends, `services` and stack are empty, so everything asked for is
done: `Q` is complete. `Reached` is declarative (in every closed set that holds the roots), so that the
calls of a complete `Q` are in it is an induction that the invariant has made step by step, and
that it is all in `Q` is that `Q` is closed: no induction over data is needed.
`Strays` (nothing has been linked but what the image calls for) gives the other inclusion of `PresetExact`.
`SettledInv` keeps a complete `Q` while `settled`, which is why a further run finds every link
that it is about to make. `PresetInv` is the conjunction of these; `TypeOK` and `Facts`, what links never undo, come with it.

`AcyclicAlsoTerminates` needs `Chained`: the calls on the stack form a chain, in which each was asked for
by the one below and is not the unit that asked for that one. A stack as deep as twice the
number of units, and the call that finds it full, hold one unit twice with the same answer to
whether it is its caller (`LongChainTangles`, by the pigeonhole principle); what lies between the two
is a tangle.

**End of commands** (`CommandProofs`): `CommandsAdvance`, the safety half of `CommandEnds`, for every
image, circular `Also=` lists included. What is left is a vector: its first number is the units not begun, its number
`d + 1` one more than the lines that the `d`-th call from the outside has still to work on. A unit begun lowers the
first (`UnitTaken`; that `preset-all` has finitely many is `UnitsCount`), a line worked on the innermost
number, whatever call it puts above (`LineDone`), and so does the end of a call (`CallDone`). The vector has
room for `MaxDepth` calls, and the invariant `Shallow` says that there are never more. `CommandsMeasured` says
that it always is a vector of naturals; the lemma `LowerWellFounded` adds that no
sequence of such vectors gets lower for ever, from the library's theorem on lexicographic products of
well-founded orders. So a command that takes steps ends; that it takes them is fairness, and TLC's.

**IpmiHelper** (`IpmiHelperProofs`): `TypeOK`, `StartedFully`, `NodeReported`, `StopAllClean`,
`LockAgrees` and `StopLeavesFeatures`. What is true depends on how much of its program a command
has in front of it, and early returns (`bail`) and unloads put instructions before the rest. The
inductive invariant `IInv` therefore gives the shape of `prog` by command: a start is unwinding what a restart found, or at
its k-th instruction (`Loading(k)`: all before it is loaded or bit 0 is set), or has given up at k and unloads
with nothing loaded or bit 0 set (`Bailing(k)`); a stop-all is unloading, or about to look, or done with all gone or
bit 5 set; every other command consists of steps that touch neither base nor lock. `TypeInv` adds what
the kernel guarantees: only what is configured is ever loaded, and nothing without the base.
`ReturnToLock` is what makes the early returns harmless: whatever the instruction given up at, what comes next is the
lock. `LockAgrees` needs `LockInv` besides: once settled, what is left of a command and what runs after it touches hardware
modules only to load them; or the lock is gone, and what is left before a restart's start only unloads. The three
instructions that settle the matter are the ends of a start (`AtLock`: all before it is loaded), of a stop and of a stop-all. `StopInv` says what a running stop still has in front of it: either no more
instruction that removes a feature module or the base, or an `if_no_features` not yet
executed, or there was no feature module when that was decided. Applications and
udev load nothing, so the third case is stable. Unloading an interface takes the
base with it only if nothing else is loaded (`UnloadedModules`).

**PxaRegs** (`PxaRegsProofs`): `TypeOK`, `SpareBitsStand`, `StoreExact`,
`FieldsOfHeading`. The inductive invariant `IInv` adds to the type, for
each invocation (`Good`): between load and store, the word to store differs from memory in the field
and the raced bits only, and has the value in the field; during a dump, the
cached word is the word of the last heading, whose row has the address `lastaddr`, and
the last field printed is cut from it. Memory moves under an invocation only by
`Put`, and `NotedGood` shows that what `Noted` adds to `raced` is what `Put` changed.
`MemoryEffect` says which bits a step may touch, and the action properties on memory follow
from it: `FieldsApart` for every table, as a row whose bits are none of the stored ones reads the same
(`SameValue`). `HeadedOnce` is proved for
tables whose rows stand below their whole word (`HeadedRows`); a full dump sees every row, so
`lastaddr` is always the address of the row before (`Behind`). The hypothesis is a conjunct of
`TableSound`, which TLC finds true of the real table.

**GitPkgV** (`GitPkgVProofs`): `TypeOK`, `AloneExact`, `WarmExact`, for any number of tasks
and repositories. Neither property is inductive. For a call alone, `AInv` keeps what the
call has found out (the file is there, the file has a number, the open file has one),
which no one can change while nobody else runs. For a warm call, `IInv` says that as long
as it runs everything stays cached and *nobody* writes: a call beside it that finds
a full file never comes to count, remove or create (`WarmStep`), and calls that begin find
the same. `DescribeStep` is shared by both: a right number continues a right version.

**Dnsmasq** (`DnsmasqProofs`): `TypeOK`, `Implements`, `PublishedIsCurrent`, `NeverAsksItself`,
`AnnouncedRuns`, `CalmMtimeDiffers`, `ChangesAreNoticed`, for any records, orders, numbers of hooks and
seconds. `IInv` says what a hook knows (`HookGood`): it has what it has still to write, together with what its
file holds, from records that were chosen at some moment of its window and are not among those still to be read,
each as it was at some moment of the window (`Taken`; all of it, or a part when `cut`), and the present records are in the window. `TakenGrows`
adds one record read now. Files of processes that do
not write may hold anything, which is what makes a killed hook's file harmless: `Truncate`
empties it. `ScriptGood` says what the init script has seen to at each point. The refinement is then one
step per action: `Rename` is `Publish`, by `HookGood` with nothing left to read or write; `ListFails` and `ReadFails` are `Falter`; `Fail`
and `Kill` are `Abandon`; `Poll` is `Serve`. `Serial1`, that without overlap one hook runs and its window is the
present records, turns what was taken into the present list. `NeverAsksItself` follows from
`IInv` alone (`TakenNotSelf`). `CalmMtimeDiffers` needs an invariant of its own about times:
in calm conditions the list's time of access is not before its mtime, none is after the present, and a
hook that is past its test writes in a later second than both. `ChangesAreNoticed`, the safety half of
`PublishedIsServed`, adds `SeenGood`: the daemon has seen no later time than the list's, and serves the list whose time it
saw; `Rename` moves the time on.

**Zram** (`ZramProofs`): `TypeOK`, `StartedFully`, `StartAborts`, `StopAborts`, `WithinFactor`, for any set of CPU numbers.
`IInv` adds to them what a loop has done so far (`StartGood`: all devices before the one in
hand are on, and no others but those found at the beginning; `StopGood`: none before it is), that
the device in hand is one of the module's (`Loaded`), and that without hotplug all
numbers of devices are one (`OneNumber`). A device found on by a start is kept in `found`, which is why
a later `Reset` of it is explained. `WithinFactor` adds `Sized`: while no CPU comes or goes, a device has no size or
the share of one among as many as there are CPUs. That n shares are no more than the whole, with both
divisions rounding down, is `ShareAddsUp`, and that no more than n are on is a matter of cardinalities (`OnAtMostLoaded`).

## Only model-checked

- Liveness (`CommandEnds`, `PublishedIsServed`): needs fairness and ENABLED, which
  the prover does not handle. What they rest on besides is proved: `CommandsAdvance` with
  `LowerWellFounded`, and `ChangesAreNoticed`.
- `TableSound`: a statement about 1320 rows, which TLC evaluates at every name that can be set.

No module uses a RECURSIVE operator; recursion is written as recursive
functions, and what is reached through `Also=` as the intersection of all closed sets.

## Not modelled

- Systemctl: parsing of text (comments, continuation lines, quoting), glob matching of
  preset patterns (a directive names the set of names it matches), the
  creation of directories, file permissions, and two invocations at once on one root
  (the build runs them in sequence).
- openipmi-helper: the wording of messages, the configuration file's syntax, and the
  other processes that may load modules.
- pxaregs: write-one-to-clear and read-sensitive registers, the number formats
  printed, the rows of boards the recipe does not define.
- dnsmasq: the daemon but for its polling, `reload` and `status` of the init script, the systemd
  units and their helper, files in resolvconf's directory other than records, clocks that are set back.
- zram: the systemd scripts and the uninstalled `zramstop`, `/etc/default/zram` (the factor is a
  constant), swaps that others switch on or off.
- gitpkgv: the regular expression on tags, the text of versions and the shallow-clone
  warning; a name that occurs in another url's version; a git that prints a part of the revisions, or fails on a
  tree that is unpacked and ready (it fails only while the tree is being replaced).
- Everything listed as `not_modelled` in `PROJECT.json`.

## Plan

1. *Next modules*, by the hazards listed: `DaemonScript` (pid file, process and
   commands, instantiated for gpio-manager, collectd, tgtd, vblade, iscsi, proftpd and usbgx),
   `Conntrack` (init script and fail-over), `Database` (mariadb and postgresql
   first start), `Gadget`, `Signing` (roles and CA links), `Verity` (size
   arithmetic checked against a reference definition over bounded inputs), then
   check-version-mismatch and fitimage.
2. *Abstract specifications*: a grow-only table of links that `Systemctl` implements;
   an atomic field write that `PxaRegs` implements while no bit is raced; a lock that
   says "running", implemented by each daemon script or not.
3. *Theorems*: every safety and action property of the programs modelled is proved, for every
   table, image and number of processes; what is left are the properties of the modules of 1 and the
   refinements of 2.

## How to run

    tlc -workers 2 -config SystemctlPresets.cfg MCSystemctl
    tlapm SystemctlProofs.tla

and likewise for the other configurations and proof modules; `PROJECT.json` lists
the pairs, and maps every definition to the lines it stands for. The longest runs
take about three minutes.
