-------------------------------- MODULE Zram --------------------------------
(***************************************************************************)
(* The init script of the zram package: start loads the module with a      *)
(* device for each CPU and makes each a swap; stop switches the swaps off  *)
(* and unloads the module.  Both run under set -e: whatever fails ends     *)
(* them where they are.  CPUs may come and go between, or during, the two. *)
(***************************************************************************)
EXTENDS Integers, FiniteSets

CONSTANTS Cpus,           \* numbers of CPUs that /proc/cpuinfo may show
          Memory, Factor, \* MemTotal; FACTOR, in percent
          MaxChanges      \* bound: commands, CPU changes, reboots

ASSUME CpusAssumption   == Cpus \subseteq Nat
ASSUME MemoryAssumption == Memory \in Nat /\ Factor \in Nat
ASSUME BoundAssumption  == MaxChanges \in Nat

VARIABLES cpus,     \* lines of /proc/cpuinfo that match "processor"
          loaded,   \* devices of the loaded module, 0 while it is not loaded
          size,     \* disksize of each device
          formatted, on, \* devices that hold a swap header; that are swapped on
          script,   \* the init script
          changed,  \* history: CPUs have come or gone
          changes

kernel == <<loaded, size, formatted, on>>
vars   == <<cpus, kernel, script, changed, changes>>

Device  == UNION {0..(n - 1) : n \in Cpus}
NoSizes == [i \in Device |-> 0]

(* part is the function that runs, or ran; num and i its CPUs and device;  *)
(* found and had the devices that were on, and the module's, as it began.  *)
Begin(part, again) ==
    [part |-> part, again |-> again, pc |-> "count", num |-> 0, i |-> 0, found |-> on, had |-> loaded]
Finished == [part |-> "none", again |-> FALSE, pc |-> "done", num |-> 0, i |-> 0,
             found |-> {}, had |-> 0]
Ended == {"done", "aborted", "refused"}

Init == /\ cpus \in Cpus /\ loaded = 0 /\ size = NoSizes /\ formatted = {} /\ on = {}
        /\ script = Finished /\ changed = FALSE /\ changes = 0

Counted == changes < MaxChanges /\ changes' = changes + 1

-----------------------------------------------------------------------------
Go(pc)     == script' = [script EXCEPT !.pc = pc]
OnlyScript == UNCHANGED <<cpus, kernel, changed, changes>>
Quiet      == UNCHANGED <<cpus, changed, changes>>

Command(c) ==
    /\ script.pc \in Ended /\ Counted
    /\ script' = Begin(IF c = "start" THEN "start" ELSE "stop", c = "restart")
    /\ UNCHANGED <<cpus, kernel, changed>>

(* grep -c fails when it counts none, which ends the script before its     *)
(* fallback to one CPU.                                                    *)
Count ==
    /\ script.pc = "count"
    /\ IF cpus = 0 THEN Go("aborted")
       ELSE script' = [script EXCEPT !.num = cpus, !.pc = IF script.part = "start" THEN "probe"
                                                          ELSE "look"]
    /\ OnlyScript

MutantProbe ==
    /\ script.pc = "probe" /\ Go("reset")
    /\ loaded' = IF loaded = 0 THEN script.num - 1 ELSE loaded
    /\ UNCHANGED <<size, formatted, on>> /\ Quiet

(* modprobe does nothing when the module is loaded, with whatever devices. *)
Probe ==
    /\ script.pc = "probe" /\ Go("reset")
    /\ loaded' = IF loaded = 0 THEN script.num ELSE loaded
    /\ UNCHANGED <<size, formatted, on>> /\ Quiet

(* The kernel refuses to reset a device that is on, or not there. *)
Reset ==
    /\ script.pc = "reset"
    /\ IF script.i < loaded /\ script.i \notin on
       THEN /\ Go("size") /\ formatted' = formatted \ {script.i}
            /\ size' = [size EXCEPT ![script.i] = 0]
       ELSE Go("aborted") /\ UNCHANGED <<size, formatted>>
    /\ UNCHANGED <<loaded, on>> /\ Quiet

MutantShare(n) == (Memory * Factor) \div 100

(* mem_by_cpu, in kB *)
Share(n) == ((Memory \div n) * Factor) \div 100

DiskSize ==
    /\ script.pc = "size" /\ Go("mkswap")
    /\ size' = [size EXCEPT ![script.i] = Share(script.num)]
    /\ UNCHANGED <<loaded, formatted, on>> /\ Quiet

MkSwap ==
    /\ script.pc = "mkswap" /\ Go("swapon")
    /\ formatted' = formatted \cup {script.i}
    /\ UNCHANGED <<loaded, size, on>> /\ Quiet

MutantShort(pc, after) ==
    script' = IF script.i + 2 < script.num THEN [script EXCEPT !.i = @ + 1, !.pc = pc]
              ELSE [script EXCEPT !.pc = after]
MutantLong(pc, after) ==
    script' = IF script.i < script.num THEN [script EXCEPT !.i = @ + 1, !.pc = pc]
              ELSE [script EXCEPT !.pc = after]

(* The next device, or what comes after the loop *)
Advance(pc, after) ==
    script' = IF script.i + 1 < script.num THEN [script EXCEPT !.i = @ + 1, !.pc = pc]
              ELSE [script EXCEPT !.pc = after]

SwapOn ==
    /\ script.pc = "swapon" /\ Advance("reset", "done")
    /\ on' = on \cup {script.i}
    /\ UNCHANGED <<loaded, size, formatted>> /\ Quiet

-----------------------------------------------------------------------------
(* The name of device i begins the name of device j: zram1 and zram10 *)
Matches(i, j) == j = i \/ (i > 0 /\ (j \div 10 = i \/ j \div 100 = i))

MutantLook == script.pc = "look" /\ Go("swapoff") /\ OnlyScript

(* grep /dev/zram$i /proc/swaps *)
Look ==
    /\ script.pc = "look"
    /\ IF \E j \in on : Matches(script.i, j) THEN Go("swapoff") ELSE Advance("look", "rmmod")
    /\ OnlyScript

SwapOff ==
    /\ script.pc = "swapoff"
    /\ IF script.i \in on THEN Advance("look", "rmmod") /\ on' = on \ {script.i}
       ELSE Go("aborted") /\ UNCHANGED on
    /\ UNCHANGED <<loaded, size, formatted>> /\ Quiet

(* The kernel does not unload a module that is in use. A restart goes on to start. *)
RmMod ==
    /\ script.pc = "rmmod"
    /\ IF loaded > 0 /\ on = {}
       THEN /\ loaded' = 0 /\ size' = NoSizes /\ formatted' = {}
            /\ IF script.again THEN script' = [Begin("start", FALSE) EXCEPT !.had = 0]
               ELSE Go("done")
       ELSE Go("aborted") /\ UNCHANGED <<loaded, size, formatted>>
    /\ UNCHANGED on /\ Quiet

(* A command fails of its own accord, for want of memory for instance, or  *)
(* the script is killed.                                                   *)
Refused == script.pc \notin Ended /\ Go("refused") /\ OnlyScript

-----------------------------------------------------------------------------
Hotplug == /\ Counted /\ cpus' \in Cpus \ {cpus} /\ changed' = TRUE
           /\ UNCHANGED <<kernel, script>>

Reboot == /\ Counted /\ loaded' = 0 /\ size' = NoSizes /\ formatted' = {} /\ on' = {}
          /\ script' = Finished /\ UNCHANGED <<cpus, changed>>

Step == \/ Count \/ Probe \/ Reset \/ DiskSize \/ MkSwap \/ SwapOn
        \/ Look \/ SwapOff \/ RmMod \/ Refused
Next == Step \/ Hotplug \/ Reboot \/ \E c \in {"start", "stop", "restart"} : Command(c)

Spec == Init /\ [][Next]_vars

-----------------------------------------------------------------------------
(* Type invariant: a swap that is on is one of the module's devices and     *)
(* formatted, and the script's device is one that it has counted.           *)
TypeOK ==
    /\ cpus \in Cpus /\ loaded \in Cpus \cup {0} /\ size \in [Device -> Nat]
    /\ on \subseteq formatted /\ \A i \in formatted : i \in Device /\ i < loaded
    /\ script \in [part : {"none", "start", "stop"}, again : BOOLEAN, num : Cpus \cup {0},
                   i : Nat, found : SUBSET Device, had : Cpus \cup {0},
                   pc : {"count", "probe", "reset", "size", "mkswap", "swapon",
                         "look", "swapoff", "rmmod"} \cup Ended]
    /\ script.pc \notin Ended \cup {"count"} => script.i < script.num
    /\ changed \in BOOLEAN /\ changes \in 0..MaxChanges

(* A start that ends well has switched on a swap for each CPU, and, while   *)
(* no CPU has come or gone, no other is on.                                 *)
StartedFully ==
    script.part = "start" /\ script.pc = "done" =>
        /\ \A i \in Device : i < script.num => i \in on
        /\ ~changed => \A i \in on : i < script.num

(* A start fails for itself only without CPUs to count, when a swap was on  *)
(* already, or when the module was loaded for fewer CPUs: whatever a failed  *)
(* start or stop has left otherwise is no hindrance.                        *)
StartAborts ==
    script.part = "start" /\ script.pc = "aborted" =>
        \/ script.num = 0
        \/ \E i \in script.found : i < script.num
        \/ changed /\ script.had > 0 /\ script.had < script.num

(* A stop, however starts and stops have failed before it, fails for itself *)
(* only without CPUs to count or a module to unload, when a swap is on for a *)
(* CPU that has gone, or when one is on whose name begins with another's:    *)
(* zram10 and zram1, once zram1 is off.                                      *)
StopAborts ==
    script.part = "stop" /\ script.pc = "aborted" =>
        \/ script.num = 0 \/ loaded = 0
        \/ changed /\ \E i \in on : i >= script.num
        \/ \E i \in on : i >= 10

(* The swaps together are within the share of the memory that is configured *)
(* while no CPU has come or gone.                                           *)
WithinFactor ==
    ~changed => \A i \in on : size[i] * Cardinality(on) <= (Memory * Factor) \div 100
=============================================================================
