----------------------------- MODULE IpmiHelper -----------------------------
(***************************************************************************)
(* openipmi-helper, the script behind ipmi.service: it loads and unloads   *)
(* the IPMI kernel modules, makes their device nodes, keeps a lock file    *)
(* and reports in the bits of its exit status what went wrong.             *)
(*                                                                         *)
(* The script is straight-line shell.  A command is a program, a sequence  *)
(* of <<instruction, module>>, and each instruction is one step; between   *)
(* steps udev makes nodes and applications open and close devices.  RETVAL *)
(* is the set of the weights of the bits that are set.                     *)
(***************************************************************************)
EXTENDS Naturals, Sequences

CONSTANTS Configs,   \* contents of /etc/sysconfig/ipmi and whether udev exists
          Commands,  \* arguments the script is called with
          DevTimeout \* BOUND: rounds of the wait for /dev/ipmi0 (150 in the code)

Interfaces == {"devintf", "imb"}
Features   == {"watchdog", "poweroff"}
Hardware   == {"si", "smb"}
Base       == "msghandler"
Modules    == Interfaces \cup Features \cup Hardware \cup {Base}
Nodes      == {"ipmi0", "imb", "watchdog"}
Bits       == {1, 2, 4, 8, 16, 32}
None       == "none"

Config == [intf : SUBSET Interfaces, features : SUBSET Features,
           hw : SUBSET Hardware, udev : BOOLEAN]
ASSUME ConfigsAssumption == Configs \subseteq Config
ASSUME TimeoutAssumption == DevTimeout \in Nat

StatusCommands == {"status", "status-all", "status-watchdog", "status-powercontrol"}

(* The labels of the case at the end of the script, lines 487-507; every   *)
(* other argument is its default, "usage".                                 *)
ASSUME CommandsAssumption ==
    Commands \subseteq {"start", "stop", "stop-all", "restart", "condrestart",
                       "start-watchdog", "stop-watchdog", "start-powercontrol",
                       "stop-powercontrol", "usage"} \cup StatusCommands

VARIABLES cfg,      \* the configuration
          loaded,   \* what lsmod prints
          held,     \* modules whose device an application has open
          nodes,    \* device nodes in /dev
          lock,     \* whether /var/lock/subsys/ipmi exists
          cmd,      \* the command running or last run
          prog,     \* what is left of it; <<>> when the script has exited
          retval,   \* RETVAL, the exit status once the script has exited
          delay,    \* locdelay
          settled   \* history: the last start or stop of the modules came to its
                    \* end, with nothing in RETVAL about the hardware modules
                    \* (bit 0) or about the unload (bit 5)

vars == <<cfg, loaded, held, nodes, lock, cmd, prog, retval, delay, settled>>

-----------------------------------------------------------------------------
(* The kernel, as modprobe, modprobe -r and lsmod show it.  Everything     *)
(* depends on msghandler; an open device keeps its module loaded; removing *)
(* the last user of msghandler removes it too.                             *)

CanLoad(m, l) == \/ l = loaded \cup {m, Base}
                 \/ m \notin loaded /\ l = loaded
                 \/ m \notin loaded \cup {Base} /\ l = loaded \cup {Base}
Unloaded(m) ==
    IF m \in held \/ m \notin loaded \/ (m = Base /\ loaded # {Base}) THEN loaded
    ELSE IF loaded = {m, Base} THEN {} ELSE loaded \ {m}

-----------------------------------------------------------------------------
(* The programs *)

Configured(m) == m \in cfg.intf \cup cfg.features \cup cfg.hw \cup {Base}
Rm(m) == IF Configured(m) THEN <<<<"rm", m>>>> ELSE <<>>
RmInterfaces == Rm("devintf") \o Rm("imb")
RmModules == RmInterfaces \o Rm("watchdog") \o Rm("poweroff") \o Rm("si") \o Rm("smb") \o Rm(Base)

LoadHw == <<<<"hw", "si">>, <<"hw", "smb">>>>
StopFeatures == <<<<"stop_feature", "watchdog">>, <<"stop_feature", "poweroff">>>>

UnloadAll == StopFeatures \o RmModules \o <<<<"rm_node", None>>>>
UnloadLeaveFeatures == RmInterfaces \o <<<<"rm_node", None>>, <<"if_no_features", None>>>>

StartFeature(f) == IF f \in cfg.features THEN LoadHw \o <<<<"start_feature", f>>>> ELSE <<>>
LoadModules == <<<<"base", Base>>>> \o LoadHw
                 \o <<<<"hw_check", None>>, <<"devintf", "devintf">>, <<"wait", None>>,
                      <<"imb", "imb">>, <<"end_load", None>>>>
StartProg   == LoadModules \o StartFeature("watchdog") \o StartFeature("poweroff")
StopAllProg == UnloadAll \o <<<<"stopped_all", None>>>>

Program(c) ==
    CASE c = "start"       -> StartProg
      [] c = "stop"        -> UnloadLeaveFeatures \o <<<<"stopped", None>>>>
      [] c = "stop-all"    -> StopAllProg
      [] c = "restart"     -> StopAllProg \o <<<<"reset", None>>>> \o StartProg
      [] c = "condrestart" -> IF lock THEN StopAllProg \o <<<<"reset", None>>>> \o StartProg
                              ELSE <<>>
      [] c = "start-watchdog"     -> IF "watchdog" \in cfg.features THEN StartFeature("watchdog")
                                     ELSE <<<<"refuse", None>>>>
      [] c = "start-powercontrol" -> IF "poweroff" \in cfg.features THEN StartFeature("poweroff")
                                     ELSE <<<<"refuse", None>>>>
      [] c = "stop-watchdog"      -> <<<<"stop_feature", "watchdog">>>>
      [] c = "stop-powercontrol"  -> <<<<"stop_feature", "poweroff">>>>
      [] c = "usage"              -> <<<<"refuse", None>>>>
      [] OTHER -> <<<<c, None>>>>      \* status, status-all, status-watchdog, ...

-----------------------------------------------------------------------------
Init ==
    /\ cfg \in Configs
    /\ loaded = {} /\ held = {} /\ nodes = {} /\ lock = FALSE
    /\ cmd = None /\ prog = <<>> /\ retval = {} /\ delay = 0 /\ settled = TRUE

Controls == {"start", "stop", "stop-all", "restart", "condrestart"}

Run(c) ==
    /\ prog = <<>>
    /\ cmd' = c /\ prog' = Program(c) /\ retval' = {}
    /\ settled' = (settled /\ (c \notin Controls \/ prog' = <<>>))
    /\ UNCHANGED <<cfg, loaded, held, nodes, lock, delay>>

At(i)   == prog # <<>> /\ Head(prog)[1] = i
Operand == Head(prog)[2]
Then(p) == prog' = p \o Tail(prog) /\ UNCHANGED <<cfg, held, cmd, settled>>
Skip    == Then(<<>>)
Settle(ok) == settled' = ok /\ prog' = Tail(prog) /\ UNCHANGED <<cfg, held, cmd>>

(* Leave load_ipmi_modules: drop the program up to "end_load". *)
AfterLoad == LET i == CHOOSE i \in 1..Len(prog) : prog[i] = <<"end_load", None>>
             IN  SubSeq(prog, i, Len(prog))

(* modprobe ipmi_msghandler, lines 295-297 *)
LoadBase ==
    /\ At("base")
    /\ CanLoad(Base, loaded')
    /\ Then(IF Base \in loaded' THEN <<>> ELSE UnloadAll \o <<<<"bail", None>>>>)
    /\ UNCHANGED <<nodes, lock, retval, delay>>

MutantLoadHwModule ==
    /\ At("hw")
    /\ IF Operand \in cfg.hw THEN CanLoad(Operand, loaded') ELSE UNCHANGED loaded
    /\ Skip /\ UNCHANGED <<nodes, lock, retval, delay>>

(* load_si, load_smb *)
LoadHwModule ==
    /\ At("hw")
    /\ IF Operand \in cfg.hw THEN CanLoad(Operand, loaded') ELSE UNCHANGED loaded
    /\ retval' = IF Operand \in cfg.hw \ loaded' THEN retval \cup {1} ELSE retval
    /\ Skip /\ UNCHANGED <<nodes, lock, delay>>

HwCheck ==
    /\ At("hw_check")
    /\ Then(IF 1 \in retval THEN UnloadAll \o <<<<"bail", None>>>> ELSE <<>>)
    /\ UNCHANGED <<loaded, nodes, lock, retval, delay>>

(* ... && unload_all_ipmi_modules && RETVAL=... && return: the unload's    *)
(* status is that of its last command, false while ipmi_devintf is loaded. *)
Bail ==
    /\ At("bail")
    /\ IF "devintf" \in loaded
       THEN Skip /\ UNCHANGED retval
       ELSE retval' = retval \cup {1} /\ prog' = AfterLoad /\ UNCHANGED <<cfg, held, cmd, settled>>
    /\ UNCHANGED <<loaded, nodes, lock, delay>>

(* The interface ipmi_devintf, lines 301-311: mknod may fail *)
LoadDevintf ==
    /\ At("devintf")
    /\ IF "devintf" \notin cfg.intf
       THEN UNCHANGED <<loaded, nodes, retval>>
       ELSE /\ CanLoad("devintf", loaded')
            /\ IF "devintf" \notin loaded'
               THEN retval' = retval \cup {2} /\ UNCHANGED nodes
               ELSE IF cfg.udev
               THEN retval' = retval \ {2} /\ UNCHANGED nodes
               ELSE \/ nodes' = nodes \cup {"ipmi0"} /\ retval' = retval \ {2}
                    \/ nodes' = nodes \ {"ipmi0"} /\ retval' = (retval \ {2}) \cup {4}
    /\ delay' = DevTimeout
    /\ Skip /\ UNCHANGED lock

(* The wait for udev, lines 315-319 *)
MutantWaiting ==
    "devintf" \in cfg.intf \cap loaded /\ "ipmi0" \notin nodes
Waiting == "devintf" \in cfg.intf \cap loaded /\ "ipmi0" \notin nodes /\ delay > 0

Wait ==
    /\ At("wait")
    /\ IF Waiting
       THEN delay' = delay - 1 /\ UNCHANGED prog
       ELSE delay' = 0 /\ prog' = Tail(prog)
    /\ UNCHANGED <<cfg, loaded, held, nodes, lock, cmd, retval, settled>>

MutantLoadImb ==
    /\ At("imb")
    /\ IF "imb" \notin cfg.intf
       THEN UNCHANGED <<loaded, nodes, retval>>
       ELSE /\ CanLoad("imb", loaded')
            /\ IF "imb" \notin loaded'
               THEN retval' = retval \cup {2} /\ UNCHANGED nodes
               ELSE \/ nodes' = nodes \cup {"imb"} /\ retval' = {}
                    \/ nodes' = nodes \ {"imb"} /\ retval' = {4}
    /\ Skip /\ UNCHANGED <<lock, delay>>

(* The interface ipmi_imb, lines 323-333 *)
LoadImb ==
    /\ At("imb")
    /\ IF "imb" \notin cfg.intf
       THEN UNCHANGED <<loaded, nodes, retval>>
       ELSE /\ CanLoad("imb", loaded')
            /\ IF "imb" \notin loaded'
               THEN retval' = retval \cup {2} /\ UNCHANGED nodes
               ELSE \/ nodes' = nodes \cup {"imb"} /\ retval' = retval \ {2}
                    \/ nodes' = nodes \ {"imb"} /\ retval' = (retval \ {2}) \cup {4}
    /\ Skip /\ UNCHANGED <<lock, delay>>

(* start after load_ipmi_modules: the lock file, lines 345-353 *)
EndLoad ==
    /\ At("end_load")
    /\ lock' = (lock \/ 1 \notin retval) /\ Settle(1 \notin retval)
    /\ UNCHANGED <<loaded, nodes, retval, delay>>

(* start_watchdog_common and start_powercontrol_common after load_hw_modules *)
LoadFeature ==
    /\ At("start_feature")
    /\ CanLoad(Operand, loaded')
    /\ IF Operand \notin loaded'
       THEN retval' = retval \cup {2} /\ UNCHANGED nodes
       ELSE IF Operand = "watchdog" /\ ~cfg.udev /\ "watchdog" \notin nodes
       THEN \/ nodes' = nodes \cup {"watchdog"} /\ UNCHANGED retval
            \/ retval' = retval \cup {8} /\ UNCHANGED nodes
       ELSE UNCHANGED <<nodes, retval>>
    /\ Skip /\ UNCHANGED <<lock, delay>>

(* stop_watchdog, stop_powercontrol and their quiet forms *)
StopFeature ==
    /\ At("stop_feature")
    /\ loaded' = Unloaded(Operand)
    /\ retval' = IF Operand \in loaded' THEN retval \cup {32} ELSE retval
    /\ nodes' = IF Operand = "watchdog" /\ Operand \notin loaded' /\ ~cfg.udev
                     /\ "watchdog" \in cfg.features
                THEN nodes \ {"watchdog"} ELSE nodes
    /\ Skip /\ UNCHANGED <<lock, delay>>

Remove ==
    /\ At("rm")
    /\ loaded' = Unloaded(Operand)
    /\ Skip /\ UNCHANGED <<nodes, lock, retval, delay>>

RemoveNode ==
    /\ At("rm_node")
    /\ nodes' = IF "devintf" \in loaded THEN nodes ELSE nodes \ {"ipmi0"}
    /\ Skip /\ UNCHANGED <<loaded, lock, retval, delay>>

MutantIfNoFeatures ==
    /\ At("if_no_features")
    /\ Then(StopFeatures \o RmModules)
    /\ UNCHANGED <<loaded, nodes, lock, retval, delay>>

(* unload_ipmi_modules_leave_features, lines 281-288 *)
IfNoFeatures ==
    /\ At("if_no_features")
    /\ Then(IF loaded \cap Features = {} THEN StopFeatures \o RmModules ELSE <<>>)
    /\ UNCHANGED <<loaded, nodes, lock, retval, delay>>

MutantStoppedUnchecked(i, ms) ==
    /\ At(i)
    /\ lock' = FALSE /\ UNCHANGED retval /\ Settle(32 \notin retval')
    /\ UNCHANGED <<loaded, nodes, delay>>

(* The end of stop and stop_all: lines 362-368 and 374-380 *)
Stopped(i, ms) ==
    /\ At(i)
    /\ IF loaded \cap ms # {}
       THEN retval' = retval \cup {32} /\ UNCHANGED lock
       ELSE lock' = FALSE /\ UNCHANGED retval
    /\ Settle(32 \notin retval') /\ UNCHANGED <<loaded, nodes, delay>>

Reset ==
    /\ At("reset") /\ retval' = {}
    /\ Settle(FALSE) /\ UNCHANGED <<loaded, nodes, lock, delay>>

(* Not configured, or the usage message: RETVAL 2 *)
Refuse ==
    /\ At("refuse") /\ retval' = retval \cup {2}
    /\ Skip /\ UNCHANGED <<loaded, nodes, lock, delay>>

(* The status commands.  status_powercontrol asks for ipmi_powercontrol,   *)
(* a module that does not exist.                                           *)
Minimum    == Base \in loaded /\ cfg.hw \cap loaded # {}
Bit(b, p)  == IF p THEN {b} ELSE {}
BaseBits   == Bit(1, ~Minimum)
NodeBits   == Bit(4, \/ "devintf" \in cfg.intf /\ "ipmi0" \notin nodes
                     \/ "imb" \in cfg.intf /\ "imb" \notin nodes)
StatusBits(c) ==
    BaseBits \cup
    CASE c = "status"     -> Bit(2, "devintf" \in cfg.intf \ loaded) \cup NodeBits
      [] c = "status-all" ->
            Bit(2, ~(cfg.features \cup cfg.intf \subseteq loaded)) \cup NodeBits
              \cup Bit(8, "watchdog" \in cfg.features /\ "watchdog" \notin nodes) \cup Bit(16, ~lock)
      [] c = "status-watchdog" ->
            Bit(2, "watchdog" \notin loaded) \cup Bit(8, "watchdog" \notin nodes)
      [] c = "status-powercontrol" -> Bit(2, "powercontrol" \notin loaded)

Status(c) ==
    /\ At(c) /\ retval' = retval \cup StatusBits(c)
    /\ Skip /\ UNCHANGED <<loaded, nodes, lock, delay>>

Step == \/ LoadBase \/ LoadHwModule \/ HwCheck \/ Bail \/ LoadDevintf \/ Wait \/ LoadImb
        \/ EndLoad \/ LoadFeature \/ StopFeature \/ Remove \/ RemoveNode \/ IfNoFeatures
        \/ Stopped("stopped", cfg.intf)
        \/ Stopped("stopped_all", cfg.intf \cup cfg.features \cup cfg.hw \cup {Base})
        \/ Reset \/ Refuse \/ (\E c \in StatusCommands : Status(c))

(* The environment: udev catches up with the kernel; an application opens  *)
(* or closes a device; the service manager kills the script.               *)
NodeOf(m) == CASE m = "devintf" -> "ipmi0" [] m = "imb" -> "imb" [] m = "watchdog" -> "watchdog"
Udev(m) ==
    /\ cfg.udev
    /\ nodes' = IF m \in loaded THEN nodes \cup {NodeOf(m)} ELSE nodes \ {NodeOf(m)}
    /\ nodes' # nodes
    /\ UNCHANGED <<cfg, loaded, held, lock, cmd, prog, retval, delay, settled>>

Hold(m) ==
    /\ m \in loaded \ held /\ NodeOf(m) \in nodes
    /\ held' = held \cup {m}
    /\ UNCHANGED <<cfg, loaded, nodes, lock, cmd, prog, retval, delay, settled>>

Release(m) ==
    /\ m \in held /\ held' = held \ {m}
    /\ UNCHANGED <<cfg, loaded, nodes, lock, cmd, prog, retval, delay, settled>>

Killed ==
    /\ prog # <<>> /\ prog' = <<>> /\ cmd' = "killed"
    /\ UNCHANGED <<cfg, loaded, held, nodes, lock, retval, delay, settled>>

Environment == \/ Udev("devintf") \/ Udev("watchdog") \/ Killed
               \/ \E m \in {"devintf", "imb", "watchdog"} : Hold(m) \/ Release(m)

Next == Step \/ Environment \/ (\E c \in Commands : Run(c))

Spec == Init /\ [][Next]_vars

-----------------------------------------------------------------------------
Exited(cs) == prog = <<>> /\ cmd \in cs

(* Type invariant *)
TypeOK ==
    /\ cfg \in Config
    /\ loaded \subseteq Modules /\ held \subseteq Modules /\ nodes \subseteq Nodes
    /\ lock \in BOOLEAN /\ cmd \in Commands \cup {None, "killed"}
    /\ \A i \in 1..Len(prog) : prog[i][2] \in Modules \cup {None}
    /\ retval \subseteq Bits /\ delay \in 0..DevTimeout /\ settled \in BOOLEAN

(* A start that exits 0 has loaded every module the configuration asks for *)
(* and left the lock, whatever a restart found loaded or could not unload. *)
(* Both interfaces configured is the case InterfaceReported refutes.       *)
StartedFully ==
    Exited({"start", "restart"}) /\ retval = {} /\ cfg.intf # Interfaces
      => lock /\ cfg.intf \cup cfg.features \cup cfg.hw \cup {Base} \subseteq loaded

(* What condrestart reads is true of the kernel: while the lock is there    *)
(* every configured hardware module is loaded, and without it no configured *)
(* interface is.  Only a start or stop that was killed, or whose status     *)
(* said what failed, leaves the two apart, until the next that comes to its *)
(* end; nothing that runs between may part them.                            *)
LockAgrees ==
    settled => IF lock THEN cfg.hw \subseteq loaded ELSE cfg.intf \cap loaded = {}

(* stop never unloads a watchdog or poweroff module that is in place: the  *)
(* machine stays guarded while the interfaces go away.                     *)
StopLeavesFeatures ==
    [][cmd = "stop" /\ prog # <<>> => loaded \cap Features \subseteq loaded']_vars

(* A stop-all that exits without bit 5 leaves no configured module, no     *)
(* /dev/ipmi0 of its making and no lock, even when applications close the  *)
(* device between its steps.                                               *)
StopAllClean ==
    Exited({"stop-all"}) /\ 32 \notin retval
      => ~lock /\ loaded \subseteq Modules \ {m \in Modules : Configured(m)}
               /\ (cfg.udev \/ "ipmi0" \notin nodes)

(* Without udev a start that has loaded ipmi_devintf and whose status lacks *)
(* bit 2 has made /dev/ipmi0, whatever the steps after it do to RETVAL.     *)
NodeReported ==
    Exited({"start"}) /\ ~cfg.udev /\ "devintf" \in cfg.intf \cap loaded /\ 4 \notin retval
      => "ipmi0" \in nodes

-----------------------------------------------------------------------------
(* Line 15 of the script: when a requested interface module isn't loaded    *)
(* bit 1 is set.  The code does otherwise.                                  *)
InterfaceReported ==
    Exited({"start"}) /\ 1 \notin retval /\ ~(cfg.intf \subseteq loaded) => 2 \in retval
=============================================================================
