---------------------------- MODULE MCIpmiHelper ----------------------------
(* Configurations and command lines for openipmi-helper. *)
EXTENDS IpmiHelper

AllCommands == {"start", "stop", "stop-all", "restart", "condrestart", "start-watchdog",
                "stop-watchdog", "start-powercontrol", "stop-powercontrol", "usage"}
                  \cup StatusCommands

(* Every choice of interfaces and features, no, one or both hardware       *)
(* modules, with and without udev; si and smb are treated alike.           *)
AllConfigs == {c \in Config : c.hw # {"smb"}}
=============================================================================
