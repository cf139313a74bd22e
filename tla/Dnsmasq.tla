------------------------------- MODULE Dnsmasq -------------------------------
(***************************************************************************)
(* dnsmasq under resolvconf: the hook that writes the resolver list, the   *)
(* daemon that polls it by its modification time, and the init script that *)
(* starts and stops the daemon and tells resolvconf of it.  Hooks run one  *)
(* at a time or overlap, may be slow, fail, be killed, or go on when a     *)
(* command they run has failed.  Time is counted in seconds, which is what *)
(* stat, date and the daemon compare.                                      *)
(***************************************************************************)
EXTENDS Naturals

CONSTANTS Procs, Records, Own, Local, Rank, Offers, Self, Absent, Nothing,
          Envs,    \* what this machine's hooks may do, and bounds: see Env
          MaxTime  \* bound: seconds, beyond which only a sleeping hook counts

VARIABLES db,     \* resolvconf's records
          hook,   \* the hook's processes; each name is a process number
          tmp,    \* TMP_FILE of each process number
          rslv,   \* RSLVRLIST_FILE
          daemon, \* dnsmasq
          script, \* the init script
          now, env,
          changes, events, \* how much of the bounds is used
          lost    \* history: the last hook to end published nothing, or went on
                  \* without what a command that failed would have told it

vars == <<db, hook, tmp, rslv, daemon, script, now, env, changes, events, lost>>

R == INSTANCE ResolverList
       WITH window <- [p \in Procs |-> hook[p].window],
            faulted <- {p \in Procs : hook[p].cut},
            published <- rslv.list, served <- daemon.serves

ASSUME RecordsAssumption == Own \in Records /\ Local \subseteq Records
ASSUME RankAssumption    ==
    /\ Rank \in [Records -> Nat]
    /\ \A r, s \in Records : Rank[r] = Rank[s] => r = s
ASSUME OffersAssumption  ==
    /\ \A r \in Records : Absent \notin Offers[r]
    /\ \A r \in Records \ {Own} : \A c \in Offers[r] : Self \notin c
ASSUME NothingAssumption == \A l \in R!Lists : l # Nothing

(* May two hooks overlap, may a second begin while a hook writes, may it be *)
(* killed, leaving its file to the next process of its number, may commands *)
(* fail whose status it does not look at?  The bounds are on changes of     *)
(* interfaces, and on all commands, kills, deaths and reboots.              *)
Env  == [overlap : BOOLEAN, slow : BOOLEAN, killed : BOOLEAN, faulty : BOOLEAN,
         changes : Nat, events : Nat]
Calm == ~env.overlap /\ ~env.slow /\ ~env.killed /\ ~env.faulty

ASSUME BoundsAssumption == Envs \subseteq Env /\ MaxTime \in Nat

NoFile   == [list |-> Nothing, atime |-> 0, mtime |-> 0]
Idle     == [pc |-> "idle", names |-> {}, todo |-> {}, since |-> 0, cut |-> FALSE, window |-> {}]
Down     == [state |-> "down", seen |-> 0, serves |-> Nothing]
Finished == [pc |-> "exit", again |-> FALSE, hook |-> Nothing]

Init == /\ db = R!NoRecord /\ hook = [p \in Procs |-> Idle] /\ tmp = [p \in Procs |-> NoFile]
        /\ rslv = NoFile /\ daemon = Down /\ script = Finished
        /\ now = 1 /\ env \in Envs /\ changes = 0 /\ events = 0 /\ lost = FALSE

Event == events < env.events /\ events' = events + 1 /\ UNCHANGED changes

-----------------------------------------------------------------------------
(* Resolvconf changes a record and runs the hook, as process p. *)
Resolvconf(p, r, c) ==
    /\ hook[p] = Idle
    /\ env.overlap \/ \A q \in Procs : hook[q] = Idle
    /\ db' = [db EXCEPT ![r] = c]
    /\ hook' = [q \in Procs |->
                 IF q = p THEN [Idle EXCEPT !.pc = "list", !.window = {db'}]
                 ELSE IF hook[q] = Idle THEN Idle ELSE [hook[q] EXCEPT !.window = @ \cup {db'}]]

Interface(p) ==
    /\ changes < env.changes /\ changes' = changes + 1
    /\ \E r \in Records \ {Own} : \E c \in Offers[r] \cup {Absent} :
         c # db[r] /\ Resolvconf(p, r, c)
    /\ UNCHANGED <<tmp, rslv, daemon, script, now, env, events, lost>>

-----------------------------------------------------------------------------
(* The hook *)
Set(p, h) == hook' = [hook EXCEPT ![p] = h]
OnlyHook  == UNCHANGED <<db, tmp, rslv, daemon, script, now, env, changes, events, lost>>

(* list-records, and the loop that picks from what it lists; without a      *)
(* record nothing is read.                                                  *)
Picked(p, names, cut) ==
    Set(p, [hook[p] EXCEPT !.pc = IF names = {} THEN "stat" ELSE "read", !.names = names,
                           !.cut = cut])

ListRecords(p) ==
    /\ hook[p].pc = "list"
    /\ Picked(p, R!Chosen(db), FALSE)
    /\ OnlyHook

(* sed and uniquify: sed opens one record after the other; one that has     *)
(* gone has no nameservers.                                                 *)
Foremost(r, names) == r \in names /\ \A s \in names : Rank[r] <= Rank[s]
Took(p, r, servers, cut) ==
    LET rest == hook[p].names \ {r}
    IN  Set(p, [hook[p] EXCEPT !.pc = IF rest = {} THEN "stat" ELSE "read", !.names = rest,
                               !.todo = @ \cup servers, !.cut = cut])

ReadRecord(p) ==
    /\ hook[p].pc = "read"
    /\ \E r \in hook[p].names :
         Foremost(r, hook[p].names) /\ Took(p, r, R!Held(r, db), hook[p].cut)
    /\ OnlyHook

MutantStat(p) ==
    /\ hook[p].pc = "stat"
    /\ Set(p, [hook[p] EXCEPT !.pc = "trunc"])
    /\ OnlyHook

(* stat -c %X, which is the time of last access *)
Stat(p) ==
    /\ hook[p].pc = "stat"
    /\ Set(p, IF rslv # NoFile /\ rslv.atime = now
              THEN [hook[p] EXCEPT !.pc = "sleep", !.since = now]
              ELSE [hook[p] EXCEPT !.pc = "trunc"])
    /\ OnlyHook

Wake(p) ==
    /\ hook[p].pc = "sleep" /\ now > hook[p].since
    /\ Set(p, [hook[p] EXCEPT !.pc = "trunc", !.since = 0])
    /\ OnlyHook

(* set -e does not look at a command whose output becomes words: when       *)
(* list-records or sed fails, or stat or date, the hook goes on with what   *)
(* they have printed, or with nothing.                                      *)
ListFails(p) ==
    /\ hook[p].pc = "list"
    /\ \E names \in SUBSET R!Chosen(db) :
         /\ \A r \in names : \A s \in R!Chosen(db) \ names : Rank[r] < Rank[s]
         /\ Picked(p, names, TRUE)
    /\ OnlyHook
ReadFails(p) ==
    /\ hook[p].pc = "read"
    /\ \E r \in hook[p].names : \E servers \in SUBSET R!Held(r, db) :
         Foremost(r, hook[p].names) /\ Took(p, r, servers, TRUE)
    /\ OnlyHook
StatFails(p) ==
    /\ hook[p].pc = "stat" /\ rslv # NoFile
    /\ \/ Set(p, [hook[p] EXCEPT !.pc = "sleep", !.since = now])
       \/ Set(p, [hook[p] EXCEPT !.pc = "trunc"])
    /\ OnlyHook
Unnoticed(p) == env.faulty /\ (ListFails(p) \/ ReadFails(p) \/ StatFails(p))

OnlyWrite == UNCHANGED <<db, rslv, daemon, script, now, env, changes, events, lost>>

MutantUntruncated(p) ==
    /\ hook[p].pc = "trunc"
    /\ Set(p, [hook[p] EXCEPT !.pc = "write"])
    /\ UNCHANGED tmp /\ OnlyWrite

MutantTruncate(p) ==
    /\ hook[p].pc = "trunc"
    /\ Set(p, [hook[p] EXCEPT !.pc = "write"])
    /\ tmp' = [tmp EXCEPT ![p] = IF @ = NoFile THEN [list |-> {}, atime |-> now, mtime |-> now]
                                 ELSE [@ EXCEPT !.mtime = now]]
    /\ OnlyWrite

(* A file that a killed process of this number has left is emptied, and    *)
(* keeps its time of access.                                               *)
Truncate(p) ==
    /\ hook[p].pc = "trunc"
    /\ Set(p, [hook[p] EXCEPT !.pc = "write"])
    /\ tmp' = [tmp EXCEPT ![p] = [list |-> {}, mtime |-> now,
                                  atime |-> IF @ = NoFile THEN now ELSE @.atime]]
    /\ OnlyWrite

Append(p) ==
    /\ hook[p].pc = "write"
    /\ \E n \in hook[p].todo :
         /\ Set(p, [hook[p] EXCEPT !.todo = @ \ {n}])
         /\ tmp' = [tmp EXCEPT ![p].list = @ \cup {n}, ![p].mtime = now]
    /\ OnlyWrite

MutantRename(p) ==
    /\ hook[p].pc = "write"
    /\ rslv' = tmp[p]
    /\ tmp' = [tmp EXCEPT ![p] = NoFile]
    /\ Set(p, Idle) /\ lost' = hook[p].cut
    /\ UNCHANGED <<db, daemon, script, now, env, changes, events>>

(* mv -f: the list is replaced as a whole *)
Rename(p) ==
    /\ hook[p].pc = "write" /\ hook[p].todo = {}
    /\ rslv' = tmp[p]
    /\ tmp' = [tmp EXCEPT ![p] = NoFile]
    /\ Set(p, Idle) /\ lost' = hook[p].cut
    /\ UNCHANGED <<db, daemon, script, now, env, changes, events>>

(* mkdir, sleep, the redirections and mv end the hook by set -e, and so does *)
(* a shell that cannot fork; clean_up runs once its trap is set.             *)
Fail(p) ==
    /\ hook[p] # Idle
    /\ tmp' = [tmp EXCEPT ![p] = IF hook[p].pc \in {"trunc", "write"} THEN NoFile ELSE @]
    /\ Set(p, Idle) /\ lost' = TRUE
    /\ UNCHANGED <<db, rslv, daemon, script, now, env, changes, events>>

(* Killed, without the trap *)
Kill(p) ==
    /\ env.killed /\ hook[p] # Idle /\ Event
    /\ Set(p, Idle) /\ lost' = TRUE
    /\ UNCHANGED <<db, tmp, rslv, daemon, script, now, env>>

Hook(p) == \/ ListRecords(p) \/ ReadRecord(p) \/ Stat(p) \/ Wake(p)
           \/ Truncate(p) \/ Append(p) \/ Rename(p)

-----------------------------------------------------------------------------
(* The daemon, as the hook's comment has it: it reads the list when the    *)
(* list's mtime is another.  Reading moves a time of access that is not    *)
(* after the mtime (relatime).                                             *)
Poll ==
    /\ daemon.state = "up" /\ rslv # NoFile /\ rslv.mtime # daemon.seen
    /\ daemon' = [daemon EXCEPT !.seen = rslv.mtime, !.serves = rslv.list]
    /\ rslv' = [rslv EXCEPT !.atime = IF @ <= rslv.mtime THEN now ELSE @]
    /\ UNCHANGED <<db, hook, tmp, script, now, env, changes, events, lost>>

(* It ends of its own accord, or some time after it has been told to. *)
Die ==
    /\ \/ daemon.state = "up" /\ Event /\ daemon' = [Down EXCEPT !.state = "died"]
       \/ daemon.state = "dying" /\ daemon' = Down /\ UNCHANGED <<changes, events>>
    /\ UNCHANGED <<db, hook, tmp, rslv, script, now, env, lost>>

-----------------------------------------------------------------------------
(* The init script, one at a time *)
At(pc) == script' = [script EXCEPT !.pc = pc]
OnlyScript == UNCHANGED <<db, hook, tmp, rslv, now, env, lost>>

MutantBegins(c) == IF c = "start" THEN "spawn" ELSE "kill"

(* start spawns first; stop, and restart by calling it, retract first *)
Begins(c) == IF c = "start" THEN "spawn" ELSE "retract"

Command(c) ==
    /\ script = Finished /\ Event
    /\ script' = [pc |-> Begins(c), again |-> c = "restart", hook |-> Nothing]
    /\ UNCHANGED daemon /\ OnlyScript

(* set -e ends the script where a command fails, and it may be killed. *)
GiveUp ==
    /\ script # Finished /\ script' = Finished
    /\ UNCHANGED <<daemon, changes, events>> /\ OnlyScript

(* start-stop-daemon -S, which refuses while a dnsmasq runs *)
Spawn ==
    /\ script.pc = "spawn"
    /\ IF daemon.state \in {"down", "died"}
       THEN daemon' = [Down EXCEPT !.state = "up"] /\ At("announce")
       ELSE script' = Finished /\ UNCHANGED daemon
    /\ UNCHANGED <<changes, events>> /\ OnlyScript

(* start_resolvconf and stop_resolvconf run resolvconf, and so the hook *)
Announce(p) ==
    /\ script.pc = "announce"
    /\ \E c \in Offers[Own] : Resolvconf(p, Own, c)
    /\ script' = [script EXCEPT !.pc = "announced", !.hook = p]
    /\ UNCHANGED <<tmp, rslv, daemon, now, env, changes, events, lost>>
Retract(p) ==
    /\ script.pc = "retract"
    /\ Resolvconf(p, Own, Absent)
    /\ script' = [script EXCEPT !.pc = "retracted", !.hook = p]
    /\ UNCHANGED <<tmp, rslv, daemon, now, env, changes, events, lost>>

(* and wait for it *)
Returned ==
    /\ script.pc \in {"announced", "retracted"} /\ hook[script.hook] = Idle
    /\ IF script.pc = "retracted" THEN At("kill") ELSE script' = Finished
    /\ UNCHANGED <<daemon, changes, events>> /\ OnlyScript

(* start-stop-daemon -K, which does not wait for dnsmasq to end *)
KillDaemon ==
    /\ script.pc = "kill"
    /\ IF daemon.state \in {"up", "dying"}
       THEN /\ daemon' = [daemon EXCEPT !.state = "dying"]
            /\ IF script.again THEN At("spawn") ELSE script' = Finished
       ELSE script' = Finished /\ UNCHANGED daemon
    /\ UNCHANGED <<changes, events>> /\ OnlyScript

Script == \/ GiveUp \/ Spawn \/ Returned \/ KillDaemon
          \/ \E p \in Procs : Announce(p) \/ Retract(p)

-----------------------------------------------------------------------------
(* /run is empty after a reboot. *)
Reboot ==
    /\ Event
    /\ db' = R!NoRecord /\ hook' = [p \in Procs |-> Idle] /\ tmp' = [p \in Procs |-> NoFile]
    /\ rslv' = NoFile /\ daemon' = Down /\ script' = Finished /\ lost' = FALSE
    /\ UNCHANGED <<now, env>>

(* A hook that is not slow truncates, writes and renames within a second. *)
Tick ==
    /\ now < MaxTime \/ \E p \in Procs : hook[p].pc = "sleep" /\ hook[p].since = now
    /\ env.slow \/ \A p \in Procs : hook[p].pc # "write"
    /\ now' = now + 1
    /\ UNCHANGED <<db, hook, tmp, rslv, daemon, script, env, changes, events, lost>>

Next == \/ \E p \in Procs : Interface(p) \/ Hook(p) \/ Unnoticed(p) \/ Fail(p) \/ Kill(p)
        \/ Poll \/ Die
        \/ \E c \in {"start", "stop", "restart"} : Command(c)
        \/ Script \/ Reboot \/ Tick

Spec == Init /\ [][Next]_vars

(* Time goes on, the daemon polls, and the kernel runs a process that can run. *)
Fairness == /\ WF_vars(Poll) /\ WF_vars(Tick)
            /\ \A p \in Procs : WF_vars(Hook(p))
FairSpec == Spec /\ Fairness

-----------------------------------------------------------------------------
(* Type invariant; the file that a hook writes to is there. *)
File    == [list : {Nothing} \cup R!Lists, atime : Nat, mtime : Nat]
Process == [pc : {"idle", "list", "read", "stat", "sleep", "trunc", "write"},
            names : SUBSET Records, todo : R!Lists, since : Nat, cut : BOOLEAN,
            window : SUBSET R!Database]
Server  == [state : {"down", "up", "dying", "died"}, seen : Nat, serves : {Nothing} \cup R!Lists]
Running == [pc : {"exit", "spawn", "announce", "announced", "retract", "retracted", "kill"},
            again : BOOLEAN, hook : Procs \cup {Nothing}]
TypeOK ==
    /\ db \in R!Database
    /\ hook \in [Procs -> Process]
    /\ tmp \in [Procs -> File] /\ rslv \in File
    /\ \A p \in Procs : hook[p].pc = "write" => tmp[p].list # Nothing
    /\ daemon \in Server /\ script \in Running
    /\ now \in Nat /\ env \in Env /\ changes \in 0..env.changes /\ events \in 0..env.events
    /\ lost \in BOOLEAN

(* However hooks overlap, fail, are killed and find each other's files,    *)
(* what is published is a whole list of records, each as it has been since *)
(* the hook started, or a part of one when a command failed under the hook *)
(* and it went on; and the daemon serves nothing else.                     *)
Implements == R!Spec

(* dnsmasq is never told to forward queries to itself. *)
NeverAsksItself == daemon.serves # Nothing => Self \notin daemon.serves

(* When hooks do not overlap, and the last one has published with no        *)
(* command failing that it does not look at, the list is the records',      *)
(* whatever hooks before it left out, left behind or published in part.     *)
PublishedIsCurrent ==
    ~env.overlap /\ ~lost /\ (\A p \in Procs : hook[p] = Idle) =>
        \/ rslv.list = R!Now(db)
        \/ rslv = NoFile /\ db = R!NoRecord

(* This machine's resolver is set to 127.0.0.1 only while the daemon that  *)
(* answers there is up and has not been told to end, however start, stop   *)
(* and restart fail part way; unless it has died of its own accord.        *)
AnnouncedRuns == db[Own] # Absent => daemon.state \in {"up", "died"}

(* "to ensure that the new mtime is different" (dnsmasq.resolvconf:74)     *)
MtimeDiffers ==
    [][\A p \in Procs : Rename(p) /\ rslv # NoFile => rslv'.mtime # rslv.mtime]_vars

(* It is when hooks follow one another, are not slow, are not killed and   *)
(* can rely on stat.                                                       *)
CalmMtimeDiffers ==
    [][\A p \in Procs : Calm /\ Rename(p) /\ rslv # NoFile => rslv'.mtime # rslv.mtime]_vars

(* A list other than the one the daemon serves is then one whose mtime it  *)
(* has not seen, whatever became of daemon and hooks before: no list stays *)
(* unread because an older one, or the first, had its time.                *)
ChangesAreNoticed ==
    Calm /\ daemon.state = "up" /\ rslv # NoFile /\ daemon.serves # rslv.list
      => rslv.mtime # daemon.seen

(* Then the daemon comes to serve the list that is published, if it is not *)
(* replaced before and does not end.                                       *)
PublishedIsServed ==
    Calm /\ daemon.state = "up" /\ rslv # NoFile
      ~> daemon.state # "up" \/ daemon.serves = rslv.list
=============================================================================
