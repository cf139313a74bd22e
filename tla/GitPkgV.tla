------------------------------ MODULE GitPkgV ------------------------------
(***************************************************************************)
(* get_git_pkgv of gitpkgv.bbclass: it turns the git revisions of a recipe *)
(* into a package version, and caches the number of commits of each one in *)
(* a file beside the sources.  BitBake expands the variable in every task  *)
(* and parser process that asks for it; they share the file without a lock, *)
(* and are killed when a build is interrupted.                             *)
(*                                                                         *)
(* A file is an inode, so that a call that has it open keeps it when       *)
(* another call removes it.  Of a number only this is kept: "n" is the     *)
(* right one, "empty" none, "0" what stands for a git that did not answer.      *)
(***************************************************************************)
EXTENDS Naturals, Sequences

CONSTANTS Tasks,   \* processes that may expand the variable
          Urls,    \* the git repositories in SRC_URI, in order
          Tagged,  \* those whose revision has a tag
          Inodes   \* BOUND: numbers of files; one per repository and task suffice

Repos == {Urls[u] : u \in DOMAIN Urls}
None  == 0

ASSUME UrlsAssumption   == Urls \in Seq(STRING) /\ Urls # <<>>
ASSUME InodesAssumption == Inodes \subseteq Nat \ {None}

VARIABLES tree,  \* UNPACKDIR as do_unpack leaves it, for each repository
          path,  \* rev_file: the inode, or None
          data,  \* what an inode holds
          task   \* the calls

vars == <<tree, path, data, task>>

-----------------------------------------------------------------------------
Ended   == {"idle", "done", "none", "raised"}
Writing == {"count", "remove", "create"}
Running(t)  == task[t].pc \notin Ended
Repo(t)     == Urls[task[t].u]
At(t, l)    == task[t].pc = l
Cached(r)   == path[r] # None /\ data[path[r]] = "n"

Go(t, l)  == task' = [task EXCEPT ![t].pc = l]
Got(t, c) == task' = [task EXCEPT ![t].pc = "describe", ![t].commits = c]
Files     == <<path, data>>

Settled == \A r \in Repos : tree[r] = "ready"
Idle == [pc |-> "idle", u |-> 1, var |-> "GITPKGV", fd |-> None, commits |-> "empty",
         format |-> <<>>, hist |-> {}]

Init ==
    /\ tree \in [Repos -> {"absent", "ready"}]
    /\ path = [r \in Repos |-> None] /\ data = [i \in Inodes |-> "empty"]
    /\ task = [t \in Tasks |-> Idle]

(* hist is history: "alone" while no other call has run beside this one,   *)
(* "warm" when all numbers were cached as it began and nobody was about to *)
(* write one; both want repositories that stay in place.                   *)
Alone(t) == Settled /\ \A o \in Tasks \ {t} : ~Running(o)
Warm     == /\ Settled /\ \A r \in Repos : Cached(r)
            /\ \A o \in Tasks : task[o].pc \notin Writing
Lost(t, what) == IF Running(t) THEN task[t].hist \ what ELSE task[t].hist

Begin(t, var) ==
    /\ ~Running(t)
    /\ \E hist \in SUBSET {"alone", "warm"} :
         /\ "alone" \in hist <=> Alone(t)
         /\ "warm" \in hist <=> Warm
         /\ task' = [o \in Tasks |->
                       IF o = t THEN [Idle EXCEPT !.pc = "url", !.var = var, !.hist = hist]
                       ELSE [task[o] EXCEPT !.hist = Lost(o, {"alone"})]]
    /\ UNCHANGED <<tree, Files>>

(* The next url: None is returned as soon as one is not unpacked. *)
Url(t) ==
    /\ At(t, "url")
    /\ Go(t, IF tree[Repo(t)] = "absent" THEN "none" ELSE "exists")
    /\ UNCHANGED <<tree, Files>>

(* os.path.exists(rev_file) *)
Exists(t) ==
    /\ At(t, "exists")
    /\ Go(t, IF path[Repo(t)] = None THEN "count" ELSE "size")
    /\ UNCHANGED <<tree, Files>>

MutantSize(t) ==
    /\ At(t, "size") /\ path[Repo(t)] # None
    /\ Go(t, "open") /\ UNCHANGED <<tree, Files>>
MutantSizeInverted(t) ==
    /\ At(t, "size")
    /\ Go(t, IF path[Repo(t)] = None THEN "raised"
             ELSE IF data[path[Repo(t)]] = "empty" THEN "open" ELSE "count")
    /\ UNCHANGED <<tree, Files>>

(* os.path.getsize(rev_file) == 0; FileNotFoundError when it is gone *)
Size(t) ==
    /\ At(t, "size")
    /\ Go(t, IF path[Repo(t)] = None THEN "raised"
             ELSE IF data[path[Repo(t)]] = "empty" THEN "count" ELSE "open")
    /\ UNCHANGED <<tree, Files>>

(* git rev-list | wc -l: no commits when git fails, whose status is lost   *)
Count(t) ==
    /\ At(t, "count")
    /\ \/ tree[Repo(t)] # "absent" /\ Go(t, "remove")
       \/ tree[Repo(t)] # "ready" /\ Got(t, "0")
    /\ UNCHANGED <<tree, Files>>

(* oe.path.remove *)
Remove(t) ==
    /\ At(t, "remove")
    /\ path' = [path EXCEPT ![Repo(t)] = None]
    /\ Go(t, "create") /\ UNCHANGED <<tree, data>>

Free(i) == i \notin {path[r] : r \in Repos} \cup {task[t].fd : t \in {s \in Tasks : Running(s)}}

(* open(rev_file, "w"): a new file, or one that another call made in the   *)
(* meantime, emptied                                                       *)
Create(t) ==
    /\ At(t, "create")
    /\ \/ tree[Repo(t)] = "absent" /\ Go(t, "raised") /\ UNCHANGED Files
       \/ \E i \in Inodes :
            /\ tree[Repo(t)] # "absent"
            /\ IF path[Repo(t)] # None THEN i = path[Repo(t)]
               ELSE Free(i) /\ \A j \in Inodes : Free(j) => i <= j
            /\ path' = [path EXCEPT ![Repo(t)] = i] /\ data' = [data EXCEPT ![i] = "empty"]
            /\ task' = [task EXCEPT ![t].pc = "close", ![t].fd = i]
    /\ UNCHANGED tree

(* The number is in Python's buffer until the file is closed. *)
Close(t) ==
    /\ At(t, "close")
    /\ data' = [data EXCEPT ![task[t].fd] = "n"]
    /\ task' = [task EXCEPT ![t].pc = "describe", ![t].commits = "n", ![t].fd = None]
    /\ UNCHANGED <<tree, path>>

MutantOpen(t) ==
    /\ At(t, "open")
    /\ task' = [task EXCEPT ![t].pc = "read", ![t].fd = path[Repo(t)]]
    /\ UNCHANGED <<tree, Files>>

(* open(rev_file, "r") *)
Open(t) ==
    /\ At(t, "open")
    /\ IF path[Repo(t)] = None THEN Go(t, "raised")
       ELSE task' = [task EXCEPT ![t].pc = "read", ![t].fd = path[Repo(t)]]
    /\ UNCHANGED <<tree, Files>>

Read(t) ==
    /\ At(t, "read")
    /\ task' = [task EXCEPT ![t].pc = "describe", ![t].commits = data[task[t].fd],
                            ![t].fd = None]
    /\ UNCHANGED <<tree, Files>>

HasTag(t) == task[t].var = "GITPKGVTAG" /\ Repo(t) \in Tagged

(* git describe for GITPKGVTAG, or else the number; format.replace *)
Describe(t) ==
    /\ At(t, "describe")
    /\ \E version \in {"tag", task[t].commits} :
         /\ version = "tag" => HasTag(t) /\ tree[Repo(t)] # "absent"
         /\ version # "tag" => ~HasTag(t) \/ tree[Repo(t)] # "ready"
         /\ task' = [task EXCEPT ![t].format = Append(@, version), ![t].commits = "empty",
                                 ![t].pc = IF task[t].u = Len(Urls) THEN "done" ELSE "url",
                                 ![t].u = IF @ = Len(Urls) THEN @ ELSE @ + 1]
    /\ UNCHANGED <<tree, Files>>

Call(t) == \/ Url(t) \/ Exists(t) \/ Size(t) \/ Count(t) \/ Remove(t) \/ Create(t)
           \/ Close(t) \/ Open(t) \/ Read(t) \/ Describe(t)

(* The build is stopped: what is not closed is not written. *)
Killed(t) ==
    /\ Running(t)
    /\ task' = [task EXCEPT ![t] = Idle] /\ UNCHANGED <<tree, Files>>

(* do_unpack empties UNPACKDIR and clones again. *)
Unpack(r) ==
    /\ tree' = [tree EXCEPT ![r] = CASE @ = "ready" -> "absent" [] @ = "absent" -> "cloning"
                                     [] @ = "cloning" -> "ready"]
    /\ path' = [path EXCEPT ![r] = IF tree[r] = "ready" THEN None ELSE @]
    /\ task' = [t \in Tasks |-> [task[t] EXCEPT !.hist = Lost(t, {"alone", "warm"})]]
    /\ UNCHANGED data

Next == \/ \E t \in Tasks : Call(t) \/ Killed(t) \/ \E var \in {"GITPKGV", "GITPKGVTAG"} : Begin(t, var)
        \/ \E r \in Repos : Unpack(r)

Spec == Init /\ [][Next]_vars

-----------------------------------------------------------------------------
(* Type invariant *)
Piece == {"n", "0", "empty", "tag"}
Places == Ended \cup Writing \cup {"url", "exists", "size", "close", "open", "read", "describe"}
TaskRec == [pc : Places, u : DOMAIN Urls, var : {"GITPKGV", "GITPKGVTAG"},
            fd : Inodes \cup {None}, commits : {"n", "0", "empty"},
            format : Seq(Piece), hist : SUBSET {"alone", "warm"}]
TypeOK ==
    /\ tree \in [Repos -> {"absent", "cloning", "ready"}]
    /\ path \in [Repos -> Inodes \cup {None}]
    /\ data \in [Inodes -> {"empty", "n"}]
    /\ task \in [Tasks -> TaskRec]
    /\ \A t \in Tasks : task[t].pc \in {"close", "read"} => task[t].fd # None

Right(t) == /\ task[t].pc = "done" /\ Len(task[t].format) = Len(Urls)
            /\ \A k \in DOMAIN task[t].format : task[t].format[k] \in {"n", "tag"}

(* A call with no other beside it, on repositories in place, gives every   *)
(* number right, whatever killed calls, failed gits and half-written files *)
(* of the past have left in the cache.                                     *)
AloneExact ==
    \A t \in Tasks : "alone" \in task[t].hist /\ task[t].pc \in {"done", "none", "raised"} => Right(t)

(* Once every number is cached and nobody is about to write one, calls may *)
(* overlap and be killed in any way: each gives every number right.        *)
WarmExact ==
    \A t \in Tasks : "warm" \in task[t].hist /\ task[t].pc \in {"done", "none", "raised"} => Right(t)

(* What gitpkgv.bbclass:4-7 says: a version begins with the number of      *)
(* revisions.                                                              *)
SortableVersion ==
    \A t \in Tasks : task[t].pc = "done" =>
        \A k \in DOMAIN task[t].format : task[t].format[k] # "empty"
=============================================================================
