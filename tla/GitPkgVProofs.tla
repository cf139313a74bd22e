---------------------------- MODULE GitPkgVProofs ----------------------------
(***************************************************************************)
(* Theorems about gitpkgv's cache, for every set of tasks and repositories. *)
(***************************************************************************)
EXTENDS GitPkgV, TLAPS

(* The part of the version that a call has put together is right. *)
Sofar(t) == /\ Len(task[t].format) = task[t].u - 1
            /\ \A k \in DOMAIN task[t].format : task[t].format[k] \in {"n", "tag"}

(* What holds while a call that began with a warm cache runs, and after it *)
WarmCall(t) ==
    /\ Running(t) =>
         /\ \A r \in Repos : tree[r] = "ready" /\ Cached(r)
         /\ \A o \in Tasks : task[o].pc \notin Writing
         /\ task[t].pc \in {"url", "exists", "size", "open", "read", "describe"}
         /\ task[t].pc = "read" => data[task[t].fd] = "n"
         /\ task[t].pc = "describe" => task[t].commits = "n"
         /\ Sofar(t)
    /\ ~Running(t) => Right(t)
IInv == TypeOK /\ \A t \in Tasks : "warm" \in task[t].hist => WarmCall(t)

(* The urls are numbered from 1. *)
LEMMA UrlNumbers == Len(Urls) \in Nat \ {0} /\ DOMAIN Urls = 1..Len(Urls)
  BY UrlsAssumption

(* A call is a record, and its repository one of the urls'. *)
LEMMA CallType ==
  ASSUME task \in [Tasks -> TaskRec], NEW t \in Tasks
  PROVE  /\ task[t] \in TaskRec /\ Repo(t) \in Repos
         /\ task[t].u \in 1..Len(Urls) /\ task[t].format \in Seq(Piece)
<1>1. task[t] \in TaskRec
  OBVIOUS
<1>2. task[t].u \in DOMAIN Urls /\ task[t].format \in Seq(Piece)
  BY <1>1 DEF TaskRec
<1>3. QED BY <1>1, <1>2, UrlNumbers DEF Repo, Repos

(* Where a step may go *)
LEMMA PlacesNamed ==
  {"idle", "close", "describe", "read", "url", "done", "exists", "size", "open", "none", "raised",
   "count", "remove", "create"} \subseteq Places
  BY DEF Places, Ended, Writing

(* A call that has not begun, and one that begins *)
LEMMA IdleType ==
  /\ Idle \in TaskRec /\ Idle.pc = "idle" /\ Idle.hist = {} /\ Idle.u = 1 /\ Idle.format = <<>>
<1>1. 1 \in DOMAIN Urls /\ <<>> \in Seq(Piece)
  BY UrlNumbers
<1>2. QED BY <1>1, PlacesNamed DEF Idle, TaskRec

(* Init establishes the invariant. *)
LEMMA IInvInit == Init => IInv
<1> SUFFICES ASSUME Init PROVE IInv
  OBVIOUS
<1>1. task \in [Tasks -> TaskRec] /\ \A t \in Tasks : task[t] = Idle
  BY IdleType DEF Init
<1>2. \A t \in Tasks : task[t].pc = "idle" /\ task[t].hist = {}
  BY <1>1, IdleType
<1>3. QED BY <1>1, <1>2 DEF Init, IInv, TypeOK

(* A step that changes one call and keeps the repositories keeps the types *)
(* when what it writes has them.                                           *)
LEMMA StepType ==
  ASSUME TypeOK, NEW t \in Tasks, NEW c \in TaskRec, task' = [task EXCEPT ![t] = c],
         c.pc \in {"close", "read"} => c.fd # None,
         tree' = tree, path' \in [Repos -> Inodes \cup {None}],
         data' \in [Inodes -> {"empty", "n"}]
  PROVE  TypeOK'
  BY DEF TypeOK

(* A step that only moves a call *)
LEMMA GoType ==
  ASSUME TypeOK, NEW t \in Tasks, NEW l \in Places \ {"close", "read"}, Go(t, l),
         tree' = tree, path' \in [Repos -> Inodes \cup {None}], data' = data
  PROVE  TypeOK'
<1> DEFINE c == [task[t] EXCEPT !.pc = l]
<1>1. task[t] \in TaskRec
  BY DEF TypeOK
<1>2. c \in TaskRec /\ c.pc = l
  BY <1>1 DEF TaskRec
<1>3. task' = [task EXCEPT ![t] = c]
  BY DEF Go
<1>4. data \in [Inodes -> {"empty", "n"}]
  BY DEF TypeOK
<1> HIDE DEF c
<1>5. QED BY <1>2, <1>3, <1>4, StepType

(* A call that another's step, or do_unpack, takes a history from *)
HistKept(c, e) ==
    /\ e \in TaskRec /\ e.pc = c.pc /\ e.fd = c.fd /\ e.u = c.u
    /\ e.commits = c.commits /\ e.format = c.format /\ e.hist \subseteq c.hist
LEMMA LostType ==
  ASSUME task \in [Tasks -> TaskRec], NEW o \in Tasks, NEW what
  PROVE  HistKept(task[o], [task[o] EXCEPT !.hist = Lost(o, what)])
<1>1. task[o] \in TaskRec
  OBVIOUS
<1>2. Lost(o, what) \subseteq task[o].hist /\ Lost(o, what) \in SUBSET {"alone", "warm"}
  BY <1>1 DEF Lost, TaskRec
<1> HIDE DEF Lost
<1>3. QED BY <1>1, <1>2 DEF HistKept, TaskRec

(* Every step keeps the types. *)
LEMMA TypeNext == TypeOK /\ [Next]_vars => TypeOK'
<1> SUFFICES ASSUME TypeOK, [Next]_vars PROVE TypeOK'
  OBVIOUS
<1>0. task \in [Tasks -> TaskRec]
  BY DEF TypeOK
<1>1. ASSUME NEW t \in Tasks, Call(t) PROVE TypeOK'
  <2>1. /\ task[t] \in TaskRec /\ Repo(t) \in Repos
        /\ path \in [Repos -> Inodes \cup {None}] /\ data \in [Inodes -> {"empty", "n"}]
    BY <1>0, CallType DEF TypeOK
  <2>2. CASE Url(t)
    BY <2>1, <2>2, GoType DEF Url, Places, Ended, Files
  <2>3. CASE Exists(t)
    BY <2>1, <2>3, GoType DEF Exists, Places, Writing, Files
  <2>4. CASE Size(t)
    BY <2>1, <2>4, GoType DEF Size, Places, Writing, Ended, Files
  <2>5. CASE Count(t)
    <3>1. CASE Go(t, "remove")
      BY <2>1, <2>5, <3>1, GoType DEF Count, Places, Writing, Files
    <3>2. CASE Got(t, "0")
      <4> DEFINE c == [task[t] EXCEPT !.pc = "describe", !.commits = "0"]
      <4>1. c \in TaskRec /\ c.pc = "describe"
        BY <2>1, PlacesNamed DEF TaskRec
      <4>2. task' = [task EXCEPT ![t] = c]
        BY <3>2 DEF Got
      <4> HIDE DEF c
      <4>3. QED BY <2>1, <2>5, <4>1, <4>2, StepType DEF Count, Files
    <3>3. QED BY <2>5, <3>1, <3>2 DEF Count
  <2>6. CASE Remove(t)
    BY <2>1, <2>6, GoType DEF Remove, Places, Writing
  <2>7. CASE Create(t)
    <3>1. CASE Go(t, "raised") /\ UNCHANGED Files
      BY <2>1, <2>7, <3>1, GoType DEF Create, Places, Ended, Files
    <3>2. ASSUME NEW i \in Inodes, path' = [path EXCEPT ![Repo(t)] = i],
                 data' = [data EXCEPT ![i] = "empty"],
                 task' = [task EXCEPT ![t].pc = "close", ![t].fd = i]
          PROVE  TypeOK'
      <4> DEFINE c == [task[t] EXCEPT !.pc = "close", !.fd = i]
      <4>1. c \in TaskRec /\ c.fd = i /\ i # None
        BY <2>1, InodesAssumption, PlacesNamed DEF TaskRec
      <4>2. task' = [task EXCEPT ![t] = c]
        BY <3>2
      <4>3. path' \in [Repos -> Inodes \cup {None}] /\ data' \in [Inodes -> {"empty", "n"}]
        BY <2>1, <3>2
      <4> HIDE DEF c
      <4>4. QED BY <2>7, <4>1, <4>2, <4>3, StepType DEF Create
    <3>3. QED BY <2>7, <3>1, <3>2 DEF Create
  <2>8. CASE Close(t)
    <3> DEFINE c == [task[t] EXCEPT !.pc = "describe", !.commits = "n", !.fd = None]
    <3>1. c \in TaskRec /\ c.pc = "describe"
      BY <2>1, PlacesNamed DEF TaskRec
    <3>2. task' = [task EXCEPT ![t] = c]
      BY <2>8 DEF Close
    <3>3. data' \in [Inodes -> {"empty", "n"}]
      BY <2>1, <2>8 DEF Close
    <3> HIDE DEF c
    <3>4. QED BY <2>1, <2>8, <3>1, <3>2, <3>3, StepType DEF Close
  <2>9. CASE Open(t)
    <3>1. CASE path[Repo(t)] = None
      BY <2>1, <2>9, <3>1, GoType DEF Open, Places, Ended, Files
    <3>2. CASE path[Repo(t)] # None
      <4> DEFINE c == [task[t] EXCEPT !.pc = "read", !.fd = path[Repo(t)]]
      <4>1. c \in TaskRec /\ c.fd # None
        BY <2>1, <3>2, PlacesNamed DEF TaskRec
      <4>2. task' = [task EXCEPT ![t] = c]
        BY <2>9, <3>2 DEF Open
      <4> HIDE DEF c
      <4>3. QED BY <2>1, <2>9, <4>1, <4>2, StepType DEF Open, Files
    <3>3. QED BY <3>1, <3>2
  <2>10. CASE Read(t)
    <3> DEFINE c == [task[t] EXCEPT !.pc = "describe", !.commits = data[task[t].fd], !.fd = None]
    <3>1. task[t].fd \in Inodes
      BY <2>1, <2>10 DEF Read, At, TypeOK, TaskRec
    <3>2. c \in TaskRec /\ c.pc = "describe"
      BY <2>1, <3>1, PlacesNamed DEF TaskRec
    <3>3. task' = [task EXCEPT ![t] = c]
      BY <2>10 DEF Read
    <3> HIDE DEF c
    <3>4. QED BY <2>1, <2>10, <3>2, <3>3, StepType DEF Read, Files
  <2>11. CASE Describe(t)
    <3>1. PICK v \in {"tag", task[t].commits} :
            task' = [task EXCEPT ![t].format = Append(@, v), ![t].commits = "empty",
                                 ![t].pc = IF task[t].u = Len(Urls) THEN "done" ELSE "url",
                                 ![t].u = IF @ = Len(Urls) THEN @ ELSE @ + 1]
      BY <2>11 DEF Describe
    <3> DEFINE f == Append(task[t].format, v)
               l == IF task[t].u = Len(Urls) THEN "done" ELSE "url"
               u == IF task[t].u = Len(Urls) THEN task[t].u ELSE task[t].u + 1
               c == [task[t] EXCEPT !.format = f, !.commits = "empty", !.pc = l, !.u = u]
    <3>2. v \in Piece /\ task[t].format \in Seq(Piece)
      BY <2>1 DEF Piece, TaskRec
    <3>3. f \in Seq(Piece) /\ l \in Places /\ l \notin {"close", "read"}
      BY <3>2 DEF Places, Ended
    <3>4. u \in DOMAIN Urls
      BY <1>0, CallType, UrlNumbers
    <3>5. task' = [task EXCEPT ![t] = c]
      BY <3>1
    <3> HIDE DEF f, l, u
    <3>6. c \in TaskRec /\ c.pc = l
      BY <2>1, <3>3, <3>4 DEF TaskRec, Places
    <3> HIDE DEF c
    <3>7. QED BY <2>1, <2>11, <3>3, <3>5, <3>6, StepType DEF Describe, Files
  <2>12. QED BY <1>1, <2>2, <2>3, <2>4, <2>5, <2>6, <2>7, <2>8, <2>9, <2>10, <2>11 DEF Call
<1>2. ASSUME NEW t \in Tasks, Killed(t) PROVE TypeOK'
  BY <1>2, IdleType DEF TypeOK, Killed, Files
<1>3. ASSUME NEW t \in Tasks, NEW var \in {"GITPKGV", "GITPKGVTAG"}, Begin(t, var) PROVE TypeOK'
  <2>1. PICK hist \in SUBSET {"alone", "warm"} :
          task' = [o \in Tasks |->
                     IF o = t THEN [Idle EXCEPT !.pc = "url", !.var = var, !.hist = hist]
                     ELSE [task[o] EXCEPT !.hist = Lost(o, {"alone"})]]
    BY <1>3 DEF Begin
  <2>2. /\ [Idle EXCEPT !.pc = "url", !.var = var, !.hist = hist] \in TaskRec
        /\ [Idle EXCEPT !.pc = "url", !.var = var, !.hist = hist].pc = "url"
    BY IdleType, PlacesNamed DEF TaskRec
  <2>3. \A o \in Tasks : HistKept(task[o], [task[o] EXCEPT !.hist = Lost(o, {"alone"})])
    BY <1>0, LostType
  <2>4. QED BY <1>3, <2>1, <2>2, <2>3 DEF TypeOK, Begin, Files, HistKept
<1>4. ASSUME NEW r \in Repos, Unpack(r) PROVE TypeOK'
  <2>1. \A t \in Tasks : HistKept(task[t], task'[t])
    BY <1>0, <1>4, LostType DEF Unpack
  <2>2. task' \in [Tasks -> TaskRec]
    BY <1>4, <2>1 DEF Unpack, HistKept
  <2>3. tree' \in [Repos -> {"absent", "cloning", "ready"}] /\ path' \in [Repos -> Inodes \cup {None}]
    BY <1>4 DEF Unpack, TypeOK
  <2>4. QED BY <1>4, <2>1, <2>2, <2>3 DEF TypeOK, Unpack, HistKept
<1>5. CASE UNCHANGED vars
  BY <1>5 DEF TypeOK, vars
<1>6. QED BY <1>1, <1>2, <1>3, <1>4, <1>5 DEF Next

(* Beside a warm call, a call's step writes nothing but a right number. *)
LEMMA WarmStep ==
  ASSUME IInv, NEW w \in Tasks, "warm" \in task[w].hist, Running(w), NEW t \in Tasks, Call(t)
  PROVE  /\ tree' = tree
         /\ \A r \in Repos : Cached(r)'
         /\ \A i \in Inodes : data[i] = "n" => data'[i] = "n"
         /\ task'[t].pc \notin Writing
         /\ \A o \in Tasks \ {t} : task'[o] = task[o]
         /\ task'[t].hist = task[t].hist
<1>1. /\ WarmCall(w) /\ TypeOK /\ Repo(t) \in Repos
      /\ \A r \in Repos : tree[r] = "ready" /\ Cached(r)
      /\ task[t].pc \notin Writing
  BY CallType DEF IInv, WarmCall, TypeOK
<1> USE <1>1 DEF TypeOK, TaskRec, Cached, At, Go, Got, Files
<1>2. CASE Url(t) BY <1>2 DEF Url, Writing
<1>3. CASE Exists(t) BY <1>3 DEF Exists, Writing
<1>4. CASE Size(t) BY <1>4 DEF Size, Writing
<1>5. CASE Count(t) BY <1>5 DEF Count, Writing
<1>6. CASE Remove(t) BY <1>6 DEF Remove, Writing
<1>7. CASE Create(t) BY <1>7 DEF Create, Writing
<1>8. CASE Close(t) BY <1>8 DEF Close, Writing
<1>9. CASE Open(t) BY <1>9 DEF Open, Writing
<1>10. CASE Read(t) BY <1>10 DEF Read, Writing
<1>11. CASE Describe(t) BY <1>11 DEF Describe, Writing
<1>12. QED BY <1>2, <1>3, <1>4, <1>5, <1>6, <1>7, <1>8, <1>9, <1>10, <1>11 DEF Call

(* A right number, or a tag, continues a version that is right so far. *)
LEMMA DescribeStep ==
  ASSUME TypeOK, NEW t \in Tasks, Describe(t), task[t].commits = "n", Sofar(t)
  PROVE  /\ task'[t].pc \in {"url", "done"}
         /\ Running(t)' => Sofar(t)'
         /\ ~Running(t)' => Right(t)'
<1>1. /\ task \in [Tasks -> TaskRec] /\ task[t].format \in Seq(Piece)
      /\ task[t].u \in 1..Len(Urls) /\ Len(Urls) \in Nat
  BY CallType, UrlNumbers DEF TypeOK
<1>2. PICK v \in {"tag", task[t].commits} :
        task' = [task EXCEPT ![t].format = Append(@, v), ![t].commits = "empty",
                             ![t].pc = IF task[t].u = Len(Urls) THEN "done" ELSE "url",
                             ![t].u = IF @ = Len(Urls) THEN @ ELSE @ + 1]
  BY DEF Describe
<1> DEFINE f == Append(task[t].format, v)
<1>3. v \in {"n", "tag"} /\ v \in Piece
  BY <1>2 DEF Piece
<1>4. Len(f) = task[t].u /\ \A k \in DOMAIN f : f[k] \in {"n", "tag"}
  BY <1>1, <1>3 DEF Sofar
<1>5. /\ task'[t].format = f
      /\ task'[t].pc = IF task[t].u = Len(Urls) THEN "done" ELSE "url"
      /\ task'[t].u = IF task[t].u = Len(Urls) THEN task[t].u ELSE task[t].u + 1
  BY <1>1, <1>2 DEF TaskRec
<1>6. CASE task[t].u = Len(Urls)
  BY <1>4, <1>5, <1>6 DEF Running, Ended, Right
<1>7. CASE task[t].u # Len(Urls)
  BY <1>1, <1>4, <1>5, <1>7 DEF Running, Ended, Sofar
<1>8. QED BY <1>6, <1>7

(* A warm call's own step *)
LEMMA OwnStep ==
  ASSUME IInv, NEW t \in Tasks, "warm" \in task[t].hist, Running(t), Call(t)
  PROVE  /\ Running(t)' =>
              /\ task'[t].pc \in {"url", "exists", "size", "open", "read", "describe"}
              /\ task'[t].pc = "read" => data'[task'[t].fd] = "n"
              /\ task'[t].pc = "describe" => task'[t].commits = "n"
              /\ Sofar(t)'
         /\ ~Running(t)' => Right(t)'
<1>1. WarmCall(t) /\ TypeOK /\ Repo(t) \in Repos
  BY CallType DEF IInv, TypeOK
<1>2. /\ tree[Repo(t)] = "ready" /\ path[Repo(t)] # None /\ data[path[Repo(t)]] = "n"
      /\ task[t].pc \in {"url", "exists", "size", "open", "read", "describe"}
      /\ task[t].pc = "read" => data[task[t].fd] = "n"
      /\ task[t].pc = "describe" => task[t].commits = "n"
      /\ Sofar(t)
  BY <1>1 DEF WarmCall, Cached
<1>3. task \in [Tasks -> TaskRec]
  BY <1>1 DEF TypeOK
<1> USE DEF At, Go, Files
<1>4. CASE Url(t) \/ Exists(t) \/ Size(t) \/ Open(t) \/ Read(t)
  BY <1>2, <1>3, <1>4 DEF Url, Exists, Size, Open, Read, TaskRec, Running, Ended, None, Sofar
<1>5. CASE Describe(t)
  <2>1. task[t].commits = "n"
    BY <1>2, <1>5 DEF Describe
  <2>2. /\ task'[t].pc \in {"url", "done"}
        /\ Running(t)' => Sofar(t)'
        /\ ~Running(t)' => Right(t)'
    BY <1>1, <1>2, <1>5, <2>1, DescribeStep
  <2>3. QED BY <2>2 DEF Running, Ended
<1>6. QED BY <1>2, <1>4, <1>5 DEF Call, Count, Remove, Create, Close

(* A call's step touches no history and no other call. *)
LEMMA CallFrame ==
  ASSUME task \in [Tasks -> TaskRec], NEW t \in Tasks, Call(t)
  PROVE  task'[t].hist = task[t].hist /\ \A o \in Tasks \ {t} : task'[o] = task[o]
<1> USE DEF TaskRec, Go, Got
<1>1. CASE Url(t) BY <1>1 DEF Url
<1>2. CASE Exists(t) BY <1>2 DEF Exists
<1>3. CASE Size(t) BY <1>3 DEF Size
<1>4. CASE Count(t) BY <1>4 DEF Count
<1>5. CASE Remove(t) BY <1>5 DEF Remove
<1>6. CASE Create(t) BY <1>6 DEF Create
<1>7. CASE Close(t) BY <1>7 DEF Close
<1>8. CASE Open(t) BY <1>8 DEF Open
<1>9. CASE Read(t) BY <1>9 DEF Read
<1>10. CASE Describe(t) BY <1>10 DEF Describe
<1>11. QED BY <1>1, <1>2, <1>3, <1>4, <1>5, <1>6, <1>7, <1>8, <1>9, <1>10 DEF Call

(* Every step keeps the invariant. *)
LEMMA IInvNext == IInv /\ [Next]_vars => IInv'
<1> SUFFICES ASSUME IInv, [Next]_vars, NEW w \in Tasks, "warm" \in task'[w].hist PROVE WarmCall(w)'
  BY TypeNext DEF IInv
<1>0. TypeOK /\ task \in [Tasks -> TaskRec]
  BY DEF IInv, TypeOK
<1>1. ASSUME NEW t \in Tasks, Call(t) PROVE WarmCall(w)'
  <2>1. "warm" \in task[w].hist
    BY <1>0, <1>1, CallFrame
  <2>2. WarmCall(w)
    BY <2>1 DEF IInv
  <2>3. Running(t)
    BY <1>1 DEF Call, Url, Exists, Size, Count, Remove, Create, Close, Open, Read, Describe,
                At, Running, Ended
  <2>4. CASE ~Running(w)
    <3>1. w # t /\ task'[w] = task[w]
      BY <1>0, <1>1, <2>3, <2>4, CallFrame
    <3>2. QED BY <2>2, <2>4, <3>1 DEF WarmCall, Right, Running
  <2>5. CASE Running(w)
    <3>1. /\ tree' = tree
          /\ \A r \in Repos : Cached(r)'
          /\ \A i \in Inodes : data[i] = "n" => data'[i] = "n"
          /\ task'[t].pc \notin Writing
          /\ \A o \in Tasks \ {t} : task'[o] = task[o]
      BY <1>1, <2>1, <2>5, WarmStep
    <3>2. (\A r \in Repos : tree'[r] = "ready") /\ \A o \in Tasks : task'[o].pc \notin Writing
      BY <2>2, <2>5, <3>1 DEF WarmCall
    <3>3. CASE w = t
      BY <1>1, <2>1, <2>5, <3>1, <3>2, <3>3, OwnStep DEF WarmCall
    <3>4. CASE w # t
      <4>1. task'[w] = task[w]
        BY <3>1, <3>4
      <4>2. task[w].pc = "read" => task[w].fd \in Inodes
        BY <1>0 DEF TypeOK, TaskRec
      <4>3. QED BY <2>2, <2>5, <3>1, <3>2, <4>1, <4>2 DEF WarmCall, Running, Sofar
    <3>5. QED BY <3>3, <3>4
  <2>6. QED BY <2>4, <2>5
<1>2. ASSUME NEW t \in Tasks, Killed(t) PROVE WarmCall(w)'
  <2>1. w # t /\ task'[w] = task[w] /\ \A o \in Tasks : task'[o] = task[o] \/ task'[o] = Idle
    BY <1>0, <1>2 DEF Killed, Idle
  <2>2. WarmCall(w) /\ tree' = tree /\ path' = path /\ data' = data
    BY <1>2, <2>1 DEF IInv, Killed, Files
  <2>3. Idle.pc \notin Writing
    BY DEF Idle, Writing
  <2>4. QED BY <2>1, <2>2, <2>3 DEF WarmCall, Running, Right, Cached, Sofar
<1>3. ASSUME NEW t \in Tasks, NEW var \in {"GITPKGV", "GITPKGVTAG"}, Begin(t, var) PROVE WarmCall(w)'
  <2>1. tree' = tree /\ path' = path /\ data' = data
    BY <1>3 DEF Begin, Files
  <2>2. PICK hist \in SUBSET {"alone", "warm"} :
          /\ "warm" \in hist <=> Warm
          /\ task' = [o \in Tasks |->
                       IF o = t THEN [Idle EXCEPT !.pc = "url", !.var = var, !.hist = hist]
                       ELSE [task[o] EXCEPT !.hist = Lost(o, {"alone"})]]
    BY <1>3 DEF Begin
  <2>3. task'[t].pc = "url" /\ task'[t].u = 1 /\ task'[t].format = <<>> /\ task'[t].hist = hist
    BY <2>2, IdleType DEF TaskRec
  <2>4. \A o \in Tasks \ {t} : HistKept(task[o], task'[o])
    BY <1>0, <2>2, LostType
  <2>5. CASE w = t
    <3>1. Settled /\ (\A r \in Repos : Cached(r)) /\ \A o \in Tasks : task[o].pc \notin Writing
      BY <2>2, <2>3, <2>5 DEF Warm
    <3>2. \A o \in Tasks : task'[o].pc \notin Writing
      BY <2>3, <2>4, <3>1 DEF Writing, HistKept
    <3>3. QED BY <2>1, <2>3, <2>5, <3>1, <3>2 DEF WarmCall, Settled, Cached, Running, Ended, Sofar
  <2>6. CASE w # t
    <3>1. WarmCall(w) /\ HistKept(task[w], task'[w])
      BY <2>4, <2>6 DEF IInv, HistKept
    <3>2. Running(w) => \A o \in Tasks : task'[o].pc \notin Writing
      BY <2>3, <2>4, <3>1 DEF WarmCall, Writing, HistKept
    <3>3. QED BY <2>1, <3>1, <3>2 DEF WarmCall, Running, Right, Cached, Sofar, HistKept
  <2>7. QED BY <2>5, <2>6
<1>4. ASSUME NEW r \in Repos, Unpack(r) PROVE WarmCall(w)'
  <2>1. task'[w] = [task[w] EXCEPT !.hist = Lost(w, {"alone", "warm"})]
    BY <1>4 DEF Unpack
  <2>2. /\ "warm" \in task[w].hist /\ ~Running(w) /\ task'[w].pc = task[w].pc
        /\ task'[w].format = task[w].format
    BY <1>0, <2>1 DEF TaskRec, Lost
  <2>3. QED BY <2>2 DEF IInv, WarmCall, Running, Right
<1>5. CASE UNCHANGED vars
  BY <1>5 DEF vars, IInv, WarmCall, Running, Right, Cached, Sofar
<1>6. QED BY <1>1, <1>2, <1>3, <1>4, <1>5 DEF Next

-----------------------------------------------------------------------------
(* What holds while a call that no other runs beside is running, and after *)
(* it: what it has found out about the file still holds.                   *)
AloneCall(t) ==
    /\ Running(t) =>
         /\ Settled /\ \A o \in Tasks \ {t} : ~Running(o)
         /\ task[t].pc \in {"size", "open"} => path[Repo(t)] # None
         /\ task[t].pc = "open" => data[path[Repo(t)]] = "n"
         /\ task[t].pc = "read" => data[task[t].fd] = "n"
         /\ task[t].pc = "describe" => task[t].commits = "n"
         /\ Sofar(t)
    /\ ~Running(t) => Right(t)
AInv == TypeOK /\ \A t \in Tasks : "alone" \in task[t].hist => AloneCall(t)

(* Init establishes the invariant. *)
LEMMA AInvInit == Init => AInv
<1> SUFFICES ASSUME Init PROVE \A t \in Tasks : task[t].hist = {}
  BY IInvInit DEF AInv, IInv
<1>1. QED BY IdleType DEF Init

(* The step of a call that runs alone keeps what holds of it. *)
LEMMA AloneStep ==
  ASSUME AInv, NEW t \in Tasks, "alone" \in task[t].hist, Running(t), Call(t)
  PROVE  AloneCall(t)'
<1>1. AloneCall(t) /\ TypeOK /\ Repo(t) \in Repos /\ task \in [Tasks -> TaskRec]
  BY CallType DEF AInv, TypeOK
<1>2. /\ Settled /\ tree[Repo(t)] = "ready" /\ Sofar(t) /\ \A o \in Tasks \ {t} : ~Running(o)
      /\ task[t].pc \in {"size", "open"} => path[Repo(t)] # None
      /\ task[t].pc = "open" => data[path[Repo(t)]] = "n"
      /\ task[t].pc = "read" => data[task[t].fd] = "n"
      /\ task[t].pc = "describe" => task[t].commits = "n"
  BY <1>1 DEF AloneCall, Settled
<1>3. tree' = tree
  BY DEF Call, Url, Exists, Size, Count, Remove, Create, Close, Open, Read, Describe
<1>4. Settled' /\ \A o \in Tasks \ {t} : ~Running(o)'
  <2>1. \A o \in Tasks \ {t} : task'[o] = task[o]
    BY <1>1, CallFrame
  <2>2. QED BY <1>2, <1>3, <2>1 DEF Settled, Running
<1>5. CASE ~Describe(t)
  <2>1. /\ task'[t].pc \in Places \ Ended
        /\ task'[t].u = task[t].u /\ task'[t].format = task[t].format
        /\ task'[t].pc \in {"size", "open"} => path'[Repo(t)] # None
        /\ task'[t].pc = "open" => data'[path'[Repo(t)]] = "n"
        /\ task'[t].pc = "read" => data'[task'[t].fd] = "n"
        /\ task'[t].pc = "describe" => task'[t].commits = "n"
    <3>1. /\ path \in [Repos -> Inodes \cup {None}] /\ data \in [Inodes -> {"empty", "n"}]
          /\ task[t].pc = "close" => task[t].fd \in Inodes
      BY <1>1 DEF TypeOK, TaskRec
    <3> USE <1>1, <1>2, <3>1, PlacesNamed DEF TaskRec, At, Go, Got, Files, Ended
    <3>2. CASE Url(t) BY <3>2 DEF Url
    <3>3. CASE Exists(t) BY <3>3 DEF Exists
    <3>4. CASE Size(t) BY <3>4 DEF Size
    <3>5. CASE Count(t) BY <3>5 DEF Count
    <3>6. CASE Remove(t) BY <3>6 DEF Remove
    <3>7. CASE Create(t) BY <3>7 DEF Create
    <3>8. CASE Close(t) BY <3>8 DEF Close
    <3>9. CASE Open(t) BY <3>9 DEF Open
    <3>10. CASE Read(t) BY <3>10 DEF Read
    <3>11. QED BY <1>5, <3>2, <3>3, <3>4, <3>5, <3>6, <3>7, <3>8, <3>9, <3>10 DEF Call
  <2>2. QED BY <1>2, <1>4, <2>1 DEF AloneCall, Running, Sofar, Repo
<1>6. CASE Describe(t)
  <2>1. task[t].commits = "n"
    BY <1>2, <1>6 DEF Describe, At
  <2>2. /\ task'[t].pc \in {"url", "done"}
        /\ Running(t)' => Sofar(t)'
        /\ ~Running(t)' => Right(t)'
    BY <1>1, <1>2, <1>6, <2>1, DescribeStep
  <2>3. QED BY <1>4, <2>2 DEF AloneCall
<1>7. QED BY <1>5, <1>6

(* Every step keeps the invariant. *)
LEMMA AInvNext == AInv /\ [Next]_vars => AInv'
<1> SUFFICES ASSUME AInv, [Next]_vars, NEW w \in Tasks, "alone" \in task'[w].hist PROVE AloneCall(w)'
  BY TypeNext DEF AInv
<1>0. TypeOK /\ task \in [Tasks -> TaskRec]
  BY DEF AInv, TypeOK
<1>1. ASSUME NEW t \in Tasks, Call(t) PROVE AloneCall(w)'
  <2>1. "alone" \in task[w].hist /\ Running(t) /\ (w # t => task'[w] = task[w])
    BY <1>0, <1>1, CallFrame DEF Call, Url, Exists, Size, Count, Remove, Create, Close, Open,
                                 Read, Describe, At, Running, Ended
  <2>2. AloneCall(w)
    BY <2>1 DEF AInv
  <2>3. CASE w = t
    BY <1>1, <2>1, <2>3, AloneStep
  <2>4. CASE w # t
    BY <2>1, <2>2, <2>4 DEF AloneCall, Running, Right
  <2>5. QED BY <2>3, <2>4
<1>2. ASSUME NEW t \in Tasks, Killed(t) PROVE AloneCall(w)'
  <2>1. Running(t) /\ w # t /\ task'[w] = task[w]
    BY <1>0, <1>2, IdleType DEF Killed
  <2>2. AloneCall(w)
    BY <2>1 DEF AInv
  <2>3. QED BY <2>1, <2>2 DEF AloneCall, Running, Right
<1>3. ASSUME NEW t \in Tasks, NEW var \in {"GITPKGV", "GITPKGVTAG"}, Begin(t, var) PROVE AloneCall(w)'
  <2>1. tree' = tree /\ path' = path /\ data' = data
    BY <1>3 DEF Begin, Files
  <2>2. PICK hist \in SUBSET {"alone", "warm"} :
          /\ "alone" \in hist <=> Alone(t)
          /\ task' = [o \in Tasks |->
                       IF o = t THEN [Idle EXCEPT !.pc = "url", !.var = var, !.hist = hist]
                       ELSE [task[o] EXCEPT !.hist = Lost(o, {"alone"})]]
    BY <1>3 DEF Begin
  <2>3. task'[t].pc = "url" /\ task'[t].u = 1 /\ task'[t].format = <<>> /\ task'[t].hist = hist
    BY <2>2, IdleType DEF TaskRec
  <2>4. \A o \in Tasks \ {t} : HistKept(task[o], task'[o])
    BY <1>0, <2>2, LostType
  <2>5. CASE w = t
    <3>1. Settled /\ \A o \in Tasks \ {t} : ~Running(o)
      BY <2>2, <2>3, <2>5 DEF Alone
    <3>2. \A o \in Tasks \ {t} : ~Running(o)'
      BY <2>4, <3>1 DEF Running, HistKept
    <3>3. QED BY <2>1, <2>3, <2>5, <3>1, <3>2 DEF AloneCall, Settled, Running, Ended, Sofar
  <2>6. CASE w # t
    <3>1. HistKept(task[w], task'[w]) /\ ~Running(w)
      BY <1>0, <2>2, <2>4, <2>6 DEF Lost, TaskRec
    <3>2. AloneCall(w)
      BY <3>1 DEF AInv, HistKept
    <3>3. QED BY <3>1, <3>2 DEF AloneCall, Running, Right, HistKept
  <2>7. QED BY <2>5, <2>6
<1>4. ASSUME NEW r \in Repos, Unpack(r) PROVE AloneCall(w)'
  <2>1. task'[w] = [task[w] EXCEPT !.hist = Lost(w, {"alone", "warm"})]
    BY <1>4 DEF Unpack
  <2>2. /\ "alone" \in task[w].hist /\ ~Running(w) /\ task'[w].pc = task[w].pc
        /\ task'[w].format = task[w].format
    BY <1>0, <2>1 DEF TaskRec, Lost
  <2>3. QED BY <2>2 DEF AInv, AloneCall, Running, Right
<1>5. CASE UNCHANGED vars
  BY <1>5 DEF vars, AInv, AloneCall, Running, Right, Repo, Sofar, Settled
<1>6. QED BY <1>1, <1>2, <1>3, <1>4, <1>5 DEF Next

-----------------------------------------------------------------------------
(* Calls, files and repositories keep their types. *)
THEOREM TypeCorrect == Spec => []TypeOK
<1>1. IInv => TypeOK
  BY DEF IInv
<1>2. QED BY <1>1, IInvInit, IInvNext, PTL DEF Spec

(* Once every number is cached and nobody is about to write one, every     *)
(* call gives every number right, however many there are and whatever is   *)
(* killed.                                                                 *)
THEOREM WarmCacheServes == Spec => []WarmExact
<1>1. IInv => WarmExact
  BY DEF IInv, WarmExact, WarmCall, Running, Ended
<1>2. QED BY <1>1, IInvInit, IInvNext, PTL DEF Spec

(* A call with no other beside it gives every number right, whatever        *)
(* killed calls, failed gits and calls before it have left in the cache.    *)
THEOREM AloneCacheServes == Spec => []AloneExact
<1>1. AInv => AloneExact
  BY DEF AInv, AloneExact, AloneCall, Running, Ended
<1>2. QED BY <1>1, AInvInit, AInvNext, PTL DEF Spec
=============================================================================
