---------------------------- MODULE DnsmasqProofs ----------------------------
(***************************************************************************)
(* Theorems about dnsmasq under resolvconf, for any records and offers,    *)
(* any number of hooks, changes and seconds.                               *)
(***************************************************************************)
EXTENDS Dnsmasq, TLAPS

(* A list that reading the records chosen at one moment of a window, all    *)
(* but some names, may give; or a part of it when a failure went unnoticed. *)
Taken(l, names, w, cut) ==
    \E m \in w : \E at \in [Records -> w] :
        /\ names \subseteq R!Chosen(m)
        /\ l \subseteq R!Listed(R!Chosen(m) \ names, at)
        /\ cut \/ l = R!Listed(R!Chosen(m) \ names, at)

(* A hook knows records and nameservers of its window only. *)
HookGood(h, d, t) ==
    /\ h.pc = "idle" => h = Idle
    /\ h.pc # "idle" => d \in h.window
    /\ h.pc = "list" => h.todo = {} /\ ~h.cut
    /\ h.pc \in {"read", "stat", "sleep", "trunc"} => Taken(h.todo, h.names, h.window, h.cut)
    /\ h.pc \in {"stat", "sleep", "trunc", "write"} => h.names = {}
    /\ h.pc = "write" => t.list # Nothing /\ Taken(t.list \cup h.todo, {}, h.window, h.cut)

(* Without overlap one hook is active, and the records stand still under it. *)
Serial1 ==
    ~env.overlap => \A p \in Procs : hook[p].pc # "idle" =>
        /\ hook[p].window = {db}
        /\ \A q \in Procs \ {p} : hook[q].pc = "idle"

(* What is published and served can be explained. *)
Whole(l)  == l = Nothing \/ Taken(l, {}, R!Database, TRUE)
AllWhole  == Whole(rslv.list) /\ Whole(daemon.serves)

(* Where the init script is, and what it has seen to. *)
ScriptGood ==
    /\ script.pc = "announce" => daemon.state \in {"up", "died"}
    /\ script.pc \in {"retracted", "kill"} => db[Own] = Absent
    /\ AnnouncedRuns

IInv == /\ TypeOK /\ (\A p \in Procs : HookGood(hook[p], db, tmp[p]))
        /\ AllWhole /\ ScriptGood

-----------------------------------------------------------------------------
(* Constants of the specification have their types. *)
LEMMA Typed ==
  /\ NoFile \in File /\ Idle \in Process /\ Down \in Server /\ Finished \in Running
  /\ R!NoRecord \in R!Database
  BY DEF NoFile, File, Idle, Process, Down, Server, Finished, Running,
         R!NoRecord, R!Database, R!Lists

(* What a list has, and what it is made of *)
LEMMA ListedMember ==
  \A names, at, x : x \in R!Listed(names, at) <=> \E r \in names : x \in R!Held(r, at[r])
  BY DEF R!Listed

LEMMA HeldType == \A r \in Records : \A m \in R!Database : R!Held(r, m) \in R!Lists
<1> SUFFICES ASSUME NEW r \in Records, NEW m \in R!Database, NEW s \in R!Held(r, m)
             PROVE  s \in UNION R!Contents
  BY DEF R!Lists
<1>1. m[r] # Absent /\ s \in m[r]
  BY DEF R!Held
<1>2. m[r] \in R!Contents
  BY <1>1 DEF R!Database
<1>3. QED BY <1>1, <1>2

(* The records chosen are records. *)
LEMMA ChosenType == \A m : R!Chosen(m) \in SUBSET Records
  BY DEF R!Chosen, R!After, R!Present

(* A record changed leaves a database. *)
LEMMA Changed ==
  ASSUME db \in R!Database, NEW r \in Records, NEW c \in Offers[r] \cup {Absent}
  PROVE  [db EXCEPT ![r] = c] \in R!Database
<1>1. c \in R!Contents \cup {Absent}
  BY DEF R!Contents
<1>2. QED BY <1>1 DEF R!Database

(* The window may grow, a failure go unnoticed, and one more record be read. *)
LEMMA TakenGrows ==
  \A l, names, v, w, cut : Taken(l, names, v, cut) /\ v \subseteq w => Taken(l, names, w, cut)
<1> SUFFICES ASSUME NEW l, NEW names, NEW v, NEW w, NEW cut, Taken(l, names, v, cut), v \subseteq w
             PROVE  Taken(l, names, w, cut)
  OBVIOUS
<1>1. PICK m \in v : \E at \in [Records -> v] :
        /\ names \subseteq R!Chosen(m)
        /\ l \subseteq R!Listed(R!Chosen(m) \ names, at)
        /\ cut \/ l = R!Listed(R!Chosen(m) \ names, at)
  BY DEF Taken
<1>2. PICK at \in [Records -> v] :
        /\ names \subseteq R!Chosen(m)
        /\ l \subseteq R!Listed(R!Chosen(m) \ names, at)
        /\ cut \/ l = R!Listed(R!Chosen(m) \ names, at)
  BY <1>1
<1>3. m \in w /\ at \in [Records -> w]
  OBVIOUS
<1>4. QED BY <1>2, <1>3 DEF Taken

LEMMA TakenLoose == \A l, names, w, cut : Taken(l, names, w, cut) => Taken(l, names, w, TRUE)
  BY DEF Taken

LEMMA TakenOne ==
  ASSUME NEW l, NEW names, NEW w, NEW cut, Taken(l, names, w, cut), NEW d \in w, NEW r \in names,
         NEW s \in SUBSET R!Held(r, d), NEW cut2, cut => cut2, cut2 \/ s = R!Held(r, d)
  PROVE  Taken(l \cup s, names \ {r}, w, cut2)
<1>1. PICK m \in w : \E at \in [Records -> w] :
        /\ names \subseteq R!Chosen(m)
        /\ l \subseteq R!Listed(R!Chosen(m) \ names, at)
        /\ cut \/ l = R!Listed(R!Chosen(m) \ names, at)
  BY DEF Taken
<1>2. PICK at \in [Records -> w] :
        /\ names \subseteq R!Chosen(m)
        /\ l \subseteq R!Listed(R!Chosen(m) \ names, at)
        /\ cut \/ l = R!Listed(R!Chosen(m) \ names, at)
  BY <1>1
<1> DEFINE then == [at EXCEPT ![r] = d]
           old  == R!Listed(R!Chosen(m) \ names, at)
           new  == R!Listed(R!Chosen(m) \ (names \ {r}), then)
<1>3. R!Chosen(m) \subseteq Records /\ r \in R!Chosen(m)
  BY <1>2, ChosenType
<1>4. then \in [Records -> w] /\ then[r] = d /\ \A q \in Records \ {r} : then[q] = at[q]
  BY <1>3
<1>5. new = old \cup R!Held(r, d)
  <2>1. \A x : x \in new <=> \E q \in R!Chosen(m) \ (names \ {r}) : x \in R!Held(q, then[q])
    BY ListedMember
  <2>2. \A x : x \in old <=> \E q \in R!Chosen(m) \ names : x \in R!Held(q, at[q])
    BY ListedMember
  <2>3. \A q \in R!Chosen(m) \ names : then[q] = at[q]
    BY <1>3, <1>4
  <2>4. R!Chosen(m) \ (names \ {r}) = (R!Chosen(m) \ names) \cup {r}
    BY <1>3
  <2> HIDE DEF then, old, new
  <2>5. QED BY <1>4, <2>1, <2>2, <2>3, <2>4
<1> HIDE DEF then, old, new
<1>6. l \subseteq old /\ (cut \/ l = old)
  BY <1>2 DEF old
<1>7. (l \cup s) \subseteq new /\ (cut2 \/ l \cup s = new)
  BY <1>5, <1>6
<1>8. names \ {r} \subseteq R!Chosen(m)
  BY <1>2
<1>9. QED BY <1>4, <1>7, <1>8 DEF Taken, new

(* It is a list of the kind that may be published. *)
LEMMA TakenReading ==
  ASSUME NEW l, NEW w, NEW cut, Taken(l, {}, w, cut)
  PROVE  \E m \in w : \E list \in R!Readings(R!Chosen(m), w) :
           l \in SUBSET list /\ (l = list \/ cut)
<1>1. PICK m \in w : \E at \in [Records -> w] :
        /\ l \subseteq R!Listed(R!Chosen(m), at)
        /\ cut \/ l = R!Listed(R!Chosen(m), at)
  BY DEF Taken
<1>2. PICK at \in [Records -> w] :
        /\ l \subseteq R!Listed(R!Chosen(m), at)
        /\ cut \/ l = R!Listed(R!Chosen(m), at)
  BY <1>1
<1> DEFINE then == [r \in R!Chosen(m) |-> at[r]]
           list == R!Listed(R!Chosen(m), at)
<1>3. then \in [R!Chosen(m) -> w]
  BY ChosenType
<1>4. list = R!Listed(R!Chosen(m), then)
  <2>1. \A r \in R!Chosen(m) : R!Held(r, then[r]) = R!Held(r, at[r])
    OBVIOUS
  <2>2. \A x : x \in list <=> x \in R!Listed(R!Chosen(m), then)
    BY <2>1, ListedMember
  <2> HIDE DEF list
  <2>3. QED BY <2>2 DEF R!Listed, list
<1> HIDE DEF then
<1>5. list \in R!Readings(R!Chosen(m), w)
  BY <1>3, <1>4 DEF R!Readings
<1>6. QED BY <1>2, <1>5

(* Of records that stand still there is one. *)
LEMMA TakenNow ==
  ASSUME NEW l, NEW d, Taken(l, {}, {d}, FALSE)
  PROVE  l = R!Now(d)
<1>1. PICK at \in [Records -> {d}] : l = R!Listed(R!Chosen(d), at)
  BY DEF Taken
<1>2. at = [r \in Records |-> d]
  OBVIOUS
<1>3. QED BY <1>1, <1>2 DEF R!Now

(* No list that may be published holds dnsmasq's own address. *)
LEMMA TakenNotSelf ==
  ASSUME NEW l, Taken(l, {}, R!Database, TRUE)
  PROVE  Self \notin l
<1>1. PICK m \in R!Database : \E at \in [Records -> R!Database] : l \subseteq R!Listed(R!Chosen(m), at)
  BY DEF Taken
<1>2. PICK at \in [Records -> R!Database] : l \subseteq R!Listed(R!Chosen(m), at)
  BY <1>1
<1> SUFFICES ASSUME Self \in l PROVE FALSE
  OBVIOUS
<1>3. PICK r \in R!Chosen(m) : Self \in R!Held(r, at[r])
  BY <1>2, ListedMember
<1>4. r \in Records \ {Own}
  BY ChosenType DEF R!Chosen
<1>5. at[r] \in R!Database
  BY <1>4
<1>6. at[r][r] # Absent /\ Self \in at[r][r]
  BY <1>3 DEF R!Held
<1>7. at[r][r] \in Offers[r]
  BY <1>4, <1>5, <1>6 DEF R!Database
<1>8. QED BY <1>4, <1>6, <1>7, OffersAssumption

-----------------------------------------------------------------------------
(* A step of process p that leaves the records alone. *)
LEMMA ProcessStep ==
  ASSUME IInv, NEW p \in Procs, NEW h \in Process, NEW t \in File, Set(p, h),
         tmp' = [tmp EXCEPT ![p] = t], UNCHANGED db, HookGood(h, db, t)
  PROVE  /\ hook' \in [Procs -> Process] /\ tmp' \in [Procs -> File]
         /\ \A q \in Procs : HookGood(hook'[q], db', tmp'[q])
         /\ \A q \in Procs : hook'[q].pc = "write" => tmp'[q].list # Nothing
<1>1. hook \in [Procs -> Process] /\ tmp \in [Procs -> File]
  BY DEF IInv, TypeOK
<1>2. hook' = [hook EXCEPT ![p] = h]
  BY DEF Set
<1>3. hook' \in [Procs -> Process] /\ tmp' \in [Procs -> File]
  BY <1>1, <1>2
<1>4. ASSUME NEW q \in Procs PROVE HookGood(hook'[q], db', tmp'[q])
  <2>1. CASE q = p
    BY <1>1, <1>2, <2>1
  <2>2. CASE q # p
    BY <1>1, <1>2, <2>2 DEF IInv
  <2>3. QED BY <2>1, <2>2
<1>5. \A q \in Procs : hook'[q].pc = "write" => tmp'[q].list # Nothing
  BY <1>4 DEF HookGood
<1>6. QED BY <1>3, <1>4, <1>5

(* It leaves the invariant as it was if it changes the process alone. *)
LEMMA LocalStep ==
  ASSUME IInv, NEW p \in Procs, NEW h \in Process, NEW t \in File, Set(p, h),
         tmp' = [tmp EXCEPT ![p] = t], HookGood(h, db, t), lost' \in BOOLEAN,
         events' \in 0..env.events, UNCHANGED <<db, rslv, daemon, script, now, env, changes>>
  PROVE  IInv'
<1>1. /\ hook' \in [Procs -> Process] /\ tmp' \in [Procs -> File]
      /\ \A q \in Procs : HookGood(hook'[q], db', tmp'[q])
      /\ \A q \in Procs : hook'[q].pc = "write" => tmp'[q].list # Nothing
  BY ProcessStep
<1>2. TypeOK'
  BY <1>1 DEF IInv, TypeOK
<1>3. AllWhole' /\ ScriptGood'
  BY DEF IInv, AllWhole, ScriptGood, AnnouncedRuns
<1>4. QED BY <1>1, <1>2, <1>3 DEF IInv

(* The states of a process, and its file, unchanged *)
LEMMA SameFile == ASSUME IInv, NEW p \in Procs, UNCHANGED tmp
                  PROVE  tmp[p] \in File /\ tmp' = [tmp EXCEPT ![p] = tmp[p]]
  BY DEF IInv, TypeOK

LEMMA ProcessType ==
  ASSUME IInv, NEW p \in Procs
  PROVE  hook[p] \in Process /\ HookGood(hook[p], db, tmp[p]) /\ db \in R!Database /\ tmp[p] \in File
           /\ now \in Nat /\ lost \in BOOLEAN /\ events \in 0..env.events
           /\ (Event => events' \in 0..env.events)
  BY DEF IInv, TypeOK, Event, Env

(* Each step of a hook that publishes nothing keeps the invariant: what is  *)
(* listed, all of it or a part,                                             *)
LEMMA PickedStep ==
  ASSUME IInv, NEW p \in Procs, NEW names \in SUBSET R!Chosen(db), NEW cut \in BOOLEAN,
         cut \/ names = R!Chosen(db), hook[p].pc = "list", Picked(p, names, cut), OnlyHook
  PROVE  IInv'
<1> DEFINE h == [hook[p] EXCEPT !.pc = IF names = {} THEN "stat" ELSE "read", !.names = names,
                                !.cut = cut]
           at == [r \in Records |-> db]
<1>1. /\ h \in Process /\ h.pc \in {"read", "stat"} /\ (h.pc = "stat" => names = {})
      /\ h.window = hook[p].window /\ h.names = names /\ h.todo = hook[p].todo /\ h.cut = cut
  BY ProcessType, ChosenType DEF Process
<1>2. db \in h.window /\ h.todo = {}
  BY <1>1, ProcessType DEF HookGood
<1>3. Taken(h.todo, h.names, h.window, h.cut)
  <2>1. at \in [Records -> h.window]
    BY <1>2
  <2>2. cut \/ R!Listed(R!Chosen(db) \ names, at) = {}
    BY DEF R!Listed
  <2> HIDE DEF at, h
  <2>3. QED BY <1>1, <1>2, <2>1, <2>2 DEF Taken
<1>4. HookGood(h, db, tmp[p])
  BY <1>1, <1>2, <1>3 DEF HookGood
<1>5. QED BY <1>1, <1>4, ProcessType, SameFile, LocalStep DEF Picked, OnlyHook

LEMMA ListStep == ASSUME IInv, NEW p \in Procs, ListRecords(p) \/ ListFails(p) PROVE IInv'
<1>1. CASE ListRecords(p)
  BY <1>1, PickedStep DEF ListRecords
<1>2. CASE ListFails(p)
  <2>1. PICK names \in SUBSET R!Chosen(db) : Picked(p, names, TRUE)
    BY <1>2 DEF ListFails
  <2>2. QED BY <1>2, <2>1, PickedStep DEF ListFails
<1>3. QED BY <1>1, <1>2

(* what is read of one record,                                              *)
LEMMA TookStep ==
  ASSUME IInv, NEW p \in Procs, NEW r \in hook[p].names, NEW servers \in SUBSET R!Held(r, db),
         NEW cut \in BOOLEAN, hook[p].cut => cut, cut \/ servers = R!Held(r, db),
         hook[p].pc = "read", Took(p, r, servers, cut), OnlyHook
  PROVE  IInv'
<1> DEFINE rest == hook[p].names \ {r}
           h == [hook[p] EXCEPT !.pc = IF rest = {} THEN "stat" ELSE "read", !.names = rest,
                                !.todo = @ \cup servers, !.cut = cut]
<1>1. r \in Records /\ hook[p] \in Process
  BY ProcessType DEF Process
<1>2. servers \in R!Lists
  BY <1>1, ProcessType, HeldType DEF R!Lists
<1>3. /\ h \in Process /\ h.pc \in {"read", "stat"} /\ (h.pc = "stat" => rest = {})
      /\ h.window = hook[p].window /\ h.names = rest /\ h.todo = hook[p].todo \cup servers
      /\ h.cut = cut
  BY <1>1, <1>2 DEF Process, R!Lists
<1>4. db \in hook[p].window
  BY ProcessType DEF HookGood
<1>5. Taken(hook[p].todo, hook[p].names, hook[p].window, hook[p].cut)
  BY ProcessType DEF HookGood
<1> HIDE DEF h
<1>6. Taken(hook[p].todo \cup servers, rest, hook[p].window, cut)
  <2> DEFINE l == hook[p].todo
             n == hook[p].names
             v == hook[p].window
             c == hook[p].cut
  <2>1. Taken(l, n, v, c) /\ db \in v /\ r \in n /\ (c => cut)
    BY <1>4, <1>5
  <2> HIDE DEF l, n, v, c
  <2>2. Taken(l \cup servers, n \ {r}, v, cut)
    BY <2>1, TakenOne
  <2>3. QED BY <2>2 DEF l, n, v
<1>7. HookGood(h, db, tmp[p])
  BY <1>3, <1>4, <1>6 DEF HookGood
<1>8. QED BY <1>3, <1>7, ProcessType, SameFile, LocalStep DEF Took, OnlyHook, h

LEMMA ReadStep == ASSUME IInv, NEW p \in Procs, ReadRecord(p) \/ ReadFails(p) PROVE IInv'
<1>1. CASE ReadRecord(p)
  <2>1. PICK r \in hook[p].names : Took(p, r, R!Held(r, db), hook[p].cut)
    BY <1>1 DEF ReadRecord
  <2>2. hook[p].cut \in BOOLEAN
    BY ProcessType DEF Process
  <2>3. QED BY <1>1, <2>1, <2>2, TookStep DEF ReadRecord
<1>2. CASE ReadFails(p)
  <2>1. PICK r \in hook[p].names : \E servers \in SUBSET R!Held(r, db) : Took(p, r, servers, TRUE)
    BY <1>2 DEF ReadFails
  <2>2. QED BY <1>2, <2>1, TookStep DEF ReadFails
<1>3. QED BY <1>1, <1>2

(* and the steps up to the truncated file.                                  *)
LEMMA WaitStep == ASSUME IInv, NEW p \in Procs, Stat(p) \/ StatFails(p) \/ Wake(p) PROVE IInv'
<1> DEFINE s == [hook[p] EXCEPT !.pc = "sleep", !.since = now]
           w == [hook[p] EXCEPT !.pc = "trunc", !.since = 0]
           t == [hook[p] EXCEPT !.pc = "trunc"]
<1>1. PICK h \in {s, w, t} : Set(p, h)
  BY DEF Stat, StatFails, Wake
<1>2. /\ h \in Process /\ h.pc \in {"sleep", "trunc"} /\ h.names = hook[p].names
      /\ h.window = hook[p].window /\ h.todo = hook[p].todo /\ h.cut = hook[p].cut
  <2>1. hook[p] \in Process /\ now \in Nat
    BY ProcessType
  <2>2. CASE h = s
    BY <2>1, <2>2 DEF Process
  <2>3. CASE h = w
    BY <2>1, <2>3 DEF Process
  <2>4. CASE h = t
    BY <2>1, <2>4 DEF Process
  <2>5. QED BY <2>2, <2>3, <2>4
<1>3. hook[p].pc \in {"stat", "sleep"} /\ OnlyHook
  BY DEF Stat, StatFails, Wake
<1> HIDE DEF s, w, t
<1>4. HookGood(h, db, tmp[p])
  BY <1>2, <1>3, ProcessType DEF HookGood
<1>5. QED BY <1>1, <1>2, <1>3, <1>4, ProcessType, SameFile, LocalStep DEF OnlyHook

LEMMA TruncateStep == ASSUME IInv, NEW p \in Procs, Truncate(p) PROVE IInv'
<1> DEFINE h == [hook[p] EXCEPT !.pc = "write"]
           t == [list |-> {}, mtime |-> now, atime |-> IF tmp[p] = NoFile THEN now ELSE tmp[p].atime]
<1>1. /\ h \in Process /\ h.pc = "write" /\ h.window = hook[p].window /\ h.todo = hook[p].todo
      /\ h.names = hook[p].names /\ h.cut = hook[p].cut
  BY ProcessType DEF Process
<1>2. t \in File /\ t.list = {} /\ t.list # Nothing
  BY ProcessType, NothingAssumption DEF File, R!Lists
<1>3. tmp' = [tmp EXCEPT ![p] = t]
  BY DEF Truncate
<1>4. db \in h.window /\ h.names = {} /\ Taken(h.todo, {}, h.window, h.cut)
  BY <1>1, ProcessType DEF Truncate, HookGood
<1>5. t.list \cup h.todo = h.todo
  BY <1>2
<1>6. HookGood(h, db, t)
  BY <1>1, <1>2, <1>4, <1>5 DEF HookGood
<1>7. QED BY <1>1, <1>2, <1>3, <1>6, ProcessType, LocalStep DEF Truncate, OnlyWrite

LEMMA AppendStep == ASSUME IInv, NEW p \in Procs, Append(p) PROVE IInv'
<1>1. PICK n \in hook[p].todo :
        /\ Set(p, [hook[p] EXCEPT !.todo = @ \ {n}])
        /\ tmp' = [tmp EXCEPT ![p].list = @ \cup {n}, ![p].mtime = now]
  BY DEF Append
<1> DEFINE h == [hook[p] EXCEPT !.todo = @ \ {n}]
           t == [tmp[p] EXCEPT !.list = @ \cup {n}, !.mtime = now]
<1>2. hook[p].pc = "write" /\ tmp[p].list # Nothing /\ tmp[p].list \in R!Lists
  BY ProcessType DEF Append, HookGood, File
<1>3. /\ h \in Process /\ h.pc = "write" /\ h.window = hook[p].window
      /\ h.todo = hook[p].todo \ {n} /\ h.names = hook[p].names /\ h.cut = hook[p].cut
  BY <1>2, ProcessType DEF Process, R!Lists
<1>4. n \in UNION R!Contents
  BY <1>1, ProcessType DEF Process, R!Lists
<1>5. t \in File /\ t.list = tmp[p].list \cup {n} /\ t.list # Nothing
  BY <1>2, <1>4, ProcessType, NothingAssumption DEF File, R!Lists
<1>6. tmp' = [tmp EXCEPT ![p] = t]
  BY <1>1, ProcessType DEF IInv, TypeOK, File
<1>7. t.list \cup h.todo = tmp[p].list \cup hook[p].todo
  BY <1>1, <1>3, <1>5
<1>8. db \in h.window /\ h.names = {} /\ Taken(t.list \cup h.todo, {}, h.window, h.cut)
  BY <1>2, <1>3, <1>7, ProcessType DEF HookGood
<1>9. HookGood(h, db, t)
  BY <1>3, <1>5, <1>8 DEF HookGood
<1>10. QED BY <1>1, <1>3, <1>5, <1>6, <1>9, ProcessType, LocalStep DEF Append, OnlyWrite

(* A rename publishes what its hook can explain. *)
LEMMA RenameStep == ASSUME IInv, NEW p \in Procs, Rename(p) PROVE IInv'
<1>1. HookGood(Idle, db, NoFile) /\ NoFile \in File /\ Idle \in Process
  BY Typed DEF HookGood, Idle
<1>2. /\ hook' \in [Procs -> Process] /\ tmp' \in [Procs -> File]
      /\ \A q \in Procs : HookGood(hook'[q], db', tmp'[q])
      /\ \A q \in Procs : hook'[q].pc = "write" => tmp'[q].list # Nothing
  BY <1>1, ProcessStep DEF Rename
<1>3. rslv' \in File /\ TypeOK'
  <2>1. rslv' \in File /\ lost' \in BOOLEAN
    BY ProcessType DEF Rename, Process
  <2>2. QED BY <1>2, <2>1 DEF IInv, TypeOK, Rename
<1>4. Taken(rslv'.list, {}, R!Database, TRUE)
  <2>1. Taken(tmp[p].list \cup hook[p].todo, {}, hook[p].window, hook[p].cut) /\ hook[p].todo = {}
    BY ProcessType DEF Rename, HookGood
  <2>2. tmp[p].list \cup hook[p].todo = tmp[p].list
    BY <2>1
  <2>3. hook[p].window \subseteq R!Database
    BY ProcessType DEF Process
  <2>4. Taken(tmp[p].list, {}, R!Database, hook[p].cut)
    BY <2>1, <2>2, <2>3, TakenGrows
  <2>5. QED BY <2>4, TakenLoose DEF Rename
<1>5. AllWhole' /\ ScriptGood'
  BY <1>4 DEF IInv, AllWhole, Whole, ScriptGood, AnnouncedRuns, Rename
<1>6. QED BY <1>2, <1>3, <1>5 DEF IInv

LEMMA AbandonStep == ASSUME IInv, NEW p \in Procs, Fail(p) \/ Kill(p) PROVE IInv'
<1> DEFINE t == IF Fail(p) /\ hook[p].pc \in {"trunc", "write"} THEN NoFile ELSE tmp[p]
<1>1. t \in File
  BY Typed, ProcessType
<1>2. tmp' = [tmp EXCEPT ![p] = t]
  <2>1. CASE Fail(p)
    BY <2>1 DEF Fail
  <2>2. CASE ~Fail(p)
    BY <2>2, SameFile DEF Kill
  <2>3. QED BY <2>1, <2>2
<1>3. Set(p, Idle) /\ lost' = TRUE /\ UNCHANGED <<db, rslv, daemon, script, now, env, changes>>
  BY DEF Fail, Kill, Event
<1>4. events' \in 0..env.events
  BY ProcessType DEF Fail, Kill
<1>5. HookGood(Idle, db, t)
  BY DEF HookGood, Idle
<1>6. QED BY <1>1, <1>2, <1>3, <1>4, <1>5, Typed, LocalStep

-----------------------------------------------------------------------------
(* A change of a record widens the windows of the hooks that are active. *)
LEMMA ResolvconfStep ==
  ASSUME IInv, NEW p \in Procs, NEW r \in Records, NEW c \in Offers[r] \cup {Absent},
         Resolvconf(p, r, c), UNCHANGED tmp
  PROVE  /\ db' \in R!Database /\ hook' \in [Procs -> Process]
         /\ \A q \in Procs : HookGood(hook'[q], db', tmp'[q])
         /\ \A q \in Procs : hook'[q].pc = "write" => tmp'[q].list # Nothing
<1>1. db' \in R!Database
  BY Changed DEF IInv, TypeOK, Resolvconf
<1> DEFINE new == [Idle EXCEPT !.pc = "list", !.window = {db'}]
           wider(q) == [hook[q] EXCEPT !.window = @ \cup {db'}]
<1>2. new \in Process /\ HookGood(new, db', tmp[p])
  BY <1>1, Typed DEF Process, Idle, HookGood
<1>3. ASSUME NEW q \in Procs, hook[q].pc # "idle"
      PROVE  wider(q) \in Process /\ HookGood(wider(q), db', tmp[q])
  <2>1. /\ wider(q) \in Process /\ wider(q).window = hook[q].window \cup {db'}
        /\ wider(q).pc = hook[q].pc /\ wider(q).names = hook[q].names
        /\ wider(q).todo = hook[q].todo /\ wider(q).cut = hook[q].cut
    BY <1>1, ProcessType DEF Process
  <2>2. HookGood(hook[q], db, tmp[q])
    BY ProcessType
  <2>3. db' \in wider(q).window /\ hook[q].window \subseteq wider(q).window
    BY <2>1
  <2>4. \A l, names, cut :
          Taken(l, names, hook[q].window, cut) => Taken(l, names, wider(q).window, cut)
    BY <2>3, TakenGrows
  <2>5. QED BY <1>3, <2>1, <2>2, <2>3, <2>4 DEF HookGood
<1>4. ASSUME NEW q \in Procs PROVE hook'[q] \in Process /\ HookGood(hook'[q], db', tmp'[q])
  <2>1. CASE q = p
    BY <1>2, <2>1 DEF Resolvconf
  <2>2. CASE q # p /\ hook[q] = Idle
    <3>1. HookGood(Idle, db', tmp[q])
      BY DEF HookGood, Idle
    <3>2. QED BY <2>2, <3>1, Typed DEF Resolvconf
  <2>3. CASE q # p /\ hook[q] # Idle
    <3>1. hook[q].pc # "idle"
      BY <2>3, ProcessType DEF HookGood
    <3>2. hook'[q] = wider(q)
      BY <2>3 DEF Resolvconf
    <3>3. QED BY <1>3, <3>1, <3>2
  <2>4. QED BY <2>1, <2>2, <2>3
<1>5. hook' \in [Procs -> Process]
  BY <1>4 DEF Resolvconf
<1>6. \A q \in Procs : hook'[q].pc = "write" => tmp'[q].list # Nothing
  BY <1>4 DEF HookGood
<1>7. QED BY <1>1, <1>4, <1>5, <1>6

LEMMA InterfaceStep == ASSUME IInv, NEW p \in Procs, Interface(p) PROVE IInv'
<1>1. PICK r \in Records \ {Own} : \E c \in Offers[r] \cup {Absent} : Resolvconf(p, r, c)
  BY DEF Interface
<1>2. PICK c \in Offers[r] \cup {Absent} : Resolvconf(p, r, c)
  BY <1>1
<1>3. UNCHANGED <<tmp, rslv, daemon, script, now, env, events, lost>>
  BY DEF Interface
<1>4. /\ db' \in R!Database /\ hook' \in [Procs -> Process]
      /\ \A q \in Procs : HookGood(hook'[q], db', tmp'[q])
      /\ \A q \in Procs : hook'[q].pc = "write" => tmp'[q].list # Nothing
  BY <1>2, <1>3, ResolvconfStep
<1>5. changes' \in 0..env.changes
  BY DEF Interface, IInv, TypeOK, Env
<1>6. TypeOK'
  BY <1>3, <1>4, <1>5 DEF IInv, TypeOK
<1>7. db'[Own] = db[Own]
  BY <1>1, <1>2, RecordsAssumption DEF Resolvconf, IInv, TypeOK, R!Database
<1>8. AllWhole' /\ ScriptGood'
  BY <1>3, <1>7 DEF IInv, AllWhole, ScriptGood, AnnouncedRuns
<1>9. QED BY <1>4, <1>6, <1>8 DEF IInv

(* dnsmasq's own record is set only after it has started, and goes first. *)
LEMMA OwnStep == ASSUME IInv, NEW p \in Procs, Announce(p) \/ Retract(p) PROVE IInv'
<1>1. UNCHANGED <<tmp, rslv, daemon, now, env, changes, events, lost>>
  BY DEF Announce, Retract
<1>2. PICK c \in Offers[Own] \cup {Absent} :
        /\ Resolvconf(p, Own, c)
        /\ Announce(p) \/ (Retract(p) /\ c = Absent)
  BY DEF Announce, Retract
<1>3. /\ db' \in R!Database /\ hook' \in [Procs -> Process]
      /\ \A q \in Procs : HookGood(hook'[q], db', tmp'[q])
      /\ \A q \in Procs : hook'[q].pc = "write" => tmp'[q].list # Nothing
  BY <1>1, <1>2, RecordsAssumption, ResolvconfStep
<1>4. /\ script' \in Running
      /\ \/ Announce(p) /\ script'.pc = "announced" /\ script.pc = "announce"
         \/ Retract(p) /\ script'.pc = "retracted"
  BY DEF Announce, Retract, Running, IInv, TypeOK
<1>5. TypeOK'
  BY <1>1, <1>3, <1>4 DEF IInv, TypeOK
<1>6. db'[Own] = c
  BY <1>2, RecordsAssumption DEF Resolvconf, IInv, TypeOK, R!Database
<1>7. ScriptGood'
  <2>1. CASE Announce(p) /\ script'.pc = "announced" /\ script.pc = "announce"
    BY <1>1, <2>1 DEF IInv, ScriptGood, AnnouncedRuns
  <2>2. CASE Retract(p) /\ script'.pc = "retracted"
    <3>1. script.pc = "retract"
      BY <2>2 DEF Retract
    <3>2. c = Absent
      BY <1>2, <3>1 DEF Announce
    <3>3. QED BY <1>6, <2>2, <3>2 DEF ScriptGood, AnnouncedRuns
  <2>3. QED BY <1>4, <2>1, <2>2
<1>8. AllWhole'
  BY <1>1 DEF IInv, AllWhole
<1>9. QED BY <1>3, <1>5, <1>7, <1>8 DEF IInv

-----------------------------------------------------------------------------
(* A step of the daemon or of the init script alone *)
LEMMA ServerStep ==
  ASSUME IInv, UNCHANGED <<db, hook, tmp, now, env, changes, lost>>, rslv' \in File,
         daemon' \in Server, script' \in Running, events' \in 0..env.events, AllWhole', ScriptGood'
  PROVE  IInv'
<1>1. TypeOK' /\ (\A p \in Procs : HookGood(hook'[p], db', tmp'[p]))
  BY DEF IInv, TypeOK
<1>2. QED BY <1>1 DEF IInv

LEMMA ServerType ==
  ASSUME IInv
  PROVE  rslv \in File /\ daemon \in Server /\ script \in Running /\ now \in Nat
           /\ events \in 0..env.events /\ AllWhole /\ ScriptGood
           /\ (Event => events' \in 0..env.events)
  BY DEF IInv, TypeOK, Event, Env

LEMMA PollStep == ASSUME IInv, Poll PROVE IInv'
<1>1. /\ daemon' \in Server /\ daemon'.state = "up" /\ daemon'.serves = rslv.list
      /\ rslv' \in File /\ rslv'.list = rslv.list
  BY ServerType DEF Poll, Server, File
<1>2. AllWhole' /\ ScriptGood'
  BY <1>1, ServerType DEF Poll, AllWhole, ScriptGood, AnnouncedRuns
<1>3. QED BY <1>1, <1>2, ServerType, ServerStep DEF Poll

LEMMA DieStep == ASSUME IInv, Die PROVE IInv'
<1>1. /\ daemon' \in Server /\ daemon'.serves = Nothing /\ events' \in 0..env.events /\ UNCHANGED changes
      /\ daemon.state = "up" => daemon'.state = "died"
      /\ daemon.state \in {"up", "dying"}
  BY ServerType DEF Die, Down, Server, Event
<1>2. AllWhole' /\ ScriptGood'
  BY <1>1, ServerType DEF Die, AllWhole, Whole, ScriptGood, AnnouncedRuns
<1>3. QED BY <1>1, <1>2, ServerType, ServerStep DEF Die

(* The daemon is told to end only when its record has gone. *)
LEMMA ScriptStep ==
  ASSUME IInv, (\E c \in {"start", "stop", "restart"} : Command(c)) \/ GiveUp \/ Spawn
           \/ Returned \/ KillDaemon
  PROVE  IInv'
<1>1. UNCHANGED <<db, hook, tmp, rslv, now, env, changes, lost>> /\ events' \in 0..env.events
  BY ServerType DEF Command, GiveUp, Spawn, Returned, KillDaemon, OnlyScript, Event
<1>2. script' \in Running
  <2>1. Finished \in Running /\ \A pc \in {"announce", "kill", "spawn"} : At(pc) => script' \in Running
    BY Typed, ServerType DEF At, Running
  <2>2. CASE \E c \in {"start", "stop", "restart"} : Command(c)
    BY <2>2 DEF Command, Begins, Running
  <2>3. CASE GiveUp \/ Spawn \/ Returned \/ KillDaemon
    BY <2>1, <2>3, ServerType DEF GiveUp, Spawn, Returned, KillDaemon
  <2>4. QED BY <2>2, <2>3
<1>3. /\ daemon' \in Server
      /\ daemon'.serves \in {Nothing, daemon.serves}
      /\ daemon'.state = daemon.state \/ daemon'.state = "up" \/ db[Own] = Absent
      /\ script'.pc = "announce" => daemon'.state = "up"
      /\ script'.pc \in {"retracted", "kill"} => db[Own] = Absent
  <2>1. CASE \E c \in {"start", "stop", "restart"} : Command(c)
    BY <2>1, ServerType DEF Command, Begins
  <2>2. CASE Spawn
    BY <2>2, ServerType DEF Spawn, At, Finished, Down, Server, Running
  <2>3. CASE Returned
    BY <2>3, ServerType DEF Returned, At, Finished, Running, ScriptGood
  <2>4. CASE KillDaemon
    BY <2>4, ServerType DEF KillDaemon, At, Finished, Running, Server, ScriptGood
  <2>5. CASE GiveUp
    BY <2>5, ServerType DEF GiveUp, Finished
  <2>6. QED BY <2>1, <2>2, <2>3, <2>4, <2>5
<1>4. AllWhole' /\ ScriptGood'
  BY <1>1, <1>3, ServerType DEF AllWhole, Whole, ScriptGood, AnnouncedRuns
<1>5. QED BY <1>1, <1>2, <1>3, <1>4, ServerType, ServerStep

(* The invariant holds at first, and after a reboot. *)
LEMMA IInvInit == Init => IInv
<1> SUFFICES ASSUME Init PROVE IInv
  OBVIOUS
<1>1. \A p \in Procs : HookGood(hook[p], db, tmp[p]) /\ hook[p].pc # "write"
  BY DEF Init, HookGood, Idle
<1>2. TypeOK
  <2>1. /\ env \in Env /\ now \in Nat /\ changes \in 0..env.changes
        /\ events \in 0..env.events /\ lost \in BOOLEAN
    <3>1. env \in Envs /\ now = 1 /\ changes = 0 /\ events = 0 /\ lost = FALSE
      BY DEF Init
    <3>2. env \in Env
      BY <3>1, BoundsAssumption, Zenon
    <3>3. env.changes \in Nat /\ env.events \in Nat
      BY <3>2 DEF Env
    <3>4. now \in Nat /\ changes \in 0..env.changes /\ events \in 0..env.events
      BY <3>1, <3>3
    <3>5. QED BY <3>1, <3>2, <3>4, Zenon
  <2>2. QED BY <1>1, <2>1, Typed DEF Init, TypeOK
<1>3. AllWhole
  BY DEF Init, AllWhole, Whole, NoFile, Down
<1>4. ScriptGood
  BY RecordsAssumption DEF Init, ScriptGood, AnnouncedRuns, Finished, R!NoRecord
<1>5. QED BY <1>1, <1>2, <1>3, <1>4 DEF IInv

LEMMA RebootStep == ASSUME IInv, Reboot PROVE IInv'
<1>1. \A p \in Procs : HookGood(hook'[p], db', tmp'[p]) /\ hook'[p].pc # "write"
  BY DEF Reboot, HookGood, Idle
<1>2. events' \in 0..env.events /\ UNCHANGED changes
  BY ServerType DEF Reboot, Event
<1>3. TypeOK'
  BY <1>1, <1>2, Typed DEF Reboot, IInv, TypeOK
<1>4. AllWhole'
  BY DEF Reboot, AllWhole, Whole, NoFile, Down
<1>5. ScriptGood'
  BY RecordsAssumption DEF Reboot, ScriptGood, AnnouncedRuns, Finished, R!NoRecord
<1>6. QED BY <1>1, <1>3, <1>4, <1>5 DEF IInv

LEMMA IInvNext == IInv /\ [Next]_vars => IInv'
<1> SUFFICES ASSUME IInv, [Next]_vars PROVE IInv'
  OBVIOUS
<1>1. ASSUME NEW p \in Procs, Interface(p) PROVE IInv'
  BY <1>1, InterfaceStep
<1>2. ASSUME NEW p \in Procs, Hook(p) \/ Unnoticed(p) PROVE IInv'
  BY <1>2, ListStep, ReadStep, WaitStep, TruncateStep, AppendStep, RenameStep DEF Hook, Unnoticed
<1>3. ASSUME NEW p \in Procs, Fail(p) \/ Kill(p) PROVE IInv'
  BY <1>3, AbandonStep
<1>4. ASSUME NEW p \in Procs, Announce(p) \/ Retract(p) PROVE IInv'
  BY <1>4, OwnStep
<1>5. CASE (\E c \in {"start", "stop", "restart"} : Command(c)) \/ GiveUp \/ Spawn \/ Returned \/ KillDaemon
  BY <1>5, ScriptStep
<1>6. CASE Tick
  <2>1. UNCHANGED <<db, hook, tmp, rslv, daemon, script, env, changes, events, lost>> /\ now' \in Nat
    BY <1>6, ServerType DEF Tick
  <2>2. TypeOK' /\ (\A p \in Procs : HookGood(hook'[p], db', tmp'[p])) /\ AllWhole' /\ ScriptGood'
    BY <2>1 DEF IInv, TypeOK, AllWhole, ScriptGood, AnnouncedRuns
  <2>3. QED BY <2>2 DEF IInv
<1>7. CASE UNCHANGED vars
  BY <1>7 DEF vars, IInv, TypeOK, AllWhole, ScriptGood, AnnouncedRuns
<1>8. QED BY <1>1, <1>2, <1>3, <1>4, <1>5, <1>6, <1>7, PollStep, DieStep, RebootStep DEF Next, Script

LEMMA Invariant == Spec => []IInv
<1>1. QED BY IInvInit, IInvNext, PTL DEF Spec

-----------------------------------------------------------------------------
(* Every state has its type, and the file a hook writes to is there. *)
THEOREM TypeCorrect == Spec => []TypeOK
<1>1. IInv => TypeOK
  BY DEF IInv
<1>2. QED BY <1>1, Invariant, PTL

(* dnsmasq is never told to forward queries to itself, whatever the records *)
(* and however hooks overlap and fail.                                      *)
THEOREM NotSelf == Spec => []NeverAsksItself
<1>1. IInv => NeverAsksItself
  BY TakenNotSelf DEF IInv, AllWhole, Whole, NeverAsksItself
<1>2. QED BY <1>1, Invariant, PTL

(* The machine's resolver points at dnsmasq only while dnsmasq answers or   *)
(* has died of its own accord.                                              *)
THEOREM AnnouncedRunning == Spec => []AnnouncedRuns
<1>1. IInv => AnnouncedRuns
  BY DEF IInv, ScriptGood
<1>2. QED BY <1>1, Invariant, PTL

-----------------------------------------------------------------------------
(* A process has a window exactly when it is active. *)
LEMMA Windows ==
  ASSUME IInv, NEW p \in Procs
  PROVE  (hook[p].window = {} <=> hook[p] = Idle) /\ (hook[p].window = {} <=> hook[p].pc = "idle")
<1>1. hook[p].pc = "idle" => hook[p] = Idle
  BY ProcessType DEF HookGood
<1>2. hook[p].pc # "idle" => db \in hook[p].window
  BY ProcessType DEF HookGood
<1>3. Idle.pc = "idle" /\ Idle.window = {}
  BY DEF Idle
<1>4. QED BY <1>1, <1>2, <1>3

(* The abstract specification's view of a process that steps *)
LEMMA WindowSet ==
  ASSUME IInv, NEW p \in Procs, NEW h, Set(p, h)
  PROVE  /\ hook'[p] = h /\ \A q \in Procs \ {p} : hook'[q] = hook[q]
         /\ [q \in Procs |-> hook'[q].window]
               = [[q \in Procs |-> hook[q].window] EXCEPT ![p] = h.window]
  BY DEF IInv, TypeOK, Set

LEMMA EndedMaps == ASSUME IInv, NEW p \in Procs, Set(p, Idle) PROVE R!Ended(p)
<1>1. Idle.window = {} /\ ~Idle.cut
  BY DEF Idle
<1>2. hook'[p] = Idle /\ \A q \in Procs \ {p} : hook'[q] = hook[q]
  BY WindowSet
<1>3. {q \in Procs : hook'[q].cut} = {q \in Procs : hook[q].cut} \ {p}
  BY <1>1, <1>2
<1>4. QED BY <1>1, <1>3, WindowSet DEF R!Ended

LEMMA AbandonMaps == ASSUME IInv, NEW p \in Procs, Fail(p) \/ Kill(p) PROVE R!Abandon(p)
<1>1. Set(p, Idle) /\ UNCHANGED <<db, rslv, daemon>>
  BY DEF Fail, Kill
<1>2. QED BY <1>1, EndedMaps DEF R!Abandon

LEMMA RenameMaps == ASSUME IInv, NEW p \in Procs, Rename(p) PROVE R!Publish(p)
<1>1. Set(p, Idle) /\ UNCHANGED <<db, daemon>> /\ rslv'.list = tmp[p].list
  BY DEF Rename
<1>2. Taken(tmp[p].list \cup hook[p].todo, {}, hook[p].window, hook[p].cut) /\ hook[p].todo = {}
  BY ProcessType DEF Rename, HookGood
<1>3. tmp[p].list \cup hook[p].todo = tmp[p].list
  BY <1>2
<1>4. \E m \in hook[p].window : \E list \in R!Readings(R!Chosen(m), hook[p].window) :
        rslv'.list \in SUBSET list /\ (rslv'.list = list \/ hook[p].cut)
  BY <1>1, <1>2, <1>3, TakenReading
<1>5. hook[p].cut => p \in {q \in Procs : hook[q].cut}
  OBVIOUS
<1>6. QED BY <1>1, <1>4, <1>5, EndedMaps DEF R!Publish

(* A hook that goes on keeps its window, and may meet a failure. *)
GoesOn(p) == ListRecords(p) \/ ReadRecord(p) \/ Stat(p) \/ Wake(p) \/ Truncate(p) \/ Append(p)
               \/ Unnoticed(p)

LEMMA QuietStep ==
  ASSUME IInv, NEW p \in Procs, GoesOn(p)
  PROVE  /\ hook[p].pc # "idle" /\ UNCHANGED <<db, rslv, daemon, env, lost>>
         /\ \E h : /\ Set(p, h) /\ h.window = hook[p].window /\ h.pc # "idle"
                   /\ h.cut = hook[p].cut \/ h.cut = TRUE
<1> USE DEF GoesOn, Unnoticed, ListRecords, ListFails, ReadRecord, ReadFails, Stat, StatFails, Wake,
            Truncate, Append
<1>1. hook[p].pc # "idle" /\ UNCHANGED <<db, rslv, daemon, env, lost>>
  BY DEF OnlyHook, OnlyWrite
<1>2. hook[p] \in Process
  BY ProcessType
<1>3. CASE ListRecords(p) \/ ListFails(p)
  <2>1. PICK names, cut : Picked(p, names, cut) /\ (cut = TRUE \/ cut = hook[p].cut)
    <3>1. hook[p].cut = FALSE
      BY <1>2, <1>3, ProcessType DEF HookGood, Process
    <3>2. QED BY <1>3, <3>1
  <2> DEFINE h == [hook[p] EXCEPT !.pc = IF names = {} THEN "stat" ELSE "read", !.names = names,
                                  !.cut = cut]
  <2>2. h.window = hook[p].window /\ h.pc # "idle" /\ h.cut = cut /\ Set(p, h)
    BY <1>2, <2>1 DEF Process, Picked
  <2>3. QED BY <1>1, <2>1, <2>2
<1>4. CASE ReadRecord(p) \/ ReadFails(p)
  <2>1. PICK r, servers, cut : Took(p, r, servers, cut) /\ (cut = TRUE \/ cut = hook[p].cut)
    BY <1>4
  <2> DEFINE rest == hook[p].names \ {r}
             h == [hook[p] EXCEPT !.pc = IF rest = {} THEN "stat" ELSE "read", !.names = rest,
                                  !.todo = @ \cup servers, !.cut = cut]
  <2>2. h.window = hook[p].window /\ h.pc # "idle" /\ h.cut = cut /\ Set(p, h)
    BY <1>2, <2>1 DEF Process, Took
  <2>3. QED BY <1>1, <2>1, <2>2
<1>5. CASE Stat(p) \/ StatFails(p) \/ Wake(p) \/ Truncate(p) \/ Append(p)
  <2>1. PICK h :
          /\ Set(p, h)
          /\ \/ h = [hook[p] EXCEPT !.pc = "sleep", !.since = now]
             \/ h = [hook[p] EXCEPT !.pc = "trunc"]
             \/ h = [hook[p] EXCEPT !.pc = "trunc", !.since = 0]
             \/ h = [hook[p] EXCEPT !.pc = "write"]
             \/ \E n \in hook[p].todo : h = [hook[p] EXCEPT !.todo = @ \ {n}]
    BY <1>5
  <2>2. h.window = hook[p].window /\ h.pc # "idle" /\ h.cut = hook[p].cut
    BY <1>1, <1>2, <2>1 DEF Process
  <2>3. QED BY <1>1, <2>1, <2>2
<1>6. QED BY <1>3, <1>4, <1>5

LEMMA QuietMaps ==
  ASSUME IInv, NEW p \in Procs, GoesOn(p)
  PROVE  R!Falter(p) \/ UNCHANGED R!vars
<1>1. UNCHANGED <<db, rslv, daemon>>
  BY QuietStep
<1>2. PICK h : Set(p, h) /\ h.window = hook[p].window /\ (h.cut = hook[p].cut \/ h.cut = TRUE)
  BY QuietStep
<1>3. hook'[p] = h /\ \A q \in Procs \ {p} : hook'[q] = hook[q]
  BY <1>2, WindowSet
<1>4. [q \in Procs |-> hook'[q].window] = [q \in Procs |-> hook[q].window]
  BY <1>2, <1>3
<1>5. hook[p].window # {}
  BY QuietStep, Windows
<1> DEFINE cuts == {q \in Procs : hook[q].cut}
           then == {q \in Procs : hook'[q].cut}
<1>6. then = cuts \/ then = cuts \cup {p}
  BY <1>2, <1>3
<1> HIDE DEF cuts, then
<1>7. QED BY <1>1, <1>4, <1>5, <1>6 DEF R!vars, R!Falter, cuts, then

LEMMA ResolvconfMaps ==
  ASSUME IInv, NEW p \in Procs, NEW r \in Records, NEW c \in Offers[r] \cup {Absent},
         Resolvconf(p, r, c), UNCHANGED <<rslv, daemon>>
  PROVE  R!Change(p)
<1>1. db' \in R!Database
  BY Changed DEF IInv, TypeOK, Resolvconf
<1>2. ASSUME NEW q \in Procs
      PROVE  hook'[q].window = IF q = p THEN {db'}
                               ELSE IF hook[q].window = {} THEN {} ELSE hook[q].window \cup {db'}
  <2>1. CASE q = p
    BY <2>1 DEF Resolvconf, Idle
  <2>2. CASE q # p /\ hook[q] = Idle
    BY <2>2 DEF Resolvconf, Idle
  <2>3. CASE q # p /\ hook[q] # Idle
    <3>1. hook[q].window # {} /\ hook[q] \in Process
      BY <2>3, Windows, ProcessType
    <3>2. hook'[q] = [hook[q] EXCEPT !.window = @ \cup {db'}]
      BY <2>3 DEF Resolvconf
    <3>3. QED BY <2>3, <3>1, <3>2 DEF Process
  <2>4. QED BY <2>1, <2>2, <2>3
<1>3. hook[p].window = {}
  BY DEF Resolvconf, Idle
<1>4. {q \in Procs : hook'[q].cut} = {q \in Procs : hook[q].cut}
  <2>1. ASSUME NEW q \in Procs PROVE hook'[q].cut = hook[q].cut
    <3>1. CASE q = p \/ hook[q] = Idle
      BY <3>1 DEF Resolvconf, Idle
    <3>2. CASE q # p /\ hook[q] # Idle
      <4>1. hook'[q] = [hook[q] EXCEPT !.window = @ \cup {db'}]
        BY <3>2 DEF Resolvconf
      <4>2. QED BY <4>1, ProcessType DEF Process
    <3>3. QED BY <3>1, <3>2
  <2>2. QED BY <2>1
<1>5. QED BY <1>1, <1>2, <1>3, <1>4 DEF R!Change

LEMMA ServerMaps ==
  ASSUME IInv, Poll \/ Die \/ (\E c \in {"start", "stop", "restart"} : Command(c))
                 \/ GiveUp \/ Spawn \/ Returned \/ KillDaemon
  PROVE  [R!Next]_R!vars
<1>1. UNCHANGED <<db, hook>>
  BY DEF Poll, Die, Command, GiveUp, Spawn, Returned, KillDaemon, OnlyScript
<1>2. CASE Poll
  <2>1. daemon'.serves = rslv.list /\ rslv'.list = rslv.list
    BY <1>2, ServerType DEF Poll, Server, File
  <2>2. QED BY <1>1, <2>1 DEF R!Next, R!Serve, R!Leave, R!vars
<1>3. CASE ~Poll
  <2>1. rslv'.list = rslv.list /\ daemon'.serves \in {Nothing, daemon.serves}
    BY <1>3, ServerType
       DEF Die, Command, GiveUp, Spawn, Returned, KillDaemon, OnlyScript, Down, Server
  <2>2. QED BY <1>1, <2>1 DEF R!Next, R!Leave, R!vars
<1>4. QED BY <1>2, <1>3

LEMMA RebootMaps == ASSUME Reboot PROVE R!Reboot
  BY DEF Reboot, R!Reboot, Idle, NoFile, Down

LEMMA StepMaps == IInv /\ [Next]_vars => [R!Next]_R!vars
<1> SUFFICES ASSUME IInv, [Next]_vars PROVE [R!Next]_R!vars
  OBVIOUS
<1>1. ASSUME NEW p \in Procs, Interface(p) PROVE R!Change(p)
  BY <1>1, ResolvconfMaps DEF Interface
<1>2. ASSUME NEW p \in Procs, Announce(p) \/ Retract(p) PROVE R!Change(p)
  <2>1. PICK c \in Offers[Own] \cup {Absent} : Resolvconf(p, Own, c)
    BY <1>2 DEF Announce, Retract
  <2>2. QED BY <1>2, <2>1, RecordsAssumption, ResolvconfMaps DEF Announce, Retract
<1>3. ASSUME NEW p \in Procs, Hook(p) \/ Unnoticed(p)
      PROVE  R!Publish(p) \/ R!Falter(p) \/ UNCHANGED R!vars
  BY <1>3, RenameMaps, QuietMaps DEF Hook, GoesOn
<1>4. ASSUME NEW p \in Procs, Fail(p) \/ Kill(p) PROVE R!Abandon(p)
  BY <1>4, AbandonMaps
<1>5. CASE Tick \/ UNCHANGED vars
  BY <1>5 DEF Tick, vars, R!vars
<1>6. QED BY <1>1, <1>2, <1>3, <1>4, <1>5, ServerMaps, RebootMaps DEF Next, Script, R!Next

(* The hook implements the list that is promised: what is published is a    *)
(* whole list of the records chosen at one moment of the hook's run, each   *)
(* as it was at some moment of it, or a part of one when a command failed   *)
(* that the hook does not look at; and dnsmasq serves nothing else.         *)
THEOREM Refinement == Spec => Implements
<1>1. Init => R!Init
  BY DEF Init, R!Init, Idle, NoFile, Down
<1>2. QED BY <1>1, StepMaps, Invariant, PTL DEF Spec, Implements, R!Spec

-----------------------------------------------------------------------------
(* Without overlap the records stand still while a hook is active, and so   *)
(* the times at which it reads them are as one.                             *)
SInv == Serial1 /\ PublishedIsCurrent

LEMMA SerialInit == Init => SInv
  BY DEF Init, SInv, Serial1, PublishedIsCurrent, Idle

(* A step that leaves the hooks, the records and the list alone *)
LEMMA SerialOther ==
  ASSUME IInv, SInv, UNCHANGED <<db, hook, env, lost>>, rslv'.list = rslv.list,
         rslv = NoFile => rslv' = NoFile
  PROVE  SInv'
  BY DEF SInv, Serial1, PublishedIsCurrent

LEMMA SerialStarts ==
  ASSUME IInv, SInv, NEW p \in Procs, NEW r \in Records, NEW c \in Offers[r] \cup {Absent},
         Resolvconf(p, r, c), UNCHANGED env
  PROVE  SInv'
<1>1. hook'[p].pc = "list" /\ hook'[p].window = {db'} /\ hook'[p] # Idle
  BY DEF Resolvconf, Idle
<1>2. ASSUME ~env.overlap, NEW q \in Procs \ {p} PROVE hook'[q].pc = "idle"
  BY <1>2 DEF Resolvconf, Idle
<1>3. Serial1'
  BY <1>1, <1>2 DEF Serial1
<1>4. QED BY <1>1, <1>3 DEF SInv, PublishedIsCurrent

(* A hook that goes on, or ends *)
LEMMA SerialProcess ==
  ASSUME IInv, SInv, NEW p \in Procs, NEW h, Set(p, h), UNCHANGED <<db, env>>,
         hook[p].pc # "idle", h.pc = "idle" \/ h.window = hook[p].window
  PROVE  Serial1'
<1>1. hook' \in [Procs -> {hook'[q] : q \in Procs}] /\ hook'[p] = h
      /\ \A q \in Procs \ {p} : hook'[q] = hook[q]
  BY DEF Set, IInv, TypeOK
<1>2. QED BY <1>1 DEF SInv, Serial1

LEMMA SerialQuiet ==
  ASSUME IInv, SInv, NEW p \in Procs, GoesOn(p)
  PROVE  SInv'
<1>1. UNCHANGED <<db, rslv, env, lost>>
  BY QuietStep
<1>2. PICK h : Set(p, h) /\ h.window = hook[p].window /\ h.pc # "idle"
  BY QuietStep
<1>3. Serial1'
  BY <1>1, <1>2, QuietStep, SerialProcess
<1>4. hook'[p] # Idle
  BY <1>2 DEF Set, Idle, IInv, TypeOK
<1>5. QED BY <1>3, <1>4 DEF SInv, PublishedIsCurrent

LEMMA SerialEnds ==
  ASSUME IInv, SInv, NEW p \in Procs, Rename(p) \/ Fail(p) \/ Kill(p)
  PROVE  SInv'
<1>1. Set(p, Idle) /\ Idle.pc = "idle" /\ UNCHANGED <<db, env>>
  BY DEF Rename, Fail, Kill, Idle
<1>2. hook[p].pc # "idle"
  BY ProcessType DEF Rename, Fail, Kill, HookGood
<1>3. Serial1'
  BY <1>1, <1>2, SerialProcess
<1>4. CASE Rename(p)
  <2>1. Taken(tmp[p].list \cup hook[p].todo, {}, hook[p].window, hook[p].cut) /\ hook[p].todo = {}
    BY <1>4, ProcessType DEF Rename, HookGood
  <2>2. rslv'.list = tmp[p].list \cup hook[p].todo /\ (~lost' => hook[p].cut = FALSE)
    BY <1>4, <2>1, ProcessType DEF Rename, Process
  <2>3. ~env.overlap => hook[p].window = {db}
    BY <1>2 DEF SInv, Serial1
  <2>4. ASSUME ~env.overlap, ~lost' PROVE rslv'.list = R!Now(db)
    <3>1. Taken(rslv'.list, {}, {db}, FALSE)
      BY <2>1, <2>2, <2>3, <2>4
    <3>2. QED BY <3>1, TakenNow
  <2>5. QED BY <1>1, <1>3, <2>4 DEF SInv, PublishedIsCurrent
<1>5. CASE Fail(p) \/ Kill(p)
  BY <1>3, <1>5 DEF SInv, PublishedIsCurrent, Fail, Kill
<1>6. QED BY <1>4, <1>5

LEMMA SerialNext == IInv /\ SInv /\ [Next]_vars => SInv'
<1> SUFFICES ASSUME IInv, SInv, [Next]_vars PROVE SInv'
  OBVIOUS
<1>1. ASSUME NEW p \in Procs, Interface(p) PROVE SInv'
  BY <1>1, SerialStarts DEF Interface
<1>2. ASSUME NEW p \in Procs, Announce(p) \/ Retract(p) PROVE SInv'
  <2>1. PICK c \in Offers[Own] \cup {Absent} : Resolvconf(p, Own, c)
    BY <1>2 DEF Announce, Retract
  <2>2. QED BY <1>2, <2>1, RecordsAssumption, SerialStarts DEF Announce, Retract
<1>3. ASSUME NEW p \in Procs, Hook(p) \/ Unnoticed(p) \/ Fail(p) \/ Kill(p) PROVE SInv'
  BY <1>3, SerialQuiet, SerialEnds DEF Hook, GoesOn
<1>4. CASE Poll
  <2>1. rslv'.list = rslv.list /\ UNCHANGED <<db, hook, env, lost>> /\ rslv # NoFile
    BY <1>4, ServerType DEF Poll, File
  <2>2. QED BY <2>1, SerialOther
<1>5. CASE \/ Die \/ (\E c \in {"start", "stop", "restart"} : Command(c))
           \/ GiveUp \/ Spawn \/ Returned \/ KillDaemon \/ Tick \/ UNCHANGED vars
  <2>1. UNCHANGED <<db, hook, env, lost, rslv>>
    BY <1>5 DEF Die, Command, GiveUp, Spawn, Returned, KillDaemon, OnlyScript, Tick, vars
  <2>2. QED BY <2>1, SerialOther
<1>6. CASE Reboot
  BY <1>6 DEF Reboot, SInv, Serial1, PublishedIsCurrent, Idle
<1>7. QED BY <1>1, <1>2, <1>3, <1>4, <1>5, <1>6 DEF Next, Script

LEMMA SerialInvariant == Spec => [](IInv /\ SInv)
<1>1. QED BY Invariant, SerialInit, SerialNext, PTL DEF Spec

(* Without overlap, once the last hook has published and met no failure     *)
(* that it does not look at, the list is what the records hold.             *)
THEOREM Current == Spec => []PublishedIsCurrent
<1>1. SInv => PublishedIsCurrent
  BY DEF SInv
<1>2. QED BY <1>1, SerialInvariant, PTL

-----------------------------------------------------------------------------
(* On a calm machine no file is left behind, and a hook that is about to    *)
(* write is in a later second than the list it replaces.                    *)
CalmHook(h, t, m, n) ==
    /\ h.pc # "write" => t = NoFile
    /\ h.pc = "sleep" => m <= h.since
    /\ h.pc = "trunc" => m < n
    /\ h.pc = "write" => t.mtime = n /\ t.atime = n /\ m < n
CalmGood ==
    Calm => /\ now > 0 /\ rslv.mtime <= rslv.atime /\ rslv.atime <= now
            /\ \A p \in Procs : CalmHook(hook[p], tmp[p], rslv.mtime, now)

LEMMA CalmInit == Init => CalmGood
  BY DEF Init, CalmGood, CalmHook, Idle, NoFile

LEMMA CalmTypes ==
  ASSUME IInv
  PROVE  /\ now \in Nat /\ rslv.mtime \in Nat /\ rslv.atime \in Nat
         /\ \A p \in Procs : tmp[p].mtime \in Nat /\ tmp[p].atime \in Nat /\ hook[p].since \in Nat
         /\ hook \in [Procs -> Process] /\ tmp \in [Procs -> File]
  BY DEF IInv, TypeOK, File, Process

(* A hook's own step, when the list and the time stand still *)
LEMMA CalmProcess ==
  ASSUME IInv, CalmGood, NEW p \in Procs, NEW h, NEW t, Set(p, h), tmp' = [tmp EXCEPT ![p] = t],
         UNCHANGED <<rslv, now, env>>, Calm => CalmHook(h, t, rslv.mtime, now)
  PROVE  CalmGood'
<1> SUFFICES ASSUME Calm, NEW q \in Procs PROVE CalmHook(hook'[q], tmp'[q], rslv'.mtime, now')
  BY DEF CalmGood, Calm
<1>1. CASE q = p
  BY <1>1, CalmTypes DEF Set, CalmHook
<1>2. CASE q # p
  BY <1>2, CalmTypes DEF Set, CalmHook, CalmGood
<1>3. QED BY <1>1, <1>2

LEMMA CalmQuiet ==
  ASSUME IInv, CalmGood, NEW p \in Procs,
         GoesOn(p) \/ Fail(p) \/ Kill(p)
  PROVE  CalmGood'
<1> USE DEF OnlyHook, OnlyWrite
<1>1. UNCHANGED <<rslv, now, env>> /\ hook[p] \in Process /\ tmp[p] \in File
  BY ProcessType DEF GoesOn, Unnoticed, ListRecords, ListFails, ReadRecord, ReadFails, Stat,
     StatFails, Wake, Truncate, Append, Fail, Kill
<1>2. Calm => /\ CalmHook(hook[p], tmp[p], rslv.mtime, now)
              /\ now > 0 /\ rslv.mtime <= rslv.atime /\ rslv.atime <= now
  BY DEF CalmGood
<1>3. CASE ListRecords(p) \/ ReadRecord(p)
  <2>1. PICK h : Set(p, h) /\ h.pc \in {"read", "stat"}
    <3>1. CASE ListRecords(p)
      <4> DEFINE h == [hook[p] EXCEPT !.pc = IF R!Chosen(db) = {} THEN "stat" ELSE "read",
                                      !.names = R!Chosen(db), !.cut = FALSE]
      <4>1. Set(p, h) /\ h.pc \in {"read", "stat"}
        BY <1>1, <3>1 DEF ListRecords, Picked, Process
      <4>2. QED BY <4>1
    <3>2. CASE ReadRecord(p)
      <4>1. PICK r, servers, cut : Took(p, r, servers, cut)
        BY <3>2 DEF ReadRecord
      <4> DEFINE rest == hook[p].names \ {r}
                 h == [hook[p] EXCEPT !.pc = IF rest = {} THEN "stat" ELSE "read",
                                      !.names = rest, !.todo = @ \cup servers, !.cut = cut]
      <4>2. Set(p, h) /\ h.pc \in {"read", "stat"}
        BY <1>1, <4>1 DEF Took, Process
      <4>3. QED BY <4>2
    <3>3. QED BY <1>3, <3>1, <3>2
  <2>2. hook[p].pc \in {"list", "read"} /\ UNCHANGED tmp
    BY <1>3 DEF ListRecords, ReadRecord
  <2>3. Calm => CalmHook(h, tmp[p], rslv.mtime, now)
    BY <1>2, <2>1, <2>2 DEF CalmHook
  <2>4. QED BY <1>1, <2>1, <2>2, <2>3, SameFile, CalmProcess
<1>4. CASE Unnoticed(p)
  BY <1>1, <1>4 DEF Unnoticed, CalmGood, Calm
<1>5. CASE Stat(p)
  <2> DEFINE s == [hook[p] EXCEPT !.pc = "sleep", !.since = now]
             h == [hook[p] EXCEPT !.pc = "trunc"]
  <2>1. s.pc = "sleep" /\ s.since = now /\ h.pc = "trunc"
    BY <1>1 DEF Process
  <2>2. Calm => tmp[p] = NoFile
    BY <1>2, <1>5 DEF Stat, CalmHook
  <2>3. Calm => CalmHook(s, tmp[p], rslv.mtime, now)
    BY <1>2, <2>1, <2>2, CalmTypes DEF CalmHook
  <2>4. CASE Set(p, s)
    BY <1>1, <1>5, <2>3, <2>4, SameFile, CalmProcess DEF Stat
  <2>5. CASE Set(p, h) /\ ~(rslv # NoFile /\ rslv.atime = now)
    <3>1. Calm => rslv.mtime < now
      BY <1>2, <2>5, CalmTypes DEF NoFile
    <3>2. Calm => CalmHook(h, tmp[p], rslv.mtime, now)
      BY <2>1, <2>2, <3>1 DEF CalmHook
    <3>3. QED BY <1>1, <1>5, <2>5, <3>2, SameFile, CalmProcess DEF Stat
  <2>6. QED BY <1>5, <2>4, <2>5 DEF Stat
<1>6. CASE Wake(p)
  <2> DEFINE h == [hook[p] EXCEPT !.pc = "trunc", !.since = 0]
  <2>1. h.pc = "trunc"
    BY <1>1 DEF Process
  <2>2. Calm => tmp[p] = NoFile /\ rslv.mtime < now
    BY <1>2, <1>6, CalmTypes DEF Wake, CalmHook
  <2>3. Calm => CalmHook(h, tmp[p], rslv.mtime, now)
    BY <2>1, <2>2 DEF CalmHook
  <2>4. QED BY <1>1, <1>6, <2>3, SameFile, CalmProcess DEF Wake
<1>7. CASE Truncate(p)
  BY <1>1, <1>2, <1>7, CalmProcess DEF Truncate, CalmHook, Process
<1>8. CASE Append(p)
  <2>1. PICK n \in hook[p].todo :
          /\ Set(p, [hook[p] EXCEPT !.todo = @ \ {n}])
          /\ tmp' = [tmp EXCEPT ![p].list = @ \cup {n}, ![p].mtime = now]
    BY <1>8 DEF Append
  <2> DEFINE h == [hook[p] EXCEPT !.todo = @ \ {n}]
             t == [tmp[p] EXCEPT !.list = @ \cup {n}, !.mtime = now]
  <2>2. h.pc = "write" /\ t.mtime = now /\ t.atime = tmp[p].atime /\ tmp' = [tmp EXCEPT ![p] = t]
    BY <1>1, <1>8, <2>1, CalmTypes DEF Append, Process, File
  <2>3. Calm => CalmHook(h, t, rslv.mtime, now)
    BY <1>2, <1>8, <2>2 DEF Append, CalmHook
  <2>4. QED BY <1>1, <2>1, <2>2, <2>3, CalmProcess
<1>9. CASE Fail(p)
  BY <1>1, <1>2, <1>9, CalmProcess DEF Fail, CalmHook, Process, Idle
<1>10. CASE Kill(p)
  BY <1>1, <1>10 DEF Kill, CalmGood, Calm
<1>11. QED BY <1>3, <1>4, <1>5, <1>6, <1>7, <1>8, <1>9, <1>10 DEF GoesOn

LEMMA CalmRename ==
  ASSUME IInv, SInv, CalmGood, NEW p \in Procs, Rename(p)
  PROVE  CalmGood' /\ (Calm => rslv'.mtime # rslv.mtime)
<1> SUFFICES ASSUME Calm PROVE CalmGood' /\ rslv'.mtime # rslv.mtime
  BY DEF CalmGood, Calm, Rename
<1>1. /\ hook[p].pc = "write" /\ CalmHook(hook[p], tmp[p], rslv.mtime, now)
      /\ rslv' = tmp[p] /\ UNCHANGED now /\ now > 0
  BY DEF CalmGood, Rename
<1>2. rslv'.mtime = now /\ rslv'.atime = now /\ rslv.mtime < now
  BY <1>1 DEF CalmHook
<1>3. ASSUME NEW q \in Procs PROVE hook'[q].pc = "idle" /\ tmp'[q] = NoFile
  <2>1. CASE q = p
    BY <2>1, CalmTypes DEF Rename, Set, Idle
  <2>2. CASE q # p
    <3>1. hook[q].pc = "idle"
      BY <1>1, <2>2 DEF SInv, Serial1, Calm
    <3>2. tmp[q] = NoFile
      BY <3>1 DEF CalmGood, CalmHook
    <3>3. QED BY <2>2, <3>1, <3>2, CalmTypes DEF Rename, Set
  <2>3. QED BY <2>1, <2>2
<1>4. \A q \in Procs : CalmHook(hook'[q], tmp'[q], rslv'.mtime, now')
  BY <1>3 DEF CalmHook
<1>5. QED BY <1>1, <1>2, <1>4, CalmTypes DEF CalmGood

LEMMA CalmStarts ==
  ASSUME IInv, CalmGood, NEW p \in Procs, NEW r \in Records, NEW c \in Offers[r] \cup {Absent},
         Resolvconf(p, r, c), UNCHANGED <<tmp, rslv, now, env>>
  PROVE  CalmGood'
<1> SUFFICES ASSUME Calm, NEW q \in Procs PROVE CalmHook(hook'[q], tmp'[q], rslv'.mtime, now')
  BY DEF CalmGood, Calm
<1>1. CalmHook(hook[q], tmp[q], rslv.mtime, now)
  BY DEF CalmGood
<1>2. CASE q = p
  <2>1. hook[q] = Idle /\ hook'[q] = [Idle EXCEPT !.pc = "list", !.window = {db'}]
    BY <1>2 DEF Resolvconf
  <2>2. hook[q].pc = "idle" /\ hook'[q].pc = "list"
    BY <2>1 DEF Idle
  <2>3. QED BY <1>1, <2>2 DEF CalmHook
<1>3. CASE q # p /\ hook[q] = Idle
  BY <1>1, <1>3 DEF Resolvconf, CalmHook, Idle
<1>4. CASE q # p /\ hook[q] # Idle
  <2>1. hook'[q] = [hook[q] EXCEPT !.window = @ \cup {db'}]
    BY <1>4 DEF Resolvconf
  <2>2. hook'[q].pc = hook[q].pc /\ hook'[q].since = hook[q].since
    BY <2>1, CalmTypes DEF Process
  <2>3. QED BY <1>1, <2>2 DEF CalmHook
<1>5. QED BY <1>2, <1>3, <1>4

LEMMA CalmNext ==
  IInv /\ SInv /\ CalmGood /\ [Next]_vars =>
    /\ CalmGood'
    /\ [\A p \in Procs : Calm /\ Rename(p) /\ rslv # NoFile => rslv'.mtime # rslv.mtime]_vars
<1> SUFFICES ASSUME IInv, SInv, CalmGood, [Next]_vars PROVE CalmGood'
  BY CalmRename
<1>1. ASSUME NEW p \in Procs, Interface(p) PROVE CalmGood'
  BY <1>1, CalmStarts DEF Interface
<1>2. ASSUME NEW p \in Procs, Announce(p) \/ Retract(p) PROVE CalmGood'
  <2>1. PICK c \in Offers[Own] \cup {Absent} : Resolvconf(p, Own, c)
    BY <1>2 DEF Announce, Retract
  <2>2. QED BY <1>2, <2>1, RecordsAssumption, CalmStarts DEF Announce, Retract
<1>3. ASSUME NEW p \in Procs, Hook(p) \/ Unnoticed(p) \/ Fail(p) \/ Kill(p) PROVE CalmGood'
  BY <1>3, CalmQuiet, CalmRename DEF Hook, GoesOn
<1>4. CASE Poll
  <2>1. /\ rslv'.mtime = rslv.mtime /\ rslv'.atime = (IF rslv.atime <= rslv.mtime THEN now ELSE rslv.atime)
        /\ UNCHANGED <<hook, tmp, now, env>>
    BY <1>4, ServerType DEF Poll, File
  <2>2. QED BY <2>1, CalmTypes DEF CalmGood, CalmHook, Calm
<1>5. CASE \/ Die \/ (\E c \in {"start", "stop", "restart"} : Command(c))
           \/ GiveUp \/ Spawn \/ Returned \/ KillDaemon \/ UNCHANGED vars
  <2>1. UNCHANGED <<hook, tmp, rslv, now, env>>
    BY <1>5 DEF Die, Command, GiveUp, Spawn, Returned, KillDaemon, OnlyScript, vars
  <2>2. QED BY <2>1 DEF CalmGood, CalmHook, Calm
<1>6. CASE Reboot
  BY <1>6, CalmTypes DEF Reboot, CalmGood, CalmHook, Calm, Idle, NoFile
<1>7. CASE Tick
  <2>1. now' = now + 1 /\ UNCHANGED <<hook, tmp, rslv, env>>
        /\ (Calm => \A p \in Procs : hook[p].pc # "write")
    BY <1>7 DEF Tick, Calm
  <2>2. QED BY <2>1, CalmTypes DEF CalmGood, CalmHook, Calm
<1>8. QED BY <1>1, <1>2, <1>3, <1>4, <1>5, <1>6, <1>7 DEF Next, Script

(* When hooks follow one another, are not slow, are not killed and can rely *)
(* on stat, no list replaces another with the same mtime.                   *)
THEOREM CalmDiffers == Spec => CalmMtimeDiffers
<1>1. QED BY SerialInvariant, CalmInit, CalmNext, PTL DEF Spec, CalmMtimeDiffers

-----------------------------------------------------------------------------
(* The daemon has seen no later list than the published one, and has read   *)
(* that one when it has seen its mtime; the time of no list is 0, with      *)
(* which the daemon begins.                                                 *)
SeenGood ==
    Calm => /\ rslv # NoFile => rslv.mtime > 0
            /\ daemon.state = "up" =>
                 /\ daemon.seen <= rslv.mtime
                 /\ rslv # NoFile /\ daemon.seen = rslv.mtime => daemon.serves = rslv.list

LEMMA SeenInit == Init => SeenGood
  BY DEF Init, SeenGood, Down

LEMMA SeenTypes ==
  ASSUME IInv
  PROVE  rslv.mtime \in Nat /\ daemon.seen \in Nat /\ daemon \in Server
  BY DEF IInv, TypeOK, File, Server

(* A new list's mtime is the present second, which is after the old one's.  *)
LEMMA SeenRename ==
  ASSUME IInv, SeenGood, CalmGood, NEW p \in Procs, Rename(p)
  PROVE  SeenGood'
<1> SUFFICES ASSUME Calm PROVE SeenGood'
  BY DEF SeenGood, Calm, Rename
<1>1. CalmHook(hook[p], tmp[p], rslv.mtime, now) /\ hook[p].pc = "write" /\ rslv' = tmp[p]
  BY DEF CalmGood, Rename
<1>2. rslv'.mtime = now /\ rslv.mtime < now /\ now > 0 /\ now \in Nat
  BY <1>1, CalmTypes DEF CalmHook, CalmGood
<1>3. UNCHANGED daemon
  BY DEF Rename
<1>4. QED BY <1>2, <1>3, SeenTypes DEF SeenGood

(* What the daemon and those who start and end it do *)
LEMMA SeenServer ==
  ASSUME IInv, SeenGood, Poll \/ Die \/ Spawn \/ KillDaemon
  PROVE  SeenGood'
<1>1. UNCHANGED env
  BY DEF Poll, Die, Spawn, KillDaemon, OnlyScript
<1> SUFFICES ASSUME Calm PROVE SeenGood'
  BY <1>1 DEF SeenGood, Calm
<1>2. CASE Poll
  <2>1. rslv # NoFile /\ rslv'.mtime = rslv.mtime /\ rslv'.list = rslv.list
    BY <1>2, ServerType DEF Poll, File
  <2>2. daemon'.seen = rslv.mtime /\ daemon'.serves = rslv.list
    BY <1>2, SeenTypes DEF Poll, Server
  <2>3. QED BY <2>1, <2>2, SeenTypes DEF SeenGood
<1>3. CASE Die
  <2>1. daemon'.state # "up" /\ UNCHANGED rslv
    BY <1>3 DEF Die, Down
  <2>2. QED BY <2>1 DEF SeenGood
<1>4. CASE Spawn
  <2>1. UNCHANGED rslv /\ (UNCHANGED daemon \/ daemon'.seen = 0)
    BY <1>4 DEF Spawn, OnlyScript, Down
  <2>2. QED BY <2>1, SeenTypes DEF SeenGood
<1>5. CASE KillDaemon
  <2>1. UNCHANGED rslv /\ (UNCHANGED daemon \/ daemon'.state = "dying")
    BY <1>5, SeenTypes DEF KillDaemon, OnlyScript, Server
  <2>2. QED BY <2>1 DEF SeenGood
<1>6. QED BY <1>2, <1>3, <1>4, <1>5

LEMMA SeenNext == IInv /\ CalmGood /\ SeenGood /\ [Next]_vars => SeenGood'
<1> SUFFICES ASSUME IInv, CalmGood, SeenGood, [Next]_vars PROVE SeenGood'
  OBVIOUS
<1>1. ASSUME UNCHANGED <<rslv, daemon, env>> PROVE SeenGood'
  BY <1>1 DEF SeenGood, Calm
<1>2. ASSUME NEW p \in Procs, Hook(p) \/ Unnoticed(p) \/ Fail(p) \/ Kill(p) PROVE SeenGood'
  <2>1. Rename(p) \/ UNCHANGED <<rslv, daemon, env>>
    BY <1>2, QuietStep DEF Hook, GoesOn, Fail, Kill
  <2>2. QED BY <1>1, <2>1, SeenRename
<1>3. CASE Poll \/ Die \/ Spawn \/ KillDaemon
  BY <1>3, SeenServer
<1>4. CASE \/ \E p \in Procs : Interface(p) \/ Announce(p) \/ Retract(p)
           \/ (\E c \in {"start", "stop", "restart"} : Command(c))
           \/ GiveUp \/ Returned \/ Tick \/ UNCHANGED vars
  BY <1>1, <1>4 DEF Interface, Announce, Retract, Command, GiveUp, Returned, Tick, OnlyScript, vars
<1>5. CASE Reboot
  BY <1>5 DEF Reboot, SeenGood, Down, NoFile
<1>6. QED BY <1>2, <1>3, <1>4, <1>5 DEF Next, Script

(* In calm conditions the daemon's next poll reads any list that it does    *)
(* not serve: what the promised liveness needs besides fairness.            *)
THEOREM Noticed == Spec => []ChangesAreNoticed
<1>1. IInv /\ SeenGood => ChangesAreNoticed
  BY DEF SeenGood, ChangesAreNoticed
<1>2. QED BY <1>1, SerialInvariant, CalmInit, CalmNext, SeenInit, SeenNext, PTL DEF Spec
=============================================================================
