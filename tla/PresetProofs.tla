---------------------------- MODULE PresetProofs ----------------------------
(***************************************************************************)
(* Theorems about preset-all: what it leaves behind, applied once or       *)
(* again, and why it never exhausts the interpreter's stack.               *)
(***************************************************************************)
EXTENDS SystemctlProofs, FiniteSetTheorems

(* A name as the calls that work for it see it *)
Bad(n)      == NoInstance(Base(n), n)
Template(n) == TemplateOnly(Base(n), n)
Service(n)  == ServiceOf(Base(n), n)
Asked(n)    == Items(Jobs(Base(n), FileOf(n)))
Found(n)    == FoundIn(links, n) # {}
Regular(n)  == RegularIn(links, FileOf(n))
Owed(n)     == Found(n) /\ PresetState(n) # "disable" /\ Regular(n)
Frames      == Items(stack)

(* A call of enable: the name and who asks for it *)
Calls == Names \X (Names \cup {NoCaller})

-----------------------------------------------------------------------------
(* The items of a sequence *)
LEMMA NoItems == Items(<<>>) = {}
  BY DEF Items

LEMMA ItemsIn ==
  ASSUME NEW S, NEW s \in Seq(S)
  PROVE  Items(s) \subseteq S
  BY DEF Items

LEMMA ItemsOfBoth ==
  ASSUME NEW S, NEW s \in Seq(S), NEW t \in Seq(S)
  PROVE  Items(s \o t) = Items(s) \cup Items(t)
<1> DEFINE u == s \o t
<1>1. /\ Len(s) \in Nat /\ Len(t) \in Nat /\ Len(u) = Len(s) + Len(t)
      /\ \A i \in 1..Len(u) : u[i] = IF i <= Len(s) THEN s[i] ELSE t[i - Len(s)]
  OBVIOUS
<1> HIDE DEF u
<1>2. Items(u) \subseteq Items(s) \cup Items(t)
  BY <1>1 DEF Items
<1>3. ASSUME NEW i \in 1..Len(s) PROVE s[i] \in Items(u)
  <2>1. i \in 1..Len(u) /\ u[i] = s[i]
    BY <1>1
  <2>2. QED BY <2>1 DEF Items
<1>4. ASSUME NEW i \in 1..Len(t) PROVE t[i] \in Items(u)
  <2>1. i + Len(s) \in 1..Len(u) /\ u[i + Len(s)] = t[i]
    BY <1>1
  <2>2. QED BY <2>1 DEF Items
<1>5. Items(s) \subseteq Items(u) /\ Items(t) \subseteq Items(u)
  BY <1>3, <1>4 DEF Items
<1>6. QED BY <1>2, <1>5 DEF u

LEMMA ItemsOfJobLists ==
  ASSUME NEW s \in Seq(Job), NEW t \in Seq(Job)
  PROVE  Items(s \o t) = Items(s) \cup Items(t)
  BY ItemsOfBoth, ZenonT(40)

LEMMA ItemsOfOne == \A x : Items(<<x>>) = {x}
  BY DEF Items

LEMMA ItemsOfPush ==
  ASSUME NEW f \in Frame, NEW s \in Seq(Frame)
  PROVE  Items(<<f>> \o s) = {f} \cup Items(s)
<1>1. <<f>> \in Seq(Frame)
  OBVIOUS
<1>2. Items(<<f>> \o s) = Items(<<f>>) \cup Items(s)
  BY <1>1, ItemsOfBoth, ZenonT(40)
<1>3. QED BY <1>2, ItemsOfOne

LEMMA ItemsOfRest ==
  ASSUME NEW S, NEW s \in Seq(S), s # <<>>
  PROVE  Items(s) = {Head(s)} \cup Items(Tail(s))
<1>1. /\ Head(s) \in S /\ Tail(s) \in Seq(S) /\ s = <<Head(s)>> \o Tail(s)
  OBVIOUS
<1>2. Items(<<Head(s)>> \o Tail(s)) = Items(<<Head(s)>>) \cup Items(Tail(s))
  <2>1. <<Head(s)>> \in Seq(S)
    BY <1>1
  <2>2. QED BY <1>1, <2>1, ItemsOfBoth, ZenonT(40)
<1>3. QED BY <1>1, <1>2, ItemsOfOne

LEMMA ItemsOfJobs ==
  ASSUME NEW what, NEW ns \in Seq(Names)
  PROVE  Items(JobsOf(what, ns)) = {[do |-> what, name |-> m] : m \in Items(ns)}
<1> DEFINE js == JobsOf(what, ns)
<1>1. Len(js) = Len(ns) /\ Len(ns) \in Nat /\ \A i \in 1..Len(ns) : js[i] = [do |-> what, name |-> ns[i]]
  BY DEF JobsOf
<1> HIDE DEF js
<1>2. Items(js) = {[do |-> what, name |-> m] : m \in Items(ns)}
  BY <1>1 DEF Items
<1>3. QED BY <1>2 DEF js

(* What a call works off: a job for each value of a key *)
KeyOfJob(what) == IF what = "also" THEN "Also" ELSE IF what = "alias" THEN "Alias" ELSE KeyOf(what)

LEMMA AskedJobs ==
  ASSUME TypeOK, NEW n \in Names, Enablable(n)
  PROVE  /\ Jobs(Base(n), FileOf(n)) \in Seq(Job)
         /\ \A j : j \in Asked(n) <=>
              \E what \in {"wants", "requires", "also", "alias"} :
                \E m \in Values(n, KeyOfJob(what)) : j = [do |-> what, name |-> m]
         /\ \A key \in {"WantedBy", "RequiredBy", "Also", "Alias"} : Values(n, key) \subseteq Names
<1> DEFINE l == Base(n)
           u == FileOf(n)
           c(key) == Config(l, u, key)
<1>1. u \in Names /\ l \in Locs
  BY FileOfName, FirstInType DEF Enablable, RegularIn, Base
<1>2. \A key \in {"WantedBy", "RequiredBy", "Also", "Alias"} : c(key) \in Seq(Names)
  BY <1>1, ConfigType DEF TypeOK
<1> DEFINE a == JobsOf("wants", c("WantedBy"))
           b == JobsOf("requires", c("RequiredBy"))
           d == JobsOf("also", c("Also"))
           e == JobsOf("alias", c("Alias"))
<1>3. a \in Seq(Job) /\ b \in Seq(Job) /\ d \in Seq(Job) /\ e \in Seq(Job)
  BY <1>2, JobsOfType
<1>4. Jobs(l, u) = a \o b \o d \o e
  BY DEF Jobs
<1>5. /\ Items(a) = {[do |-> "wants", name |-> m] : m \in Values(n, "WantedBy")}
      /\ Items(b) = {[do |-> "requires", name |-> m] : m \in Values(n, "RequiredBy")}
      /\ Items(d) = {[do |-> "also", name |-> m] : m \in Values(n, "Also")}
      /\ Items(e) = {[do |-> "alias", name |-> m] : m \in Values(n, "Alias")}
  BY <1>2, ItemsOfJobs DEF Values
<1>6. \A key \in {"WantedBy", "RequiredBy", "Also", "Alias"} : Values(n, key) \subseteq Names
  BY <1>2, ItemsIn DEF Values
<1> HIDE DEF a, b, d, e
<1>7. a \o b \in Seq(Job) /\ a \o b \o d \in Seq(Job) /\ a \o b \o d \o e \in Seq(Job)
  BY <1>3
<1>8. Items(a \o b \o d \o e) = Items(a) \cup Items(b) \cup Items(d) \cup Items(e)
  <2>1. Items(a \o b) = Items(a) \cup Items(b)
    BY <1>3, ItemsOfJobLists
  <2>2. Items((a \o b) \o d) = Items(a \o b) \cup Items(d)
    BY <1>3, <1>7, ItemsOfJobLists
  <2>3. Items((a \o b \o d) \o e) = Items(a \o b \o d) \cup Items(e)
    BY <1>3, <1>7, ItemsOfJobLists
  <2>4. QED BY <2>1, <2>2, <2>3
<1>9. Asked(n) = Items(a) \cup Items(b) \cup Items(d) \cup Items(e)
  BY <1>4, <1>8 DEF Asked
<1>10. /\ KeyOfJob("wants") = "WantedBy" /\ KeyOfJob("requires") = "RequiredBy"
       /\ KeyOfJob("also") = "Also" /\ KeyOfJob("alias") = "Alias"
  BY DEF KeyOfJob, KeyOf
<1>11. \A j : j \in Asked(n) <=>
         \E what \in {"wants", "requires", "also", "alias"} :
           \E m \in Values(n, KeyOfJob(what)) : j = [do |-> what, name |-> m]
  BY <1>5, <1>9, <1>10
<1>12. QED BY <1>4, <1>6, <1>7, <1>11

-----------------------------------------------------------------------------
(* What the image alone decides stays as it is. *)
LEMMA ImageKept ==
  ASSUME id' = id
  PROVE  /\ image' = image
         /\ \A ls, n : FoundIn(ls, n)' = FoundIn(ls, n)
         /\ \A ls, n : RegularIn(ls, n)' <=> RegularIn(ls, n)
         /\ \A n : Base(n)' = Base(n)
         /\ \A n : Enablable(n)' <=> Enablable(n)
<1>1. image' = image /\ Locations' = Locations
  BY DEF image, Locations
<1>2. \A ls, l, n : EntryIn(ls, l, n)' = EntryIn(ls, l, n)
  BY <1>1 DEF EntryIn
<1>3. \A ls, n : FoundIn(ls, n)' = FoundIn(ls, n)
  BY <1>1, <1>2 DEF FoundIn
<1>4. \A ls, n : FirstIn(ls, n)' = FirstIn(ls, n)
  BY <1>3 DEF FirstIn
<1>5. \A ls, n : RegularIn(ls, n)' <=> RegularIn(ls, n)
  BY <1>2, <1>3, <1>4 DEF RegularIn, EntryIn, FirstIn, FoundIn, Locations, image
<1>6. \A n : Base(n)' = Base(n)
  BY <1>1, <1>4 DEF Base, FirstIn, FoundIn, EntryIn, Locations, image
<1>7. \A n : Enablable(n)' <=> Enablable(n)
  BY <1>1, <1>5 DEF Enablable, RegularIn, FirstIn, FoundIn, EntryIn, Locations, image
<1>8. QED BY <1>1, <1>3, <1>5, <1>6, <1>7

LEMMA NamesKept ==
  ASSUME id' = id
  PROVE  /\ \A n, key : Values(n, key)' = Values(n, key)
         /\ \A n : Asked(n)' = Asked(n)
         /\ \A n : Service(n)' = Service(n)
         /\ \A n : Template(n)' <=> Template(n)
         /\ \A n : Bad(n)' <=> Bad(n)
         /\ \A n : PresetState(n)' = PresetState(n)
<1>1. image' = image /\ Locations' = Locations /\ \A n : Base(n)' = Base(n)
  BY ImageKept DEF image, Locations
<1>2. ASSUME NEW n
      PROVE  \A key : Values(n, key)' = Values(n, key)
  <2>1. Base(n)' = Base(n)
    BY <1>1
  <2>2. ASSUME NEW key PROVE Values(n, key)' = Values(n, key)
    <3>1. Config(Base(n), FileOf(n), key)' = Config(Base(n), FileOf(n), key)
      BY <1>1, <2>1, Zenon DEF Config, DropIn, FileOf, Templated
    <3>2. QED BY <3>1 DEF Values, Items
  <2>3. QED BY <2>2
<1>3. ASSUME NEW n
      PROVE  Asked(n)' = Asked(n)
  <2>1. Base(n)' = Base(n)
    BY <1>1
  <2>2. \A key : Config(Base(n), FileOf(n), key)' = Config(Base(n), FileOf(n), key)
    BY <1>1, <2>1, Zenon DEF Config, DropIn, FileOf, Templated
  <2>3. Jobs(Base(n), FileOf(n))' = Jobs(Base(n), FileOf(n))
    <3>1. /\ Config(Base(n), FileOf(n), "WantedBy")' = Config(Base(n), FileOf(n), "WantedBy")
          /\ Config(Base(n), FileOf(n), "RequiredBy")' = Config(Base(n), FileOf(n), "RequiredBy")
          /\ Config(Base(n), FileOf(n), "Also")' = Config(Base(n), FileOf(n), "Also")
          /\ Config(Base(n), FileOf(n), "Alias")' = Config(Base(n), FileOf(n), "Alias")
      BY <2>2
    <3>2. QED BY <3>1 DEF Jobs
  <2>4. QED BY <2>3 DEF Asked
<1>4. ASSUME NEW n
      PROVE  /\ Service(n)' = Service(n)
             /\ Template(n)' <=> Template(n)
             /\ Bad(n)' <=> Bad(n)
  <2>1. Base(n)' = Base(n)
    BY <1>1
  <2>2. \A key : Config(Base(n), FileOf(n), key)' = Config(Base(n), FileOf(n), key)
    BY <1>1, <2>1, Zenon DEF Config, DropIn, FileOf, Templated
  <2>3. Config(Base(n), FileOf(n), "DefaultInstance")' = Config(Base(n), FileOf(n), "DefaultInstance")
    BY <2>2
  <2>4. /\ DefaultKey(Base(n), FileOf(n))' <=> DefaultKey(Base(n), FileOf(n))
        /\ DefaultValues(Base(n), FileOf(n))' = DefaultValues(Base(n), FileOf(n))
    BY <2>3, Zenon DEF DefaultKey, DefaultValues
  <2>5. DefaultInstance(Base(n), FileOf(n))' = DefaultInstance(Base(n), FileOf(n))
    BY <2>3, <2>4, Zenon DEF DefaultInstance, DefaultValues
  <2>6. Service(n)' = Service(n)
    BY <2>4, <2>5 DEF Service, ServiceOf
  <2>7. Template(n)' <=> Template(n)
    BY <2>4, <2>1 DEF Template, TemplateOnly, DefaultKey
  <2>8. Bad(n)' <=> Bad(n)
    BY <2>4 DEF Bad, NoInstance
  <2>9. QED BY <2>6, <2>7, <2>8
<1>5. ASSUME NEW n
      PROVE  PresetState(n)' = PresetState(n)
  BY <1>1 DEF PresetState, Matching, PresetLines, PresetFiles, HavePreset, Earlier
<1>6. QED BY <1>2, <1>3, <1>4, <1>5

(* A name is regular only while /etc holds no link of its file; the first  *)
(* file found is then the one that the image has.                          *)
LEMMA RegularUnlinked ==
  ASSUME NEW ls, NEW n, RegularIn(ls, n)
  PROVE  ~LinkedIn(ls, Top(n))
<1> SUFFICES ASSUME LinkedIn(ls, Top(n)) PROVE FALSE
  OBVIOUS
<1>1. EntryIn(ls, "etc", n) = "link"
  BY DEF EntryIn
<1>2. "etc" \in FoundIn(ls, n) /\ FoundIn(ls, n) \subseteq Locs
  BY <1>1 DEF FoundIn, Locations, Locs
<1>3. \A m \in FoundIn(ls, n) : Rank["etc"] <= Rank[m]
  BY <1>2 DEF Rank, Locs
<1>4. \A l \in Locs : l # "etc" => ~(Rank[l] <= Rank["etc"])
  BY DEF Rank, Locs
<1>5. FirstIn(ls, n) \in FoundIn(ls, n)
      /\ \A m \in FoundIn(ls, n) : Rank[FirstIn(ls, n)] <= Rank[m]
  BY <1>2, <1>3 DEF FirstIn
<1>6. FirstIn(ls, n) = "etc"
  BY <1>2, <1>4, <1>5
<1>7. QED BY <1>1, <1>6 DEF RegularIn

LEMMA SameFile ==
  ASSUME NEW ls, NEW ms, NEW n, ~LinkedIn(ls, Top(n)), ~LinkedIn(ms, Top(n))
  PROVE  /\ FoundIn(ls, n) = FoundIn(ms, n) /\ FirstIn(ls, n) = FirstIn(ms, n)
         /\ RegularIn(ls, n) <=> RegularIn(ms, n)
<1>1. \A l : EntryIn(ls, l, n) = EntryIn(ms, l, n)
  BY DEF EntryIn
<1>2. FoundIn(ls, n) = FoundIn(ms, n)
  BY <1>1 DEF FoundIn
<1>3. FirstIn(ls, n) = FirstIn(ms, n)
  BY <1>2 DEF FirstIn
<1>4. QED BY <1>1, <1>2, <1>3 DEF RegularIn

LEMMA RegularBefore ==
  ASSUME NEW ls, NEW ms, ms \subseteq ls, NEW n, RegularIn(ls, n)
  PROVE  /\ FoundIn(ls, n) = FoundIn(ms, n) /\ FirstIn(ls, n) = FirstIn(ms, n)
         /\ RegularIn(ms, n)
<1>1. ~LinkedIn(ls, Top(n)) /\ ~LinkedIn(ms, Top(n))
  BY RegularUnlinked DEF LinkedIn
<1>2. QED BY <1>1, SameFile

LEMMA FoundAfter ==
  ASSUME NEW ls, NEW ms, ms \subseteq ls, NEW n
  PROVE  /\ FoundIn(ms, n) # {} => FoundIn(ls, n) # {}
         /\ FoundIn(ls, n) # {} => FoundIn(ms, n) # {} \/ (LinkedIn(ls, Top(n)) /\ ~LinkedIn(ms, Top(n)))
<1>1. CASE LinkedIn(ls, Top(n))
  <2>1. "etc" \in FoundIn(ls, n)
    BY <1>1 DEF FoundIn, EntryIn, Locations, Locs
  <2>2. LinkedIn(ms, Top(n)) => "etc" \in FoundIn(ms, n)
    BY DEF FoundIn, EntryIn, Locations, Locs
  <2>3. QED BY <1>1, <2>1, <2>2
<1>2. CASE ~LinkedIn(ls, Top(n))
  <2>1. ~LinkedIn(ms, Top(n))
    BY <1>2 DEF LinkedIn
  <2>2. QED BY <1>2, <2>1, SameFile
<1>3. QED BY <1>1, <1>2

(* Links are only ever added: what is found stays found, what is not       *)
(* regular never becomes so.                                               *)
LEMMA LinksGrow ==
  ASSUME id' = id, links \subseteq links'
  PROVE  /\ \A n : Found(n) => Found(n)'
         /\ \A n : Regular(n)' => Regular(n)
         /\ \A n : Found(n)' => Found(n) \/ (LinkedIn(links', Top(n)) /\ ~LinkedIn(links, Top(n)))
         /\ \A n : Regular(n)' => ~LinkedIn(links', Top(FileOf(n)))
<1>1. \A n : Found(n)' <=> FoundIn(links', n) # {}
  BY ImageKept DEF Found, FoundIn, EntryIn, Locations, image
<1>2. \A n : Regular(n)' <=> RegularIn(links', FileOf(n))
  BY ImageKept DEF Regular, RegularIn, FirstIn, FoundIn, EntryIn, Locations, image
<1>3. \A n : Found(n) <=> FoundIn(links, n) # {}
  BY DEF Found
<1>4. \A n : RegularIn(links', FileOf(n)) => RegularIn(links, FileOf(n))
  BY RegularBefore
<1>5. \A n : RegularIn(links', FileOf(n)) => ~LinkedIn(links', Top(FileOf(n)))
  BY RegularUnlinked
<1>6. \A n : FoundIn(links, n) # {} => FoundIn(links', n) # {}
  BY FoundAfter
<1>7. \A n : FoundIn(links', n) # {} =>
               FoundIn(links, n) # {} \/ (LinkedIn(links', Top(n)) /\ ~LinkedIn(links, Top(n)))
  BY FoundAfter
<1>8. QED BY <1>1, <1>2, <1>3, <1>4, <1>5, <1>6, <1>7 DEF Regular

(* Likewise what preset-all should produce. *)
LEMMA PlanKept ==
  ASSUME id' = id
  PROVE  /\ Reached' = Reached /\ Roots' = Roots /\ Expected' = Expected
         /\ AliasesExist' <=> AliasesExist
         /\ Collisionless' <=> Collisionless
<1>1. image' = image
  BY ImageKept
<1>2. \A n : Enablable(n)' <=> Enablable(n)
  BY ImageKept
<1>3. \A n, key : Values(n, key)' = Values(n, key)
  BY NamesKept
<1>4. \A n : FoundIn(image.shipped, n)' = FoundIn(image.shipped, n)
  BY <1>1 DEF FoundIn, EntryIn, Locations
<1>5. ValuesOf("Also")' = ValuesOf("Also") /\ ValuesOf("Alias")' = ValuesOf("Alias")
  BY <1>2, <1>3 DEF ValuesOf
<1>6. Roots' = Roots
  BY <1>4, NamesKept DEF Roots
<1>7. Reached' = Reached
  BY <1>5, <1>6 DEF Reached
<1>8. AliasesExist' <=> AliasesExist
  BY <1>2, <1>3, <1>4 DEF AliasesExist
<1>9. Disjoint(ValuesOf("Alias"))' <=> Disjoint(ValuesOf("Alias"))
  BY <1>2, <1>4, <1>5 DEF Disjoint
<1>10. Untwisted' <=> Untwisted
  BY <1>2, <1>3, <1>6, <1>7 DEF Untwisted
<1>11. Collisionless' <=> Collisionless
  BY <1>1, <1>9, <1>10 DEF Collisionless
<1>12. Expected' = Expected
  <2>1. ASSUME NEW n
        PROVE  LinksOf(n, <<Base(n), FileOf(n)>>, ServiceOf(Base(n), n))'
                 = LinksOf(n, <<Base(n), FileOf(n)>>, ServiceOf(Base(n), n))
    <3>1. /\ Base(n)' = Base(n) /\ ServiceOf(Base(n), n)' = ServiceOf(Base(n), n)
          /\ TemplateOnly(Base(n), n)' <=> TemplateOnly(Base(n), n)
      BY ImageKept, NamesKept DEF Service, Template
    <3>2. TemplateOnly(<<Base(n), FileOf(n)>>[1], n)' <=> TemplateOnly(<<Base(n), FileOf(n)>>[1], n)
      BY <3>1
    <3>3. QED BY <1>3, <3>1, <3>2 DEF LinksOf, DepLinks, AliasLinks
  <2>2. QED BY <1>7, <2>1 DEF Expected
<1>13. QED BY <1>6, <1>7, <1>8, <1>11, <1>12

-----------------------------------------------------------------------------
(* The invariant of a preset-all that runs: there is a set Q of calls made *)
(* so far, in which every unit owed a call has one, and of every call each *)
(* job is done or still on the stack.                                      *)
Serves(f, q) ==
    /\ f.unit = FileOf(q[1]) /\ f.caller = q[2] /\ f.loc = Base(q[1])
    /\ f.service = Service(q[1]) /\ (f.templateOnly <=> Template(q[1]))
Alike(f, g) ==
    /\ f.unit = g.unit /\ f.caller = g.caller /\ f.loc = g.loc
    /\ f.service = g.service /\ (f.templateOnly <=> g.templateOnly)
Done(Q, q, j) ==
    /\ j.do \in {"wants", "requires"} =>
         (Template(q[1]) /\ ~Templated(j.name)) \/ Linked(<<j.do, j.name, Service(q[1])>>)
    /\ j.do = "alias" => Linked(Top(j.name))
    /\ j.do = "also" =>
         q[2] = j.name \/ <<j.name, FileOf(q[1])>> \in Q \/ ~Regular(j.name)
Pending(q, j) == \E f \in Frames : Serves(f, q) /\ j \in Items(f.jobs)
AskedFor(Q, q) ==
    q[2] = NoCaller \/ \E p \in Q : q[2] = FileOf(p[1]) /\ q[1] \in Values(p[1], "Also")

Sound(Q)  == \A q \in Q : Enablable(q[1]) /\ ~Bad(q[1]) /\ AskedFor(Q, q)
Worked(Q) == \A q \in Q : \A j \in Asked(q[1]) : Done(Q, q, j) \/ Pending(q, j)
Framed(Q) == \A f \in Frames : \E q \in Q : Serves(f, q) /\ Items(f.jobs) \subseteq Asked(q[1])
Rooted(Q) == \A n \in Names : Owed(n) => n \in services \/ <<n, NoCaller>> \in Q
Within(Q) == Collisionless /\ PresetsAlone => \A q \in Q : q[1] \in Reached

(* What a call is for does not change, what is done stays done. *)
LEMMA ServesKept ==
  ASSUME id' = id
  PROVE  \A f, q : Serves(f, q)' <=> Serves(f, q)
<1> SUFFICES ASSUME NEW f, NEW q PROVE Serves(f, q)' <=> Serves(f, q)
  OBVIOUS
<1>1. /\ Base(q[1])' = Base(q[1]) /\ Service(q[1])' = Service(q[1])
      /\ Template(q[1])' <=> Template(q[1])
  BY ImageKept, NamesKept
<1>2. QED BY <1>1 DEF Serves

LEMMA DoneKept ==
  ASSUME id' = id, links \subseteq links', NEW Q, NEW R, Q \subseteq R
  PROVE  \A q, j : Done(Q, q, j) => Done(R, q, j)'
<1> SUFFICES ASSUME NEW q, NEW j, Done(Q, q, j) PROVE Done(R, q, j)'
  OBVIOUS
<1>1. Service(q[1])' = Service(q[1]) /\ (Template(q[1])' <=> Template(q[1]))
  BY NamesKept
<1>2. \A p : Linked(p) => Linked(p)'
  BY DEF Linked, LinkedIn
<1>3. Regular(j.name)' => Regular(j.name)
  BY LinksGrow
<1>4. CASE j.do \in {"wants", "requires"}
  <2>1. Linked(<<j.do, j.name, Service(q[1])>>) => LinkedIn(links', <<j.do, j.name, Service(q[1])>>)
    BY DEF Linked, LinkedIn
  <2>2. QED BY <1>1, <1>4, <2>1 DEF Done, Linked, LinkedIn
<1>5. CASE j.do = "alias"
  BY <1>2, <1>5 DEF Done
<1>6. CASE j.do = "also"
  BY <1>3, <1>6 DEF Done
<1>7. CASE j.do \notin {"wants", "requires", "alias", "also"}
  BY <1>7 DEF Done
<1>8. QED BY <1>4, <1>5, <1>6, <1>7

(* A step that leaves every job of every call done or pending, and sees to *)
(* the calls that are new, preserves the invariant.                        *)
LEMMA Progress ==
  ASSUME id' = id, links \subseteq links', NEW Q, NEW R, Q \subseteq R,
         Sound(Q), Worked(Q), Framed(Q), Within(Q),
         \A f \in Frames' : \/ \E g \in Frames : Alike(f, g) /\ Items(f.jobs) \subseteq Items(g.jobs)
                            \/ \E q \in R : Serves(f, q) /\ Items(f.jobs) \subseteq Asked(q[1]),
         \A f \in Frames : \A q \in Q : Serves(f, q) =>
            \A j \in Items(f.jobs) : Done(R, q, j)' \/ Pending(q, j)',
         \A q \in R \ Q : /\ Enablable(q[1]) /\ ~Bad(q[1]) /\ AskedFor(R, q)
                          /\ \A j \in Asked(q[1]) : Pending(q, j)'
                          /\ Collisionless /\ PresetsAlone => q[1] \in Reached
  PROVE  Sound(R)' /\ Worked(R)' /\ Framed(R)' /\ Within(R)'
<1>1. /\ \A n : Enablable(n)' <=> Enablable(n)
      /\ \A n : Bad(n)' <=> Bad(n)
      /\ \A n : Asked(n)' = Asked(n)
      /\ \A n, key : Values(n, key)' = Values(n, key)
  BY ImageKept, NamesKept
<1>2. \A f, q : Serves(f, q)' <=> Serves(f, q)
  BY ServesKept
<1>3. Sound(R)'
  <2>1. ASSUME NEW q \in R
        PROVE  Enablable(q[1]) /\ ~Bad(q[1]) /\ AskedFor(R, q)
    BY DEF Sound, AskedFor
  <2>2. \A q : AskedFor(R, q) => AskedFor(R, q)'
    BY <1>1 DEF AskedFor
  <2>3. QED BY <1>1, <2>1, <2>2 DEF Sound
<1>4. Worked(R)'
  <2>1. ASSUME NEW q \in R, NEW j \in Asked(q[1])
        PROVE  Done(R, q, j)' \/ Pending(q, j)'
    <3>1. CASE q \in Q /\ Done(Q, q, j)
      BY <3>1, DoneKept
    <3>2. CASE q \in Q /\ Pending(q, j)
      BY <3>2 DEF Pending
    <3>3. CASE q \notin Q
      BY <3>3
    <3>4. QED BY <3>1, <3>2, <3>3 DEF Worked
  <2>2. QED BY <1>1, <2>1 DEF Worked
<1>5. Framed(R)'
  <2>1. ASSUME NEW f \in Frames'
        PROVE  \E q \in R : Serves(f, q) /\ Items(f.jobs) \subseteq Asked(q[1])
    <3>1. CASE \E g \in Frames : Alike(f, g) /\ Items(f.jobs) \subseteq Items(g.jobs)
      <4>1. PICK g \in Frames : Alike(f, g) /\ Items(f.jobs) \subseteq Items(g.jobs)
        BY <3>1
      <4>2. PICK q \in Q : Serves(g, q) /\ Items(g.jobs) \subseteq Asked(q[1])
        BY DEF Framed
      <4>3. Serves(f, q)
        BY <4>1, <4>2 DEF Serves, Alike
      <4>4. QED BY <4>1, <4>2, <4>3
    <3>2. QED BY <3>1
  <2>2. QED BY <1>1, <1>2, <2>1 DEF Framed
<1>6. Within(R)'
  <2>1. /\ Reached' = Reached /\ (Collisionless' <=> Collisionless)
    BY PlanKept
  <2>2. QED BY <2>1 DEF Within, PresetsAlone
<1>7. QED BY <1>3, <1>4, <1>5, <1>6

(* The innermost call works off its first job. *)
LEMMA TopMoves ==
  ASSUME TypeOK, InEnable, Head(stack).jobs # <<>>
  PROVE  \E g : /\ Frames = {Head(stack)} \cup Items(Tail(stack))
                /\ Items(Advanced) = {g} \cup Items(Tail(stack))
                /\ Items(Head(stack).jobs) = {TopJob} \cup Items(g.jobs)
                /\ Alike(g, Head(stack))
<1> DEFINE f == Head(stack)
           g == [f EXCEPT !.jobs = Tail(@)]
<1>1. stack \in Seq(Frame) /\ stack # <<>>
  BY DEF TypeOK, InEnable
<1>2. f \in Frame /\ Tail(stack) \in Seq(Frame)
  BY <1>1, HeadTail
<1>3. f.jobs \in Seq(Job) /\ f.jobs # <<>>
  BY <1>2 DEF Frame
<1>4. g \in Frame /\ g.jobs = Tail(f.jobs) /\ Alike(g, f)
  <2>1. Tail(f.jobs) \in Seq(Job)
    BY <1>3, HeadTail
  <2>2. QED BY <1>2, <2>1 DEF Frame, Alike
<1>5. Frames = {f} \cup Items(Tail(stack))
  BY <1>1, ItemsOfRest DEF Frames
<1>6. Items(f.jobs) = {TopJob} \cup Items(g.jobs)
  <2>1. Items(f.jobs) = {Head(f.jobs)} \cup Items(Tail(f.jobs))
    BY <1>3, ItemsOfRest
  <2>2. QED BY <1>4, <2>1 DEF TopJob
<1>7. Items(Advanced) = {g} \cup Items(Tail(stack))
  <2>1. Advanced = <<g>> \o Tail(stack)
    BY DEF Advanced
  <2>2. QED BY <1>2, <1>4, <2>1, ItemsOfPush
<1>8. QED BY <1>4, <1>5, <1>6, <1>7

(* A new call has the jobs of its unit file before it. *)
LEMMA NewCall ==
  ASSUME TypeOK, image.shipped \subseteq links,
         NEW n \in Names, NEW caller \in Names \cup {NoCaller},
         RegularIn(links, FileOf(n)), ~NoInstance(FirstIn(links, FileOf(n)), n)
  PROVE  /\ Enablable(n) /\ ~Bad(n) /\ NewFrame(n, caller) \in Frame
         /\ Serves(NewFrame(n, caller), <<n, caller>>)
         /\ Items(NewFrame(n, caller).jobs) = Asked(n)
<1>1. FirstIn(links, FileOf(n)) = Base(n) /\ Enablable(n)
  BY RegularBefore DEF Base, Enablable
<1>2. NewFrame(n, caller) \in Frame
  BY NewFrameType DEF TypeOK
<1>3. QED BY <1>1, <1>2 DEF NewFrame, Serves, Bad, Asked, Service, Template

(* One job of the innermost call is done; what it calls is on the stack. *)
LEMMA Advances ==
  ASSUME TypeOK, InEnable, Head(stack).jobs # <<>>, id' = id, links \subseteq links',
         NEW Q, NEW R, Q \subseteq R, Sound(Q), Worked(Q), Framed(Q), Within(Q),
         NEW new, Frames' = new \cup Items(Advanced), NEW job, job = TopJob,
         \A f \in new : \E q \in R : Serves(f, q) /\ Items(f.jobs) = Asked(q[1]),
         \A q \in Q : Serves(Head(stack), q) => Done(R, q, job)',
         \A q \in R \ Q : /\ Enablable(q[1]) /\ ~Bad(q[1]) /\ AskedFor(R, q)
                          /\ \E f \in new : Serves(f, q) /\ Items(f.jobs) = Asked(q[1])
                          /\ Collisionless /\ PresetsAlone => q[1] \in Reached
  PROVE  Sound(R)' /\ Worked(R)' /\ Framed(R)' /\ Within(R)'
<1>1. PICK g : /\ Frames = {Head(stack)} \cup Items(Tail(stack))
               /\ Items(Advanced) = {g} \cup Items(Tail(stack))
               /\ Items(Head(stack).jobs) = {TopJob} \cup Items(g.jobs)
               /\ Alike(g, Head(stack))
  BY TopMoves
<1>2. \A f, q : Serves(f, q)' <=> Serves(f, q)
  BY ServesKept
<1>3. \A f \in Frames' : \A q, j : Serves(f, q) /\ j \in Items(f.jobs) => Pending(q, j)'
  BY <1>2 DEF Pending
<1>4. ASSUME NEW f \in Frames'
      PROVE  \/ \E h \in Frames : Alike(f, h) /\ Items(f.jobs) \subseteq Items(h.jobs)
             \/ \E q \in R : Serves(f, q) /\ Items(f.jobs) \subseteq Asked(q[1])
  <2>1. CASE f \in new
    BY <2>1
  <2>2. CASE f = g
    BY <1>1, <2>2
  <2>3. CASE f \in Items(Tail(stack))
    BY <1>1, <2>3 DEF Alike
  <2>4. QED BY <1>1, <2>1, <2>2, <2>3
<1>5. ASSUME NEW f \in Frames, NEW q \in Q, Serves(f, q), NEW j \in Items(f.jobs)
      PROVE  Done(R, q, j)' \/ Pending(q, j)'
  <2>1. CASE f \in Items(Tail(stack))
    BY <1>1, <1>3, <1>5, <2>1
  <2>2. CASE f = Head(stack) /\ j = job
    BY <1>5, <2>2
  <2>3. CASE f = Head(stack) /\ j \in Items(g.jobs)
    <3>1. Serves(g, q)
      BY <1>1, <1>5, <2>3 DEF Serves, Alike
    <3>2. QED BY <1>1, <1>3, <2>3, <3>1
  <2>4. QED BY <1>1, <1>5, <2>1, <2>2, <2>3
<1>6. ASSUME NEW q \in R \ Q
      PROVE  /\ Enablable(q[1]) /\ ~Bad(q[1]) /\ AskedFor(R, q)
             /\ \A j \in Asked(q[1]) : Pending(q, j)'
             /\ Collisionless /\ PresetsAlone => q[1] \in Reached
  <2>1. PICK f \in new : Serves(f, q) /\ Items(f.jobs) = Asked(q[1])
    OBVIOUS
  <2>2. QED BY <1>3, <2>1
<1>7. QED BY <1>4, <1>5, <1>6, Progress

-----------------------------------------------------------------------------
(* What is reached is the least set that holds the roots and is closed.    *)
LEMMA ReachedClosed ==
  /\ Reached \subseteq {n \in Names : Enablable(n)}
  /\ \A n \in Names : n \in Roots /\ Enablable(n) => n \in Reached
  /\ \A n \in Reached : \A m \in Values(n, "Also") \cap Names : Enablable(m) => m \in Reached
<1> DEFINE U == {n \in Names : Enablable(n)}
           a == ValuesOf("Also")
<1>1. DOMAIN a = U /\ \A n \in U : a[n] = Values(n, "Also")
  BY DEF ValuesOf
<1> HIDE DEF a
<1>2. Reached = {n \in U : \A r \in SUBSET U : n \in r \/ ~Closed(r, Roots, a)}
  BY <1>1 DEF Reached, Closure, a
<1>3. ASSUME NEW n \in U, n \in Roots PROVE n \in Reached
  BY <1>1, <1>2, <1>3 DEF Closed
<1>4. ASSUME NEW n \in Reached, NEW m \in Values(n, "Also") \cap U PROVE m \in Reached
  <2>1. n \in U /\ a[n] = Values(n, "Also")
    BY <1>1, <1>2
  <2>2. ASSUME NEW r \in SUBSET U, Closed(r, Roots, a) PROVE m \in r
    <3>1. n \in r
      BY <1>2, <2>2
    <3>2. QED BY <1>1, <2>1, <2>2, <3>1 DEF Closed
  <2>3. QED BY <1>2, <2>2
<1>5. QED BY <1>2, <1>3, <1>4

LEMMA ReachedLeast ==
  ASSUME NEW r \in SUBSET {n \in Names : Enablable(n)},
         \A n \in Names : n \in Roots /\ Enablable(n) => n \in r,
         \A n \in r : \A m \in Values(n, "Also") \cap Names : Enablable(m) => m \in r
  PROVE  Reached \subseteq r
<1> DEFINE U == {n \in Names : Enablable(n)}
           a == ValuesOf("Also")
<1>1. DOMAIN a = U /\ \A n \in U : a[n] = Values(n, "Also")
  BY DEF ValuesOf
<1> HIDE DEF a
<1>2. Closed(r, Roots, a)
  BY <1>1 DEF Closed
<1>3. QED BY <1>1, <1>2 DEF Reached, Closure, a

(* An image in which nothing competes has no alias that would be enabled. *)
LEMMA CollisionlessAliases == Collisionless => AliasesExist
<1> SUFFICES ASSUME Collisionless, NEW n \in Names, Enablable(n), NEW x \in Values(n, "Alias")
             PROVE  ~Enablable(x)
  BY DEF AliasesExist
<1>1. n \in DOMAIN ValuesOf("Alias") /\ ValuesOf("Alias")[n] = Values(n, "Alias")
  BY DEF ValuesOf
<1>2. QED BY <1>1 DEF Collisionless, Disjoint

-----------------------------------------------------------------------------
PresetRun(Q) == Sound(Q) /\ Worked(Q) /\ Framed(Q) /\ Within(Q) /\ Rooted(Q)

(* A link that is added, or was there already, and the command goes on *)
LEMMA AddLinkEffect ==
  ASSUME NEW p, NEW t, NEW after, AddLink(p, t, after), status' = "running"
  PROVE  /\ stack' = after /\ links \subseteq links' /\ LinkedIn(links', p)
         /\ links' \subseteq links \cup {[at |-> p, to |-> t]}
         /\ \A r : LinkedIn(links', r) => LinkedIn(links, r) \/ r = p
<1>1. CASE Linked(p) /\ stack' = after /\ UNCHANGED <<links, status>>
  BY <1>1 DEF Linked, LinkedIn
<1>2. CASE links' = links \cup {[at |-> p, to |-> t]} /\ stack' = after
  <2> DEFINE l == [at |-> p, to |-> t]
  <2>1. l.at = p /\ links' = links \cup {l}
    BY <1>2
  <2> HIDE DEF l
  <2>2. QED BY <1>2, <2>1 DEF LinkedIn, l
<1>3. CASE Abort("exists")
  BY <1>3 DEF Abort
<1>4. QED BY <1>1, <1>2, <1>3 DEF AddLink

(* A name becomes owed a call only by an alias: one that names an instance *)
(* of a template that is there.                                            *)
LEMMA RootedKept ==
  ASSUME id' = id, links \subseteq links', image.shipped \subseteq links, AliasesExist,
         NEW Q, NEW R, Q \subseteq R, Rooted(Q),
         \A n \in Names : LinkedIn(links', Top(n)) =>
            LinkedIn(links, Top(n)) \/ \E m \in Names : Enablable(m) /\ n \in Values(m, "Alias"),
         \A n \in services \ services' : Owed(n) => <<n, NoCaller>> \in R
  PROVE  Rooted(R)'
<1> SUFFICES ASSUME NEW n \in Names, Owed(n)'
             PROVE  n \in services' \/ <<n, NoCaller>> \in R
  BY DEF Rooted
<1>1. PresetState(n) # "disable"
  BY NamesKept DEF Owed
<1>2. Regular(n) /\ Enablable(n)
  <2>1. Regular(n)
    BY LinksGrow DEF Owed
  <2>2. QED BY <2>1, RegularBefore DEF Regular, Enablable
<1>3. Found(n)
  <2>1. CASE LinkedIn(links', Top(n)) /\ ~LinkedIn(links, Top(n))
    <3>1. FoundIn(image.shipped, n) # {}
      BY <1>2, <2>1 DEF AliasesExist
    <3>2. QED BY <3>1, FoundAfter DEF Found
  <2>2. QED BY <2>1, LinksGrow DEF Owed
<1>4. QED BY <1>1, <1>2, <1>3 DEF Rooted, Owed

(* One WantedBy= or RequiredBy= entry *)
LEMMA RunDep ==
  ASSUME TypeOK, image.shipped \subseteq links, AliasesExist, DepStep, status' = "running",
         NEW Q, PresetRun(Q)
  PROVE  PresetRun(Q)'
<1> DEFINE f == Head(stack)
<1>1. InEnable /\ f.jobs # <<>> /\ TopJob.do \in {"wants", "requires"}
  BY DEF DepStep, Doing
<1>2. id' = id /\ services' = services
  BY DEF DepStep
<1>3. PICK job : job = TopJob
  OBVIOUS
<1>4. PICK p : p = <<TopJob.do, TopJob.name, f.service>>
  OBVIOUS
<1>5. /\ stack' = Advanced /\ links \subseteq links'
      /\ \A r : LinkedIn(links', r) => LinkedIn(links, r) \/ r = p
      /\ LinkedIn(links', p) \/ (f.templateOnly /\ ~Templated(job.name))
  BY <1>3, <1>4, AddLinkEffect DEF DepStep
<1>6. ASSUME NEW q \in Q, Serves(f, q)
      PROVE  Done(Q, q, job)'
  <2>1. f.service = Service(q[1])' /\ (f.templateOnly <=> Template(q[1])')
    BY <1>2, <1>6, NamesKept DEF Serves
  <2>2. job.do \in {"wants", "requires"} /\ p = <<job.do, job.name, Service(q[1])'>>
    BY <1>1, <1>3, <1>4, <2>1
  <2>3. QED BY <1>5, <2>1, <2>2 DEF Done, Linked
<1>7. Frames' = {} \cup Items(Advanced)
  BY <1>5 DEF Frames
<1>8. Sound(Q)' /\ Worked(Q)' /\ Framed(Q)' /\ Within(Q)'
  <2>1. Sound(Q) /\ Worked(Q) /\ Framed(Q) /\ Within(Q) /\ Q \subseteq Q /\ Q \ Q = {}
    BY DEF PresetRun
  <2>2. QED BY <1>1, <1>2, <1>3, <1>5, <1>6, <1>7, <2>1, Advances
<1>9. \A n : LinkedIn(links', Top(n)) => LinkedIn(links, Top(n))
  BY <1>1, <1>4, <1>5 DEF Top
<1>10. Rooted(Q)'
  BY <1>2, <1>5, <1>9, RootedKept DEF PresetRun
<1>11. QED BY <1>8, <1>10 DEF PresetRun

(* The job at hand is one that the call's unit file asks for. *)
LEMMA TopAsked ==
  ASSUME TypeOK, InEnable, Head(stack).jobs # <<>>,
         NEW Q \in SUBSET Calls, Sound(Q), Framed(Q)
  PROVE  \E q \in Q : /\ Serves(Head(stack), q) /\ Enablable(q[1]) /\ ~Bad(q[1])
                      /\ q[1] \in Names /\ TopJob \in Asked(q[1]) /\ TopJob \in Job
                      /\ TopJob.name \in Values(q[1], KeyOfJob(TopJob.do))
<1> DEFINE f == Head(stack)
<1>1. f \in Frames /\ TopJob \in Items(f.jobs) /\ TopJob \in Job
  BY TopMoves, TopFrame
<1>2. PICK q \in Q : Serves(f, q) /\ Items(f.jobs) \subseteq Asked(q[1])
  BY <1>1 DEF Framed
<1>3. q[1] \in Names /\ Enablable(q[1]) /\ ~Bad(q[1])
  BY DEF Calls, Sound
<1>4. PICK what \in {"wants", "requires", "also", "alias"} :
         \E m \in Values(q[1], KeyOfJob(what)) : TopJob = [do |-> what, name |-> m]
  BY <1>1, <1>2, <1>3, AskedJobs
<1>5. TopJob.name \in Values(q[1], KeyOfJob(TopJob.do))
  BY <1>4
<1>6. QED BY <1>1, <1>2, <1>3, <1>5

(* One Alias= entry *)
LEMMA RunAlias ==
  ASSUME TypeOK, image.shipped \subseteq links, AliasesExist, AliasStep, status' = "running",
         NEW Q \in SUBSET Calls, PresetRun(Q)
  PROVE  PresetRun(Q)'
<1> DEFINE f == Head(stack)
<1>1. InEnable /\ f.jobs # <<>> /\ TopJob.do = "alias"
  BY DEF AliasStep, Doing
<1>2. id' = id /\ services' = services
  BY DEF AliasStep
<1>3. PICK job : job = TopJob
  OBVIOUS
<1>4. PICK p : p = Top(TopJob.name)
  OBVIOUS
<1>5. /\ stack' = Advanced /\ links \subseteq links' /\ LinkedIn(links', p)
      /\ \A r : LinkedIn(links', r) => LinkedIn(links, r) \/ r = p
  BY <1>4, AddLinkEffect DEF AliasStep
<1>6. ASSUME NEW q \in Q, Serves(f, q)
      PROVE  Done(Q, q, job)'
  BY <1>1, <1>3, <1>4, <1>5 DEF Done, Linked
<1>7. Frames' = {} \cup Items(Advanced)
  BY <1>5 DEF Frames
<1>8. Sound(Q)' /\ Worked(Q)' /\ Framed(Q)' /\ Within(Q)'
  <2>1. Sound(Q) /\ Worked(Q) /\ Framed(Q) /\ Within(Q) /\ Q \subseteq Q /\ Q \ Q = {}
    BY DEF PresetRun
  <2>2. QED BY <1>1, <1>2, <1>3, <1>5, <1>6, <1>7, <2>1, Advances
<1>9. \A n \in Names : LinkedIn(links', Top(n)) =>
         LinkedIn(links, Top(n)) \/ \E m \in Names : Enablable(m) /\ n \in Values(m, "Alias")
  <2>1. PICK q \in Q : /\ Enablable(q[1]) /\ q[1] \in Names
                       /\ TopJob.name \in Values(q[1], KeyOfJob(TopJob.do))
    BY <1>1, TopAsked DEF PresetRun
  <2>2. TopJob.name \in Values(q[1], "Alias")
    BY <1>1, <2>1 DEF KeyOfJob
  <2>3. \A n : Top(n) = p => n = TopJob.name
    BY <1>4 DEF Top
  <2>4. QED BY <1>5, <2>1, <2>2, <2>3
<1>10. Rooted(Q)'
  BY <1>2, <1>5, <1>9, RootedKept DEF PresetRun
<1>11. QED BY <1>8, <1>10 DEF PresetRun

(* What a call of enable does to the stack *)
LEMMA CallEffect ==
  ASSUME TypeOK, image.shipped \subseteq links, NEW n \in Names,
         NEW caller \in Names \cup {NoCaller}, NEW below,
         Call(n, caller, below), status' = "running"
  PROVE  /\ links' = links
         /\ \/ ~Regular(n) /\ stack' = below
            \/ /\ stack' = <<NewFrame(n, caller)>> \o below
               /\ Enablable(n) /\ ~Bad(n) /\ Regular(n) /\ NewFrame(n, caller) \in Frame
               /\ Serves(NewFrame(n, caller), <<n, caller>>)
               /\ Items(NewFrame(n, caller).jobs) = Asked(n)
<1>1. ~Abort("exit") /\ ~Abort("index") /\ ~Abort("recursion")
  BY DEF Abort
<1>2. QED BY <1>1, NewCall DEF Call, Regular

(* One Also= entry *)
LEMMA RunAlso ==
  ASSUME TypeOK, image.shipped \subseteq links, AliasesExist, AlsoStep, status' = "running",
         NEW Q \in SUBSET Calls, PresetRun(Q)
  PROVE  \E R \in SUBSET Calls : PresetRun(R)'
<1> DEFINE f == Head(stack)
<1>1. InEnable /\ f.jobs # <<>> /\ TopJob.do = "also"
  BY DEF AlsoStep, Doing
<1>2. id' = id /\ services' = services /\ links' = links
  BY DEF AlsoStep, Call
<1>3. PICK job : job = TopJob
  OBVIOUS
<1>4. PICK q \in Q : /\ Serves(f, q) /\ Enablable(q[1]) /\ q[1] \in Names /\ TopJob \in Job
                     /\ TopJob.name \in Values(q[1], KeyOfJob(TopJob.do))
  BY <1>1, TopAsked DEF PresetRun
<1>5. job.name \in Names /\ job.name \in Values(q[1], "Also") /\ job.do = "also"
  BY <1>1, <1>3, <1>4 DEF KeyOfJob, Job
<1>6. f.unit = FileOf(q[1]) /\ f.unit \in Names /\ Advanced \in Seq(Frame)
  BY <1>1, <1>4, TopFrame, FileOfName DEF Serves
<1>7. Sound(Q) /\ Worked(Q) /\ Framed(Q) /\ Within(Q) /\ Rooted(Q)
  BY DEF PresetRun
<1>8. ASSUME NEW R, Q \subseteq R PROVE Rooted(R)'
  BY <1>2, <1>7, <1>8, RootedKept
<1>9. CASE stack' = Advanced /\ (f.caller = job.name \/ ~Regular(job.name))
  <2>1. ASSUME NEW k \in Q, Serves(f, k)
        PROVE  Done(Q, k, job)'
    <3>1. k[2] = job.name \/ ~Regular(job.name)'
      BY <1>2, <1>9, <2>1, LinksGrow DEF Serves
    <3>2. QED BY <1>5, <3>1 DEF Done
  <2>2. Frames' = {} \cup Items(Advanced)
    BY <1>9 DEF Frames
  <2>3. Q \subseteq Q /\ Q \ Q = {} /\ links \subseteq links'
    BY <1>2
  <2>4. Sound(Q)' /\ Worked(Q)' /\ Framed(Q)' /\ Within(Q)'
    BY <1>1, <1>2, <1>3, <1>7, <2>1, <2>2, <2>3, Advances
  <2>5. QED BY <1>8, <2>4 DEF PresetRun
<1>10. ASSUME NEW g, stack' = <<g>> \o Advanced, Enablable(job.name), ~Bad(job.name),
              g \in Frame, Serves(g, <<job.name, f.unit>>), Items(g.jobs) = Asked(job.name)
       PROVE  \E R \in SUBSET Calls : PresetRun(R)'
  <2>1. PICK u : u = f.unit
    OBVIOUS
  <2> DEFINE c == <<job.name, u>>
             R == Q \cup {c}
  <2>2. c \in Calls /\ c[1] = job.name /\ c[2] = u
    BY <1>5, <1>6, <2>1 DEF Calls
  <2>3. R \in SUBSET Calls /\ Q \subseteq R
    BY <2>2
  <2>4. AskedFor(R, c)
    BY <1>5, <1>6, <2>1, <2>2 DEF AskedFor
  <2>5. Collisionless /\ PresetsAlone => c[1] \in Reached
    <3>1. Collisionless /\ PresetsAlone => q[1] \in Reached
      BY <1>7 DEF Within
    <3>2. QED BY <1>5, <1>10, <2>2, <3>1, ReachedClosed
  <2>6. ASSUME NEW k \in Q, Serves(f, k)
        PROVE  Done(R, k, job)'
    <3>1. FileOf(k[1]) = u
      BY <2>1, <2>6 DEF Serves
    <3>2. <<job.name, FileOf(k[1])>> \in R
      BY <3>1
    <3>3. QED BY <1>5, <3>2 DEF Done
  <2>7. Frames' = {g} \cup Items(Advanced)
    <3>1. Items(<<g>> \o Advanced) = {g} \cup Items(Advanced)
      BY <1>6, <1>10, ItemsOfPush
    <3>2. QED BY <1>10, <3>1 DEF Frames
  <2>8. ASSUME NEW k \in R \ Q
        PROVE  /\ Enablable(k[1]) /\ ~Bad(k[1]) /\ AskedFor(R, k)
               /\ \E h \in {g} : Serves(h, k) /\ Items(h.jobs) = Asked(k[1])
               /\ Collisionless /\ PresetsAlone => k[1] \in Reached
    <3>1. k = c
      BY <2>8
    <3>2. QED BY <1>10, <2>1, <2>2, <2>4, <2>5, <3>1
  <2>9. \A h \in {g} : \E k \in R : Serves(h, k) /\ Items(h.jobs) = Asked(k[1])
    BY <1>10, <2>1, <2>2
  <2> HIDE DEF R, c
  <2>10. links \subseteq links'
    BY <1>2
  <2>11. Sound(R)' /\ Worked(R)' /\ Framed(R)' /\ Within(R)'
    BY <1>1, <1>2, <1>3, <1>7, <2>3, <2>6, <2>7, <2>8, <2>9, <2>10, Advances, ZenonT(40)
  <2>12. QED BY <1>8, <2>3, <2>11 DEF PresetRun
<1>11. CASE Call(job.name, f.unit, Advanced)
  <2>1. CASE stack' = <<NewFrame(job.name, f.unit)>> \o Advanced
    <3>1. /\ Enablable(job.name) /\ ~Bad(job.name)
          /\ Serves(NewFrame(job.name, f.unit), <<job.name, f.unit>>)
          /\ Items(NewFrame(job.name, f.unit).jobs) = Asked(job.name)
          /\ NewFrame(job.name, f.unit) \in Frame
      <4>1. <<NewFrame(job.name, f.unit)>> \o Advanced # Advanced
        BY <1>6
      <4>2. QED BY <1>5, <1>6, <1>11, <2>1, <4>1, CallEffect
    <3>2. QED BY <1>10, <2>1, <3>1
  <2>2. QED BY <1>5, <1>6, <1>9, <1>11, <2>1, CallEffect
<1>12. QED BY <1>3, <1>9, <1>11 DEF AlsoStep

-----------------------------------------------------------------------------
(* The links that should be there are those its reached units want. *)
LEMMA ExpectedIs ==
  /\ \A l \in Expected : \E n \in Reached :
       /\ l = [at |-> l.at, to |-> l.to] /\ l.to = <<Base(n), FileOf(n)>>
       /\ \/ \E dir \in {"wants", "requires"} : \E d \in Values(n, KeyOf(dir)) :
               (Template(n) => Templated(d)) /\ l.at = <<dir, d, Service(n)>>
          \/ \E a \in Values(n, "Alias") : l.at = Top(a)
  /\ \A n \in Reached : \A dir \in {"wants", "requires"} : \A d \in Values(n, KeyOf(dir)) :
       (Template(n) => Templated(d)) =>
          [at |-> <<dir, d, Service(n)>>, to |-> <<Base(n), FileOf(n)>>] \in Expected
  /\ \A n \in Reached : \A a \in Values(n, "Alias") :
       [at |-> Top(a), to |-> <<Base(n), FileOf(n)>>] \in Expected
<1> DEFINE D(n) == LinksOf(n, <<Base(n), FileOf(n)>>, Service(n))
<1>1. Expected = UNION {D(n) : n \in Reached}
  BY DEF Expected, Service
<1>2. ASSUME NEW n, NEW to, to = <<Base(n), FileOf(n)>>
      PROVE  /\ \A dir, l : l \in DepLinks(dir, n, to, Service(n)) <=>
                  \E d \in Values(n, KeyOf(dir)) : /\ Template(n) => Templated(d)
                                                   /\ l = [at |-> <<dir, d, Service(n)>>, to |-> to]
             /\ \A l : l \in AliasLinks(n, to) <=>
                  \E a \in Values(n, "Alias") : l = [at |-> Top(a), to |-> to]
  <2>1. TemplateOnly(to[1], n) <=> Template(n)
    BY <1>2 DEF Template
  <2>2. QED BY <2>1 DEF DepLinks, AliasLinks
<1>3. ASSUME NEW n, NEW to, to = <<Base(n), FileOf(n)>>
      PROVE  LinksOf(n, to, Service(n))
               = DepLinks("wants", n, to, Service(n)) \cup DepLinks("requires", n, to, Service(n))
                   \cup AliasLinks(n, to)
  BY DEF LinksOf
<1>4. ASSUME NEW l \in Expected
      PROVE  \E n \in Reached :
               /\ l = [at |-> l.at, to |-> l.to] /\ l.to = <<Base(n), FileOf(n)>>
               /\ \/ \E dir \in {"wants", "requires"} : \E d \in Values(n, KeyOf(dir)) :
                       (Template(n) => Templated(d)) /\ l.at = <<dir, d, Service(n)>>
                  \/ \E a \in Values(n, "Alias") : l.at = Top(a)
  <2>1. PICK n \in Reached : l \in D(n)
    BY <1>1
  <2>2. PICK to : to = <<Base(n), FileOf(n)>>
    OBVIOUS
  <2>3. l \in LinksOf(n, to, Service(n))
    BY <2>1, <2>2
  <2>4. \/ \E dir \in {"wants", "requires"} : l \in DepLinks(dir, n, to, Service(n))
        \/ l \in AliasLinks(n, to)
    BY <1>3, <2>2, <2>3
  <2>5. CASE \E dir \in {"wants", "requires"} : l \in DepLinks(dir, n, to, Service(n))
    <3>1. PICK dir \in {"wants", "requires"} : l \in DepLinks(dir, n, to, Service(n))
      BY <2>5
    <3>2. PICK d \in Values(n, KeyOf(dir)) : /\ Template(n) => Templated(d)
                                             /\ l = [at |-> <<dir, d, Service(n)>>, to |-> to]
      BY <1>2, <2>2, <3>1
    <3>3. l.at = <<dir, d, Service(n)>> /\ l.to = to
      BY <3>2
    <3>4. l = [at |-> l.at, to |-> l.to]
      BY <3>2, <3>3
    <3>5. QED BY <2>2, <3>2, <3>3, <3>4
  <2>6. CASE l \in AliasLinks(n, to)
    <3>1. PICK a \in Values(n, "Alias") : l = [at |-> Top(a), to |-> to]
      BY <1>2, <2>2, <2>6
    <3>2. l.at = Top(a) /\ l.to = to
      BY <3>1
    <3>3. l = [at |-> l.at, to |-> l.to]
      BY <3>1, <3>2
    <3>4. QED BY <2>2, <3>2, <3>3
  <2>7. QED BY <2>4, <2>5, <2>6
<1>5. ASSUME NEW n \in Reached, NEW dir \in {"wants", "requires"}, NEW d \in Values(n, KeyOf(dir)),
             Template(n) => Templated(d)
      PROVE  [at |-> <<dir, d, Service(n)>>, to |-> <<Base(n), FileOf(n)>>] \in Expected
  <2>1. PICK to : to = <<Base(n), FileOf(n)>>
    OBVIOUS
  <2>2. [at |-> <<dir, d, Service(n)>>, to |-> to] \in DepLinks(dir, n, to, Service(n))
    BY <1>2, <1>5, <2>1
  <2>3. [at |-> <<dir, d, Service(n)>>, to |-> to] \in D(n)
    BY <1>3, <2>1, <2>2
  <2>4. QED BY <1>1, <2>1, <2>3
<1>6. ASSUME NEW n \in Reached, NEW a \in Values(n, "Alias")
      PROVE  [at |-> Top(a), to |-> <<Base(n), FileOf(n)>>] \in Expected
  <2>1. PICK to : to = <<Base(n), FileOf(n)>>
    OBVIOUS
  <2>2. [at |-> Top(a), to |-> to] \in AliasLinks(n, to)
    BY <1>2, <2>1
  <2>3. [at |-> Top(a), to |-> to] \in D(n)
    BY <1>3, <2>1, <2>2
  <2>4. QED BY <1>1, <2>1, <2>3
<1>7. QED BY <1>4, <1>5, <1>6

(* What sits at the path of an alias, and at that of a unit file *)
LEMMA ExpectedAlias ==
  ASSUME NEW l \in Expected, NEW a, l.at = Top(a)
  PROVE  \E m \in Reached : a \in Values(m, "Alias") /\ l.to = <<Base(m), FileOf(m)>>
<1>1. \A dir \in {"wants", "requires"} : \A d, s : <<dir, d, s>> # Top(a)
  BY DEF Top
<1>2. \A b : Top(b) = Top(a) => b = a
  BY DEF Top
<1>3. PICK m \in Reached :
         /\ l.to = <<Base(m), FileOf(m)>>
         /\ \/ \E dir \in {"wants", "requires"} : \E d \in Values(m, KeyOf(dir)) :
                 (Template(m) => Templated(d)) /\ l.at = <<dir, d, Service(m)>>
            \/ \E b \in Values(m, "Alias") : l.at = Top(b)
  BY ExpectedIs
<1>4. QED BY <1>1, <1>2, <1>3

Strays == Collisionless /\ PresetsAlone => links \subseteq image.shipped \cup Expected

(* While nothing strays, a link that is new at the path of a unit file is  *)
(* an alias, and no unit file that could be enabled has its name.          *)
LEMMA NewLinksAreAliases ==
  ASSUME TypeOK, Collisionless, links \subseteq image.shipped \cup Expected,
         NEW a, LinkedIn(links, Top(a)), ~LinkedIn(image.shipped, Top(a))
  PROVE  ~Enablable(a)
<1>1. PICK l \in Expected : l.at = Top(a)
  BY DEF LinkedIn
<1>2. PICK m \in Reached : a \in Values(m, "Alias")
  BY <1>1, ExpectedAlias
<1>3. m \in Names /\ Enablable(m)
  BY ReachedClosed
<1>4. m \in DOMAIN ValuesOf("Alias") /\ ValuesOf("Alias")[m] = Values(m, "Alias")
  BY <1>3 DEF ValuesOf
<1>5. QED BY <1>2, <1>4 DEF Collisionless, Disjoint

LEMMA EnablableRegular ==
  ASSUME TypeOK, Collisionless, links \subseteq image.shipped \cup Expected,
         NEW n \in Names, Enablable(n)
  PROVE  Regular(n)
<1>1. ~LinkedIn(image.shipped, Top(FileOf(n)))
  BY RegularUnlinked DEF Enablable
<1>2. Enablable(FileOf(n))
  BY FileOfName DEF Enablable
<1>3. ~LinkedIn(links, Top(FileOf(n)))
  BY <1>1, <1>2, NewLinksAreAliases
<1>4. QED BY <1>1, <1>3, SameFile DEF Regular, Enablable

LEMMA FoundRoots ==
  ASSUME TypeOK, Collisionless, links \subseteq image.shipped \cup Expected,
         image.shipped \subseteq links, NEW n \in Names, Enablable(n)
  PROVE  Found(n) <=> FoundIn(image.shipped, n) # {}
  BY FoundAfter, NewLinksAreAliases DEF Found

-----------------------------------------------------------------------------
(* preset-all takes the next unit. *)
LEMMA RunPreset ==
  ASSUME TypeOK, image.shipped \subseteq links, AliasesExist, Strays, services \subseteq Collected,
         NEW n \in Names, PresetNext(n), status' = "running",
         NEW Q \in SUBSET Calls, PresetRun(Q)
  PROVE  \E R \in SUBSET Calls : PresetRun(R)'
<1>1. id' = id /\ links' = links /\ stack = <<>> /\ n \in services /\ services' = services \ {n}
  BY DEF PresetNext, Call
<1>2. Frames = {} /\ Sound(Q) /\ Worked(Q) /\ Framed(Q) /\ Within(Q) /\ Rooted(Q)
  BY <1>1, NoItems DEF Frames, PresetRun
<1>3. Found(n)
  BY <1>1 DEF Collected, Found
<1>4. CASE stack' = <<>> /\ (PresetState(n) = "disable" \/ ~Regular(n))
  <2>1. ~Owed(n)
    BY <1>4 DEF Owed
  <2>2. Rooted(Q)'
    BY <1>1, <1>2, <2>1, RootedKept
  <2>3. Frames' = {} /\ Q \subseteq Q /\ Q \ Q = {} /\ links \subseteq links'
    BY <1>1, <1>4, NoItems DEF Frames
  <2>4. Sound(Q)' /\ Worked(Q)' /\ Framed(Q)' /\ Within(Q)'
    BY <1>1, <1>2, <2>3, Progress
  <2>5. QED BY <2>2, <2>4 DEF PresetRun
<1>5. ASSUME NEW g, stack' = <<g>>, Enablable(n), ~Bad(n), PresetState(n) # "disable",
             Serves(g, <<n, NoCaller>>), Items(g.jobs) = Asked(n)
      PROVE  \E R \in SUBSET Calls : PresetRun(R)'
  <2> DEFINE c == <<n, NoCaller>>
             R == Q \cup {c}
  <2>1. c \in Calls /\ c[1] = n /\ c[2] = NoCaller
    BY DEF Calls
  <2>2. R \in SUBSET Calls /\ Q \subseteq R
    BY <2>1
  <2>3. Frames' = {g}
    BY <1>5, ItemsOfOne DEF Frames
  <2>4. AskedFor(R, c)
    BY <2>1 DEF AskedFor
  <2>5. ASSUME NEW j \in Asked(n) PROVE Pending(c, j)'
    <3>1. Serves(g, c)'
      BY <1>1, <1>5, ServesKept
    <3>2. QED BY <1>5, <2>3, <3>1 DEF Pending
  <2>6. Collisionless /\ PresetsAlone => n \in Reached
    BY <1>3, <1>5, FoundRoots, ReachedClosed DEF Strays, Roots
  <2>7. Rooted(R)'
    BY <1>1, <1>2, <2>2, RootedKept
  <2>8. \A f \in Frames' : \E q \in R : Serves(f, q) /\ Items(f.jobs) \subseteq Asked(q[1])
    BY <1>5, <2>1, <2>3
  <2>9. ASSUME NEW k \in R \ Q
        PROVE  /\ Enablable(k[1]) /\ ~Bad(k[1]) /\ AskedFor(R, k)
               /\ \A j \in Asked(k[1]) : Pending(k, j)'
               /\ Collisionless /\ PresetsAlone => k[1] \in Reached
    <3>1. k = c
      BY <2>9
    <3>2. QED BY <1>5, <2>1, <2>4, <2>5, <2>6, <3>1
  <2>10. links \subseteq links'
    BY <1>1
  <2> HIDE DEF R, c
  <2>11. Sound(R)' /\ Worked(R)' /\ Framed(R)' /\ Within(R)'
    BY <1>1, <1>2, <2>2, <2>8, <2>9, <2>10, Progress
  <2>12. QED BY <2>2, <2>7, <2>11 DEF PresetRun
<1>6. CASE PresetState(n) # "disable" /\ Call(n, NoCaller, <<>>)
  <2>1. CASE ~Regular(n) /\ stack' = <<>>
    BY <1>4, <2>1
  <2>2. CASE /\ stack' = <<NewFrame(n, NoCaller)>> \o <<>>
             /\ Enablable(n) /\ ~Bad(n) /\ NewFrame(n, NoCaller) \in Frame
             /\ Serves(NewFrame(n, NoCaller), <<n, NoCaller>>)
             /\ Items(NewFrame(n, NoCaller).jobs) = Asked(n)
    <3>1. stack' = <<NewFrame(n, NoCaller)>>
      BY <2>2
    <3>2. QED BY <1>5, <1>6, <2>2, <3>1
  <2>3. QED BY <1>6, <2>1, <2>2, CallEffect
<1>7. CASE PresetState(n) = "disable" /\ UNCHANGED <<links, stack, status>>
  BY <1>1, <1>4, <1>7
<1>8. QED BY <1>6, <1>7 DEF PresetNext

(* A call returns. *)
LEMMA RunReturn ==
  ASSUME TypeOK, image.shipped \subseteq links, AliasesExist, Return, NEW Q, PresetRun(Q)
  PROVE  PresetRun(Q)'
<1>1. id' = id /\ links' = links /\ services' = services /\ stack' = Tail(stack)
  BY DEF Return
<1>2. stack \in Seq(Frame) /\ stack # <<>> /\ Head(stack).jobs = <<>>
  BY DEF Return, InEnable, TypeOK
<1>3. Frames = {Head(stack)} \cup Frames' /\ Items(Head(stack).jobs) = {}
  BY <1>1, <1>2, ItemsOfRest, NoItems DEF Frames
<1>4. Sound(Q) /\ Worked(Q) /\ Framed(Q) /\ Within(Q) /\ Rooted(Q) /\ Q \subseteq Q /\ Q \ Q = {}
  BY DEF PresetRun
<1>5. Rooted(Q)'
  BY <1>1, <1>4, RootedKept
<1>6. \A f \in Frames' : \E g \in Frames : Alike(f, g) /\ Items(f.jobs) \subseteq Items(g.jobs)
  BY <1>3 DEF Alike
<1>7. ASSUME NEW f \in Frames, NEW q \in Q, Serves(f, q), NEW j \in Items(f.jobs)
      PROVE  Pending(q, j)'
  <2>1. f \in Frames'
    BY <1>3
  <2>2. Serves(f, q)'
    BY <1>1, <1>7, ServesKept
  <2>3. QED BY <2>1, <2>2 DEF Pending
<1>8. Sound(Q)' /\ Worked(Q)' /\ Framed(Q)' /\ Within(Q)'
  BY <1>1, <1>4, <1>6, <1>7, Progress
<1>9. QED BY <1>5, <1>8 DEF PresetRun

(* Nothing happens. *)
LEMMA RunSame ==
  ASSUME image.shipped \subseteq links, AliasesExist,
         UNCHANGED <<id, links, services, stack>>, NEW Q, PresetRun(Q)
  PROVE  PresetRun(Q)'
<1>1. Frames' = Frames /\ id' = id /\ links \subseteq links'
  BY DEF Frames
<1>2. Sound(Q) /\ Worked(Q) /\ Framed(Q) /\ Within(Q) /\ Rooted(Q) /\ Q \subseteq Q /\ Q \ Q = {}
  BY DEF PresetRun
<1>3. Rooted(Q)'
  BY <1>2, RootedKept
<1>4. ASSUME NEW f \in Frames, NEW q \in Q, Serves(f, q), NEW j \in Items(f.jobs)
      PROVE  Pending(q, j)'
  <2>1. Serves(f, q)'
    BY <1>1, <1>4, ServesKept
  <2>2. QED BY <1>1, <1>4, <2>1 DEF Pending
<1>5. \A f \in Frames' : \E g \in Frames : Alike(f, g) /\ Items(f.jobs) \subseteq Items(g.jobs)
  BY <1>1 DEF Alike
<1>6. Sound(Q)' /\ Worked(Q)' /\ Framed(Q)' /\ Within(Q)'
  BY <1>1, <1>2, <1>4, <1>5, Progress
<1>7. QED BY <1>3, <1>6 DEF PresetRun

(* preset-all starts: nothing has been called, everything owed a call waits. *)
LEMMA RunStart ==
  ASSUME NEW r \in Requests, Start(r), r[1] = "preset-all"
  PROVE  PresetRun({})'
<1>1. id' = id /\ links' = links /\ services' = Collected /\ stack' = <<>>
  BY DEF Start
<1>2. Frames' = {}
  BY <1>1, NoItems DEF Frames
<1>3. ASSUME NEW n \in Names, Owed(n)' PROVE n \in services'
  BY <1>1, <1>3, LinksGrow DEF Owed, Found, Collected
<1>4. QED BY <1>2, <1>3 DEF PresetRun, Sound, Worked, Framed, Within, Rooted

-----------------------------------------------------------------------------
(* What holds of any run: links only grow, what waits was found, and only  *)
(* preset-all runs on a root whose presets stay settled.                   *)
Facts ==
    /\ image.shipped \subseteq links /\ services \subseteq Collected
    /\ settled => machineId
    /\ settled /\ status = "running" => cmd = "preset-all"
    /\ PresetsAlone /\ status = "running" => cmd = "preset-all"

LEMMA StepGrows == [Next]_vars => id' = id /\ links \subseteq links'
<1> SUFFICES ASSUME [Next]_vars PROVE id' = id /\ links \subseteq links'
  OBVIOUS
<1>1. id' = id
  BY DEF vars, Next, Step, Start, MaskNext, EnableNext, PresetNext, DepStep, AlsoStep,
         AliasStep, Return, Finish, Killed
<1>2. ASSUME NEW n, NEW caller, NEW below, Call(n, caller, below)
      PROVE  links \subseteq links'
  BY <1>2 DEF Call
<1>3. ASSUME NEW p, NEW t, NEW after, AddLink(p, t, after)
      PROVE  links \subseteq links'
  BY <1>3 DEF AddLink
<1>4. links \subseteq links'
  <2>1. CASE MaskNext \/ DepStep \/ AliasStep
    BY <1>3, <2>1 DEF MaskNext, DepStep, AliasStep
  <2>2. CASE EnableNext \/ AlsoStep \/ \E n \in Names : PresetNext(n)
    BY <1>2, <2>2 DEF EnableNext, AlsoStep, PresetNext
  <2>3. CASE Return \/ Finish \/ Killed \/ UNCHANGED vars \/ \E r \in Requests : Start(r)
    BY <2>3 DEF Return, Finish, Killed, vars, Start
  <2>4. QED BY <2>1, <2>2, <2>3 DEF Next, Step
<1>5. QED BY <1>1, <1>4

LEMMA FactsNext == ASSUME TypeOK, Facts, [Next]_vars PROVE Facts'
<1>1. id' = id /\ links \subseteq links' /\ image' = image
  BY StepGrows, ImageKept
<1>2. Collected \subseteq Collected'
  BY <1>1, LinksGrow DEF Collected, Found
<1>3. image'.shipped \subseteq links'
  BY <1>1 DEF Facts
<1>4. CASE UNCHANGED <<services, settled, machineId, cmd>> /\ (status' = "running" => status = "running")
  BY <1>2, <1>3, <1>4 DEF Facts, PresetsAlone
<1>5. ASSUME NEW n, NEW caller, NEW below, Call(n, caller, below)
      PROVE  status' = "running" => status = "running"
  BY <1>5 DEF Call, Abort
<1>6. ASSUME NEW p, NEW t, NEW after, AddLink(p, t, after)
      PROVE  status' = "running" => status = "running"
  BY <1>6 DEF AddLink, Abort
<1>7. CASE MaskNext \/ DepStep \/ AliasStep
  <2>1. status = "running"
    BY <1>7 DEF MaskNext, DepStep, AliasStep, Doing, InEnable, Running
  <2>2. QED BY <1>4, <1>7, <2>1 DEF MaskNext, DepStep, AliasStep
<1>8. CASE EnableNext \/ AlsoStep
  <2>1. status = "running"
    BY <1>8 DEF EnableNext, AlsoStep, Doing, InEnable, Running
  <2>2. QED BY <1>4, <1>8, <2>1 DEF EnableNext, AlsoStep
<1>9. ASSUME NEW n \in Names, PresetNext(n) PROVE Facts'
  <2>1. services' \subseteq Collected' /\ cmd' = "preset-all" /\ UNCHANGED <<settled, machineId>>
    BY <1>2, <1>9 DEF PresetNext, Running, Facts
  <2>2. QED BY <1>3, <2>1 DEF Facts
<1>10. ASSUME NEW r \in Requests, Start(r) PROVE Facts'
  <2>1. services' \subseteq Collected'
    BY <1>2, <1>10 DEF Start
  <2>2. (PresetsAlone => cmd' = "preset-all") /\ (settled' => settled /\ cmd' = "preset-all")
    BY <1>10 DEF Start, PresetsAlone
  <2>3. machineId' = machineId
    BY <1>10 DEF Start
  <2>4. QED BY <1>3, <2>1, <2>2, <2>3 DEF Facts, PresetsAlone
<1>11. CASE Return \/ Killed \/ UNCHANGED vars
  <2>1. UNCHANGED <<services, settled, machineId, cmd>> /\ (status' = "running" => status = "running")
    BY <1>11 DEF Return, Killed, Abort, vars
  <2>2. QED BY <1>4, <2>1
<1>12. CASE Finish
  <2>1. services' \subseteq Collected' /\ status' = "ok" /\ (settled' => machineId')
    BY <1>2, <1>12 DEF Finish, Facts
  <2>2. QED BY <1>3, <2>1 DEF Facts
<1>13. QED BY <1>7, <1>8, <1>9, <1>10, <1>11, <1>12 DEF Next, Step

RunInv == Running("preset-all") /\ AliasesExist => \E Q \in SUBSET Calls : PresetRun(Q)

LEMMA RunInvNext == ASSUME TypeOK, Facts, Strays, RunInv, [Next]_vars PROVE RunInv'
<1> SUFFICES ASSUME Running("preset-all")', AliasesExist'
             PROVE  \E Q \in SUBSET Calls : PresetRun(Q)'
  BY DEF RunInv
<1>1. status' = "running" /\ cmd' = "preset-all" /\ AliasesExist
  <2>1. AliasesExist
    BY StepGrows, PlanKept
  <2>2. QED BY <2>1 DEF Running
<1>2. image.shipped \subseteq links /\ services \subseteq Collected
  BY DEF Facts
<1>3. ASSUME cmd' = cmd, status = "running"
      PROVE  \E Q \in SUBSET Calls : PresetRun(Q)
  BY <1>1, <1>3 DEF RunInv, Running
<1>4. CASE DepStep
  <2>1. PICK Q \in SUBSET Calls : PresetRun(Q)
    BY <1>3, <1>4 DEF DepStep, Doing, InEnable
  <2>2. QED BY <1>1, <1>2, <1>4, <2>1, RunDep
<1>5. CASE AliasStep
  <2>1. PICK Q \in SUBSET Calls : PresetRun(Q)
    BY <1>3, <1>5 DEF AliasStep, Doing, InEnable
  <2>2. QED BY <1>1, <1>2, <1>5, <2>1, RunAlias
<1>6. CASE AlsoStep
  <2>1. PICK Q \in SUBSET Calls : PresetRun(Q)
    BY <1>3, <1>6 DEF AlsoStep, Doing, InEnable
  <2>2. QED BY <1>1, <1>2, <1>6, <2>1, RunAlso
<1>7. CASE Return
  <2>1. PICK Q \in SUBSET Calls : PresetRun(Q)
    BY <1>3, <1>7 DEF Return, InEnable
  <2>2. QED BY <1>1, <1>2, <1>7, <2>1, RunReturn
<1>8. ASSUME NEW n \in Names, PresetNext(n)
      PROVE  \E Q \in SUBSET Calls : PresetRun(Q)'
  <2>1. PICK Q \in SUBSET Calls : PresetRun(Q)
    BY <1>3, <1>8 DEF PresetNext, Running
  <2>2. QED BY <1>1, <1>2, <1>8, <2>1, RunPreset
<1>9. ASSUME NEW r \in Requests, Start(r)
      PROVE  \E Q \in SUBSET Calls : PresetRun(Q)'
  <2>1. r[1] = "preset-all"
    BY <1>1, <1>9 DEF Start
  <2>2. QED BY <1>9, <2>1, RunStart
<1>10. CASE MaskNext \/ EnableNext \/ Finish \/ Killed
  BY <1>1, <1>10 DEF MaskNext, EnableNext, Finish, Killed, Abort, Running
<1>11. CASE UNCHANGED vars
  <2>1. PICK Q \in SUBSET Calls : PresetRun(Q)
    BY <1>1, <1>3, <1>11 DEF vars
  <2>2. QED BY <1>1, <1>2, <1>11, <2>1, RunSame DEF vars
<1>12. QED BY <1>4, <1>5, <1>6, <1>7, <1>8, <1>9, <1>10, <1>11 DEF Next, Step

-----------------------------------------------------------------------------
(* Every link that preset-all makes is one of those the image calls for. *)
LEMMA StraysNext ==
  ASSUME TypeOK, Facts, Strays, RunInv, [Next]_vars PROVE Strays'
<1>1. id' = id /\ image' = image /\ links \subseteq links'
      /\ Expected' = Expected /\ (Collisionless' <=> Collisionless)
  BY StepGrows, ImageKept, PlanKept
<1> SUFFICES ASSUME Collisionless, PresetsAlone
             PROVE  links' \subseteq image.shipped \cup Expected
  BY <1>1 DEF Strays, PresetsAlone
<1>2. links \subseteq image.shipped \cup Expected /\ AliasesExist
  BY CollisionlessAliases DEF Strays
<1>3. ASSUME InEnable, Head(stack).jobs # <<>>
      PROVE  \E q : /\ Serves(Head(stack), q) /\ q[1] \in Reached
                    /\ TopJob.name \in Values(q[1], KeyOfJob(TopJob.do))
  <2>1. PICK Q \in SUBSET Calls : PresetRun(Q)
    BY <1>2, <1>3 DEF RunInv, Running, InEnable, Facts
  <2>2. Sound(Q) /\ Framed(Q) /\ Within(Q)
    BY <2>1 DEF PresetRun
  <2>3. QED BY <1>3, <2>2, TopAsked DEF Within
<1>4. CASE DepStep
  <2> DEFINE f == Head(stack)
             l == [at |-> <<TopJob.do, TopJob.name, f.service>>, to |-> <<f.loc, f.unit>>]
  <2>1. links' \subseteq links \/ (/\ ~(f.templateOnly /\ ~Templated(TopJob.name))
                                   /\ links' \subseteq links \cup {l})
    BY <1>4 DEF DepStep, AddLink
  <2>2. PICK q : /\ Serves(f, q) /\ q[1] \in Reached
                 /\ TopJob.name \in Values(q[1], KeyOfJob(TopJob.do))
    BY <1>3, <1>4 DEF DepStep, Doing
  <2>3. TopJob.do \in {"wants", "requires"} /\ KeyOfJob(TopJob.do) = KeyOf(TopJob.do)
    BY <1>4 DEF DepStep, Doing, KeyOfJob
  <2>4. ASSUME ~(f.templateOnly /\ ~Templated(TopJob.name)) PROVE l \in Expected
    <3>1. l = [at |-> <<TopJob.do, TopJob.name, Service(q[1])>>, to |-> <<Base(q[1]), FileOf(q[1])>>]
          /\ (Template(q[1]) => Templated(TopJob.name))
      BY <2>2, <2>4 DEF Serves
    <3>2. TopJob.name \in Values(q[1], KeyOf(TopJob.do))
      BY <2>2, <2>3
    <3>3. QED BY <2>2, <2>3, <3>1, <3>2, ExpectedIs
  <2>5. QED BY <1>2, <2>1, <2>4
<1>5. CASE AliasStep
  <2> DEFINE f == Head(stack)
             l == [at |-> Top(TopJob.name), to |-> <<f.loc, f.unit>>]
  <2>1. links' \subseteq links \cup {l}
    BY <1>5 DEF AliasStep, AddLink
  <2>2. PICK q : /\ Serves(f, q) /\ q[1] \in Reached
                 /\ TopJob.name \in Values(q[1], KeyOfJob(TopJob.do))
    BY <1>3, <1>5 DEF AliasStep, Doing
  <2>3. TopJob.name \in Values(q[1], "Alias")
    BY <1>5, <2>2 DEF AliasStep, Doing, KeyOfJob
  <2>4. l = [at |-> Top(TopJob.name), to |-> <<Base(q[1]), FileOf(q[1])>>]
    BY <2>2 DEF Serves
  <2>5. QED BY <1>2, <2>1, <2>2, <2>3, <2>4, ExpectedIs
<1>6. CASE MaskNext
  BY <1>6 DEF MaskNext, Running, Facts
<1>7. CASE EnableNext \/ AlsoStep \/ \E n \in Names : PresetNext(n)
  <2>1. links' = links
    BY <1>7 DEF EnableNext, AlsoStep, PresetNext, Call
  <2>2. QED BY <1>2, <2>1
<1>8. CASE Return \/ Finish \/ Killed \/ UNCHANGED vars \/ \E r \in Requests : Start(r)
  <2>1. links' = links
    BY <1>8 DEF Return, Finish, Killed, vars, Start
  <2>2. QED BY <1>2, <2>1
<1>9. QED BY <1>4, <1>5, <1>6, <1>7, <1>8 DEF Next, Step

(* A run that is complete: every unit owed a call had one, and every job   *)
(* of every call is done.                                                  *)
Complete(Q) ==
    /\ Sound(Q) /\ Framed(Q) /\ Within(Q)
    /\ \A q \in Q : \A j \in Asked(q[1]) : Done(Q, q, j)
    /\ \A n \in Names : Owed(n) => <<n, NoCaller>> \in Q

LEMMA RunCompletes ==
  ASSUME NEW Q, PresetRun(Q), stack = <<>>, services = {}
  PROVE  Complete(Q)
<1>1. Frames = {}
  BY NoItems DEF Frames
<1>2. QED BY <1>1 DEF PresetRun, Worked, Pending, Rooted, Complete

(* The units of a complete run are those that the image calls for. *)
LEMMA AllReached ==
  ASSUME TypeOK, Facts, Strays, Collisionless, PresetsAlone, NEW Q \in SUBSET Calls, Complete(Q)
  PROVE  \A n \in Reached : \E q \in Q : q[1] = n
<1> DEFINE D == {n \in Names : \E q \in Q : q[1] = n}
<1>1. links \subseteq image.shipped \cup Expected /\ image.shipped \subseteq links
  BY DEF Strays, Facts
<1>2. Sound(Q) /\ Within(Q)
  BY DEF Complete
<1>3. D \subseteq {n \in Names : Enablable(n)}
  BY <1>2 DEF Sound
<1>4. ASSUME NEW n \in Names, n \in Roots, Enablable(n) PROVE n \in D
  <2>1. Owed(n)
    BY <1>1, <1>4, FoundRoots, EnablableRegular DEF Owed, Roots
  <2>2. <<n, NoCaller>> \in Q
    BY <2>1 DEF Complete
  <2>3. QED BY <2>2
<1>5. ASSUME NEW n \in D, NEW m \in Values(n, "Also") \cap Names, Enablable(m)
      PROVE  m \in D
  <2>1. PICK q \in Q : q[1] = n
    OBVIOUS
  <2>2. Enablable(n) /\ n \in Names /\ n \in Reached
    BY <1>2, <1>3, <2>1 DEF Within
  <2>3. PICK j : j = [do |-> "also", name |-> m]
    OBVIOUS
  <2>4. j \in Asked(n)
    BY <2>2, <2>3, AskedJobs DEF KeyOfJob
  <2>5. Done(Q, q, j)
    BY <2>1, <2>4 DEF Complete
  <2>6. q[2] = m \/ <<m, FileOf(n)>> \in Q \/ ~Regular(m)
    BY <2>1, <2>3, <2>5 DEF Done
  <2>7. CASE <<m, FileOf(n)>> \in Q
    BY <2>7
  <2>8. CASE ~Regular(m)
    BY <1>1, <1>5, <2>8, EnablableRegular
  <2>9. CASE q[2] = m
    <3>1. m # NoCaller
      BY DEF Names, NoCaller
    <3>2. PICK p \in Q : m = FileOf(p[1]) /\ n \in Values(p[1], "Also")
      BY <1>2, <2>1, <2>9, <3>1 DEF Sound, AskedFor
    <3>3. p[1] \in D /\ p[1] \in Names /\ p[1] \in Reached /\ Enablable(p[1])
      BY <1>2, <1>3 DEF Within, Calls
    <3>4. CASE p[1] = FileOf(p[1])
      BY <3>2, <3>3, <3>4
    <3>5. CASE p[1] # FileOf(p[1])
      <4>1. FileOf(p[1]) \in Roots
        BY <2>2, <3>2, <3>3, <3>5 DEF Collisionless, Untwisted
      <4>2. QED BY <1>4, <1>5, <3>2, <4>1
    <3>6. QED BY <3>4, <3>5
  <2>10. QED BY <2>6, <2>7, <2>8, <2>9
<1>6. Reached \subseteq D
  <2> HIDE DEF D
  <2>1. QED BY <1>3, <1>4, <1>5, ReachedLeast
<1>7. QED BY <1>6

(* Services of one name come from one unit file. *)
LEMMA ServiceFile ==
  ASSUME TypeOK, NEW n \in Names, NEW m \in Names, Enablable(n), Enablable(m),
         ~Bad(n), ~Bad(m), Service(n) = Service(m)
  PROVE  FileOf(n) = FileOf(m)
<1>1. Base(n) \in Locs /\ Base(m) \in Locs /\ id \in DOMAIN Images
  BY FirstInType DEF Enablable, RegularIn, Base, TypeOK
<1>2. FileOf(Service(n)) = FileOf(n) /\ FileOf(Service(m)) = FileOf(m)
  BY <1>1, ServiceOfType DEF Service, Bad
<1>3. QED BY <1>2

(* A complete run leaves none of the links out that the image calls for. *)
LEMMA Populated ==
  ASSUME TypeOK, Facts, Strays, Collisionless, PresetsAlone, NEW Q \in SUBSET Calls, Complete(Q)
  PROVE  Expected \subseteq links
<1>1. /\ links \subseteq image.shipped \cup Expected /\ links \subseteq Link /\ Sound(Q)
      /\ \A l \in image.shipped : \E k \in Names : l.at = Top(k)
      /\ image.shipped \subseteq links
  BY DEF Strays, TypeOK, Complete, Collisionless, Facts
<1>2. ASSUME NEW n \in Reached
      PROVE  /\ n \in Names /\ Enablable(n) /\ ~Bad(n)
             /\ \E q \in Q : q[1] = n /\ \A j \in Asked(n) : Done(Q, q, j)
  <2>1. PICK q \in Q : q[1] = n
    BY AllReached
  <2>2. QED BY <1>1, <2>1 DEF Calls, Complete, Sound
<1>3. ASSUME NEW n \in Reached, NEW what \in {"wants", "requires", "alias"},
             NEW d \in Values(n, KeyOfJob(what))
      PROVE  \E q \in Q : q[1] = n /\ Done(Q, q, [do |-> what, name |-> d])
  <2>1. PICK j : j = [do |-> what, name |-> d]
    OBVIOUS
  <2>2. j \in Asked(n)
    BY <1>2, <2>1, AskedJobs
  <2>3. QED BY <1>2, <2>1, <2>2
<1>4. \A dir \in {"wants", "requires"} : \A d, s, a : <<dir, d, s>> # Top(a)
  BY DEF Top
<1>5. ASSUME NEW n \in Reached, NEW dir \in {"wants", "requires"}, NEW d \in Values(n, KeyOf(dir)),
             Template(n) => Templated(d)
      PROVE  \E k \in links : k.at = <<dir, d, Service(n)>> /\ k.to = <<Base(n), FileOf(n)>>
  <2>1. PICK q \in Q : q[1] = n /\ Done(Q, q, [do |-> dir, name |-> d])
    BY <1>3 DEF KeyOfJob
  <2>2. Linked(<<dir, d, Service(n)>>)
    BY <1>5, <2>1 DEF Done
  <2>3. PICK k \in links : k.at = <<dir, d, Service(n)>>
    BY <2>2 DEF Linked, LinkedIn
  <2>4. k \in Expected
    BY <1>1, <1>4, <2>3
  <2>5. PICK m \in Reached :
          /\ k.to = <<Base(m), FileOf(m)>>
          /\ \/ \E e \in {"wants", "requires"} : \E c \in Values(m, KeyOf(e)) :
                  (Template(m) => Templated(c)) /\ k.at = <<e, c, Service(m)>>
             \/ \E a \in Values(m, "Alias") : k.at = Top(a)
    BY <2>4, ExpectedIs
  <2>6. Service(m) = Service(n)
    BY <1>4, <2>3, <2>5
  <2>7. FileOf(m) = FileOf(n)
    BY <1>2, <2>6, ServiceFile
  <2>8. QED BY <2>3, <2>5, <2>7 DEF Base
<1>6. ASSUME NEW n \in Reached, NEW a \in Values(n, "Alias")
      PROVE  \E k \in links : k.at = Top(a) /\ k.to = <<Base(n), FileOf(n)>>
  <2>1. PICK q \in Q : q[1] = n /\ Done(Q, q, [do |-> "alias", name |-> a])
    BY <1>3 DEF KeyOfJob
  <2>2. Linked(Top(a))
    BY <2>1 DEF Done
  <2>3. PICK k \in links : k.at = Top(a)
    BY <2>2 DEF Linked, LinkedIn
  <2>4. n \in DOMAIN ValuesOf("Alias") /\ ValuesOf("Alias")[n] = Values(n, "Alias")
    BY <1>2 DEF ValuesOf
  <2>5. k \notin image.shipped
    <3>1. FoundIn(image.shipped, a) = {}
      BY <2>4 DEF Collisionless, Disjoint
    <3>2. ~LinkedIn(image.shipped, Top(a))
      BY <3>1 DEF FoundIn, EntryIn, Locations, Locs
    <3>3. QED BY <2>3, <3>2 DEF LinkedIn
  <2>6. PICK m \in Reached : a \in Values(m, "Alias") /\ k.to = <<Base(m), FileOf(m)>>
    BY <1>1, <2>3, <2>5, ExpectedAlias
  <2>7. m \in DOMAIN ValuesOf("Alias") /\ ValuesOf("Alias")[m] = Values(m, "Alias")
    BY <1>2 DEF ValuesOf
  <2>8. FileOf(m) = FileOf(n)
    BY <2>4, <2>6, <2>7 DEF Collisionless, Disjoint
  <2>9. QED BY <2>3, <2>6, <2>8 DEF Base
<1>7. ASSUME NEW l \in Expected PROVE l \in links
  <2>1. PICK n \in Reached :
          /\ l = [at |-> l.at, to |-> l.to] /\ l.to = <<Base(n), FileOf(n)>>
          /\ \/ \E dir \in {"wants", "requires"} : \E d \in Values(n, KeyOf(dir)) :
                  (Template(n) => Templated(d)) /\ l.at = <<dir, d, Service(n)>>
             \/ \E a \in Values(n, "Alias") : l.at = Top(a)
    BY ExpectedIs
  <2>2. PICK k \in links : k.at = l.at /\ k.to = l.to
    <3>1. CASE \E a \in Values(n, "Alias") : l.at = Top(a)
      BY <1>6, <2>1, <3>1
    <3>2. ASSUME NEW dir \in {"wants", "requires"}, NEW d \in Values(n, KeyOf(dir)),
                 Template(n) => Templated(d), l.at = <<dir, d, Service(n)>>
          PROVE  \E k \in links : k.at = l.at /\ k.to = l.to
      <4>1. PICK k \in links : k.at = <<dir, d, Service(n)>> /\ k.to = <<Base(n), FileOf(n)>>
        BY <1>5, <3>2
      <4>2. QED BY <2>1, <3>2, <4>1
    <3>3. QED BY <2>1, <3>1, <3>2
  <2>3. k = [at |-> k.at, to |-> k.to]
    BY <1>1 DEF Link
  <2>4. QED BY <2>1, <2>2, <2>3
<1>8. QED BY <1>7

-----------------------------------------------------------------------------
SettledInv == settled /\ AliasesExist => \E Q \in SUBSET Calls : Complete(Q)

(* A complete run stays complete while no link is made and only calls that *)
(* belong to it are made again.                                            *)
LEMMA CompleteKept ==
  ASSUME id' = id, links' = links, NEW Q, Complete(Q),
         \A f \in Frames' : \/ \E g \in Frames : Alike(f, g) /\ Items(f.jobs) \subseteq Items(g.jobs)
                            \/ \E q \in Q : Serves(f, q) /\ Items(f.jobs) \subseteq Asked(q[1])
  PROVE  Complete(Q)'
<1>1. links \subseteq links' /\ Q \subseteq Q /\ Q \ Q = {}
  OBVIOUS
<1>2. Sound(Q) /\ Framed(Q) /\ Within(Q) /\ \A q \in Q : \A j \in Asked(q[1]) : Done(Q, q, j)
  BY DEF Complete
<1>3. Worked(Q)
  BY <1>2 DEF Worked
<1>4. ASSUME NEW q \in Q, NEW j \in Asked(q[1])
      PROVE  Done(Q, q, j)'
  BY <1>1, <1>2, DoneKept
<1>5. ASSUME NEW f \in Frames, NEW q \in Q, Serves(f, q), NEW j \in Items(f.jobs)
      PROVE  Done(Q, q, j)' \/ Pending(q, j)'
  <2>1. PICK p \in Q : Serves(f, p) /\ Items(f.jobs) \subseteq Asked(p[1])
    BY <1>2 DEF Framed
  <2>2. Done(Q, p, j)'
    BY <1>4, <1>5, <2>1
  <2>3. /\ FileOf(p[1]) = FileOf(q[1]) /\ p[2] = q[2]
        /\ Service(p[1])' = Service(q[1])' /\ (Template(p[1])' <=> Template(q[1])')
    BY <1>5, <2>1, NamesKept DEF Serves
  <2>4. QED BY <2>2, <2>3 DEF Done
<1>6. Sound(Q)' /\ Framed(Q)' /\ Within(Q)'
  BY <1>1, <1>2, <1>3, <1>5, Progress
<1>7. \A n : Asked(n)' = Asked(n)
  BY NamesKept
<1>8. ASSUME NEW n \in Names, Owed(n)' PROVE <<n, NoCaller>> \in Q
  <2>1. PresetState(n) # "disable"
    BY <1>8, NamesKept DEF Owed
  <2>2. Found(n) /\ Regular(n)
    BY <1>1, <1>8, LinksGrow DEF Owed
  <2>3. QED BY <2>1, <2>2 DEF Owed, Complete
<1>9. QED BY <1>4, <1>6, <1>7, <1>8 DEF Complete

(* On a settled root the next step makes no link and no call that the run  *)
(* that succeeded did not make.                                            *)
LEMMA SettledStep ==
  ASSUME TypeOK, Facts, settled, AliasesExist, [Next]_vars,
         NEW Q \in SUBSET Calls, Complete(Q)
  PROVE  links' = links /\ (settled' => Complete(Q)')
<1>1. id' = id /\ image.shipped \subseteq links
  BY StepGrows DEF Facts
<1>2. Sound(Q) /\ Framed(Q)
  BY DEF Complete
<1>3. status = "running" => cmd = "preset-all"
  BY DEF Facts
<1>4. CASE links' = links /\ stack' = <<>>
  <2>1. Frames' = {}
    BY <1>4, NoItems DEF Frames
  <2>2. QED BY <1>1, <1>4, <2>1, CompleteKept
<1>5. CASE links' = links /\ stack' = stack
  <2>1. Frames' = Frames
    BY <1>5 DEF Frames
  <2>2. QED BY <1>1, <1>5, <2>1, CompleteKept DEF Alike
<1>6. ASSUME InEnable, Head(stack).jobs # <<>>, links' = links, stack' = Advanced
      PROVE  Complete(Q)'
  <2>1. \A f \in Frames' : \E g \in Frames : Alike(f, g) /\ Items(f.jobs) \subseteq Items(g.jobs)
    BY <1>6, TopMoves DEF Frames, Alike
  <2>2. QED BY <1>1, <1>6, <2>1, CompleteKept
<1>7. ASSUME InEnable, Head(stack).jobs # <<>>
      PROVE  \E q \in Q : /\ Serves(Head(stack), q) /\ TopJob \in Job /\ Done(Q, q, TopJob)
                          /\ q[1] \in Names
  <2>1. PICK q \in Q : /\ Serves(Head(stack), q) /\ q[1] \in Names
                       /\ TopJob \in Asked(q[1]) /\ TopJob \in Job
    BY <1>2, <1>7, TopAsked
  <2>2. QED BY <2>1 DEF Complete
<1>8. ASSUME NEW p, NEW t, AddLink(p, t, Advanced), Linked(p), InEnable, Head(stack).jobs # <<>>
      PROVE  links' = links /\ Complete(Q)'
  <2>1. links' = links /\ stack' = Advanced
    BY <1>8 DEF AddLink
  <2>2. QED BY <1>6, <1>8, <2>1
<1>9. CASE DepStep
  <2> DEFINE f == Head(stack)
  <2>1. InEnable /\ f.jobs # <<>> /\ TopJob.do \in {"wants", "requires"}
    BY <1>9 DEF DepStep, Doing
  <2>2. PICK q \in Q : Serves(f, q) /\ Done(Q, q, TopJob)
    BY <1>7, <2>1
  <2>3. Linked(<<TopJob.do, TopJob.name, f.service>>) \/ (f.templateOnly /\ ~Templated(TopJob.name))
    BY <2>1, <2>2 DEF Done, Serves
  <2>4. QED BY <1>6, <1>8, <1>9, <2>1, <2>3 DEF DepStep
<1>10. CASE AliasStep
  <2>1. InEnable /\ Head(stack).jobs # <<>> /\ TopJob.do = "alias"
    BY <1>10 DEF AliasStep, Doing
  <2>2. Linked(Top(TopJob.name))
    BY <1>7, <2>1 DEF Done
  <2>3. QED BY <1>8, <1>10, <2>1, <2>2 DEF AliasStep
<1>11. CASE AlsoStep
  <2> DEFINE f == Head(stack)
             m == TopJob.name
             g == NewFrame(m, f.unit)
  <2>1. InEnable /\ f.jobs # <<>> /\ TopJob.do = "also"
    BY <1>11 DEF AlsoStep, Doing
  <2>2. PICK q \in Q : Serves(f, q) /\ TopJob \in Job /\ Done(Q, q, TopJob) /\ q[1] \in Names
    BY <1>7, <2>1
  <2>3. m \in Names /\ f.unit \in Names /\ f.unit = FileOf(q[1])
    BY <2>2, FileOfName DEF Job, Serves
  <2>4. links' = links
    BY <1>11 DEF AlsoStep, Call
  <2>5. CASE status' # "running"
    <3>1. stack' = <<>>
      BY <1>11, <2>1, <2>5 DEF AlsoStep, Call, Abort, InEnable
    <3>2. QED BY <1>4, <2>4, <3>1
  <2>6. CASE stack' = Advanced
    BY <1>6, <2>1, <2>4, <2>6
  <2>7. ASSUME f.caller # m, Regular(m), stack' = <<g>> \o Advanced, g \in Frame,
               Serves(g, <<m, f.unit>>), Items(g.jobs) = Asked(m)
        PROVE  Complete(Q)'
    <3>1. PICK c : c = <<m, f.unit>>
      OBVIOUS
    <3>2. c \in Q /\ c[1] = m
      BY <2>1, <2>2, <2>3, <2>7, <3>1 DEF Done, Serves
    <3>3. Frames' = {g} \cup Items(Advanced)
      <4>1. Advanced \in Seq(Frame)
        BY <2>1, TopFrame
      <4>2. Items(<<g>> \o Advanced) = {g} \cup Items(Advanced)
        BY <2>7, <4>1, ItemsOfPush
      <4>3. QED BY <2>7, <4>2 DEF Frames
    <3>4. ASSUME NEW h \in Frames'
          PROVE  \/ \E k \in Frames : Alike(h, k) /\ Items(h.jobs) \subseteq Items(k.jobs)
                 \/ \E k \in Q : Serves(h, k) /\ Items(h.jobs) \subseteq Asked(k[1])
      <4>1. CASE h = g
        BY <2>7, <3>1, <3>2, <4>1
      <4>2. CASE h \in Items(Advanced)
        BY <2>1, <4>2, TopMoves DEF Alike
      <4>3. QED BY <3>3, <4>1, <4>2
    <3>5. QED BY <1>1, <2>4, <3>4, CompleteKept
  <2>8. CASE status' = "running" /\ f.caller # m /\ Call(m, f.unit, Advanced)
    BY <1>1, <2>3, <2>4, <2>6, <2>7, <2>8, CallEffect
  <2>9. QED BY <1>11, <2>4, <2>5, <2>6, <2>8 DEF AlsoStep
<1>12. ASSUME NEW n \in Names, PresetNext(n)
       PROVE  links' = links /\ Complete(Q)'
  <2> DEFINE g == NewFrame(n, NoCaller)
  <2>1. links' = links /\ stack = <<>> /\ n \in services /\ Found(n) /\ settled' = settled
    BY <1>12 DEF PresetNext, Call, Facts, Collected, Found
  <2>2. CASE stack' = <<>>
    BY <1>4, <2>1, <2>2
  <2>3. ASSUME PresetState(n) # "disable", Regular(n), stack' = <<g>>,
               Serves(g, <<n, NoCaller>>), Items(g.jobs) = Asked(n)
        PROVE  Complete(Q)'
    <3>1. PICK c : c = <<n, NoCaller>>
      OBVIOUS
    <3>2. c \in Q /\ c[1] = n
      BY <2>1, <2>3, <3>1 DEF Complete, Owed
    <3>3. Frames' = {g}
      BY <2>3, ItemsOfOne DEF Frames
    <3>4. \A h \in Frames' : \E k \in Q : Serves(h, k) /\ Items(h.jobs) \subseteq Asked(k[1])
      BY <2>3, <3>1, <3>2, <3>3
    <3>5. QED BY <1>1, <2>1, <3>4, CompleteKept
  <2>4. CASE status' # "running"
    <3>1. stack' = <<>>
      BY <1>12, <2>1, <2>4 DEF PresetNext, Call, Abort, Running
    <3>2. QED BY <2>2, <3>1
  <2>5. CASE PresetState(n) # "disable" /\ Call(n, NoCaller, <<>>) /\ status' = "running"
    <3>1. <<g>> \o <<>> = <<g>>
      OBVIOUS
    <3>2. QED BY <1>1, <2>2, <2>3, <2>5, <3>1, CallEffect
  <2>6. CASE PresetState(n) = "disable" /\ UNCHANGED <<links, stack, status>>
    BY <2>1, <2>2, <2>6
  <2>7. QED BY <1>12, <2>1, <2>4, <2>5, <2>6 DEF PresetNext
<1>13. CASE MaskNext \/ EnableNext
  BY <1>3, <1>13 DEF MaskNext, EnableNext, Running
<1>14. CASE Return
  <2>1. stack \in Seq(Frame) /\ stack # <<>> /\ stack' = Tail(stack) /\ links' = links
    BY <1>14 DEF Return, InEnable, TypeOK
  <2>2. Frames' \subseteq Frames
    BY <2>1, ItemsOfRest DEF Frames
  <2>3. QED BY <1>1, <2>1, <2>2, CompleteKept DEF Alike
<1>15. CASE Finish \/ UNCHANGED vars
  BY <1>5, <1>15 DEF Finish, vars
<1>16. CASE Killed \/ \E r \in Requests : Start(r)
  BY <1>4, <1>16 DEF Killed, Abort, Start
<1>17. QED BY <1>9, <1>10, <1>11, <1>12, <1>13, <1>14, <1>15, <1>16 DEF Next, Step

LEMMA SettledInvNext ==
  ASSUME TypeOK, Facts, RunInv, SettledInv, [Next]_vars PROVE SettledInv'
<1> SUFFICES ASSUME settled', AliasesExist' PROVE \E Q \in SUBSET Calls : Complete(Q)'
  BY DEF SettledInv
<1>1. id' = id /\ AliasesExist
  BY StepGrows, PlanKept
<1>2. CASE settled
  <2>1. PICK Q \in SUBSET Calls : Complete(Q)
    BY <1>1, <1>2 DEF SettledInv
  <2>2. QED BY <1>1, <1>2, <2>1, SettledStep
<1>3. CASE ~settled
  <2>1. Finish /\ cmd = "preset-all" /\ status = "running"
    BY <1>3 DEF Next, Step, vars, Start, MaskNext, EnableNext, PresetNext, DepStep, AlsoStep,
                AliasStep, Return, Finish, Killed
  <2>2. PICK Q \in SUBSET Calls : PresetRun(Q)
    BY <1>1, <2>1 DEF RunInv, Running
  <2>3. Complete(Q) /\ links' = links /\ stack' = stack
    BY <2>1, <2>2, RunCompletes DEF Finish
  <2>4. \A f \in Frames' : \E g \in Frames : Alike(f, g) /\ Items(f.jobs) \subseteq Items(g.jobs)
    BY <2>3 DEF Frames, Alike
  <2>5. QED BY <1>1, <2>3, <2>4, CompleteKept
<1>4. QED BY <1>2, <1>3

LEMMA MachineIdNext ==
  ASSUME TypeOK, Facts, Strays, RunInv, MachineIdMeansPopulated, [Next]_vars
  PROVE  MachineIdMeansPopulated'
<1>1. id' = id /\ links \subseteq links' /\ Expected' = Expected
      /\ (Collisionless' <=> Collisionless)
  BY StepGrows, PlanKept
<1> SUFFICES ASSUME machineId', PresetsAlone, Collisionless PROVE Expected \subseteq links'
  BY <1>1 DEF MachineIdMeansPopulated, PresetsAlone
<1>2. CASE machineId
  BY <1>1, <1>2 DEF MachineIdMeansPopulated
<1>3. CASE ~machineId
  <2>1. Finish /\ cmd = "preset-all" /\ status = "running"
    BY <1>3 DEF Next, Step, vars, Start, MaskNext, EnableNext, PresetNext, DepStep, AlsoStep,
                AliasStep, Return, Finish, Killed
  <2>2. PICK Q \in SUBSET Calls : PresetRun(Q)
    BY <2>1, CollisionlessAliases DEF RunInv, Running
  <2>3. Complete(Q)
    BY <2>1, <2>2, RunCompletes DEF Finish
  <2>4. Expected \subseteq links
    BY <2>3, Populated
  <2>5. QED BY <1>1, <2>4
<1>4. QED BY <1>2, <1>3

-----------------------------------------------------------------------------
PresetInv ==
    /\ TypeOK /\ Facts /\ Strays /\ RunInv /\ SettledInv /\ MachineIdMeansPopulated

LEMMA PresetInvInit == ASSUME Init, TypeOK PROVE PresetInv
<1>1. Facts /\ Strays /\ RunInv /\ SettledInv /\ MachineIdMeansPopulated
  BY DEF Init, Facts, Strays, RunInv, Running, SettledInv, MachineIdMeansPopulated
<1>2. QED BY <1>1 DEF PresetInv

LEMMA PresetInvNext == ASSUME PresetInv, TypeOK', [Next]_vars PROVE PresetInv'
  BY FactsNext, StraysNext, RunInvNext, SettledInvNext, MachineIdNext DEF PresetInv

(* The invariant of preset-all holds in every state, whatever the images,  *)
(* the order of the units, failures and kills.                             *)
THEOREM PresetInductive == Spec => []PresetInv
<1>1. Init /\ TypeOK => PresetInv
  BY PresetInvInit
<1>2. PresetInv /\ TypeOK' /\ [Next]_vars => PresetInv'
  BY PresetInvNext
<1>3. QED BY <1>1, <1>2, TypeCorrect, PTL DEF Spec

(* Once presets alone have succeeded the links are exactly those that the  *)
(* image calls for, for images of any size and units taken in any order.   *)
THEOREM PresetsAreExact == Spec => []PresetExact
<1>1. PresetInv => PresetExact
  BY DEF PresetInv, Facts, Strays, MachineIdMeansPopulated, PresetExact
<1>2. QED BY <1>1, PresetInductive, PTL

(* /etc/machine-id never stands for links that are not there. *)
THEOREM MachineIdIsHonest == Spec => []MachineIdMeansPopulated
<1>1. PresetInv => MachineIdMeansPopulated
  BY DEF PresetInv
<1>2. QED BY <1>1, PresetInductive, PTL

(* On a root on which presets succeeded no step of a further run makes a   *)
(* link, unless an alias names an instance that was not there.             *)
THEOREM PresetsAreIdempotent == Spec => Idempotent
<1>1. PresetInv /\ [Next]_vars => [settled => links' = links \/ ~AliasesExist]_vars
  <2> SUFFICES ASSUME PresetInv, Next, settled, AliasesExist PROVE links' = links
    OBVIOUS
  <2>1. TypeOK /\ Facts /\ SettledInv
    BY DEF PresetInv
  <2>2. PICK Q \in SUBSET Calls : Complete(Q)
    BY <2>1 DEF SettledInv
  <2>3. QED BY <2>1, <2>2, SettledStep
<1>2. QED BY <1>1, PresetInductive, PTL DEF Idempotent, Spec

-----------------------------------------------------------------------------
(* Recursion.  The calls on the stack form a chain: each was asked for by  *)
(* the one below, and is not the unit that asked for that one.             *)
ChainOf(s, c) ==
    /\ c \in [1..Len(s) -> Names]
    /\ \A i \in 1..Len(s) :
         Enablable(c[i]) /\ s[i].unit = FileOf(c[i]) /\ Items(s[i].jobs) \subseteq Asked(c[i])
    /\ \A i \in 1..(Len(s) - 1) :
         /\ c[i] \in Values(c[i + 1], "Also")
         /\ s[i].caller = FileOf(c[i + 1]) /\ c[i] # s[i + 1].caller
Chained == \E c : ChainOf(stack, c)

(* In a chain of twice as many calls as there are units, and one more, a   *)
(* unit is called twice in the same way, and what lies between is a tangle. *)
LEMMA LongChainTangles ==
  ASSUME NEW also, IsFiniteSet(DOMAIN also), NEW k \in Nat, k >= 2 * Cardinality(DOMAIN also),
         NEW c \in [0..k -> DOMAIN also], NEW d,
         \A i \in 0..(k - 1) :
            c[i] \in also[c[i + 1]] /\ d[i] = FileOf(c[i + 1]) /\ c[i] # d[i + 1]
  PROVE  Tangled(also)
<1> DEFINE U == DOMAIN also
           f == [i \in 0..k |-> <<c[i], IF d[i] = c[i] THEN 1 ELSE 0>>]
<1>1. \E i, j \in 0..k : i # j /\ f[i] = f[j]
  <2>1. IsFiniteSet(0..1) /\ Cardinality(0..1) = 2
    <3>1. PICK one \in Nat : one = 1
      OBVIOUS
    <3>2. IsFiniteSet(0..one) /\ Cardinality(0..one) = IF 0 > one THEN 0 ELSE one - 0 + 1
      BY FS_Interval, SMTT(20)
    <3>3. QED BY <3>1, <3>2
  <2>2. IsFiniteSet(0..k) /\ Cardinality(0..k) = k + 1
    BY FS_Interval
  <2>3. Cardinality(U) \in Nat
    BY FS_CardinalityType
  <2> DEFINE P == U \X (0..1)
  <2>4. IsFiniteSet(P) /\ Cardinality(P) = Cardinality(U) * 2
    BY <2>1, FS_Product
  <2>5. f \in [0..k -> P]
    OBVIOUS
  <2> HIDE DEF f, P
  <2>6. Cardinality(P) < Cardinality(0..k)
    BY <2>2, <2>3, <2>4
  <2>7. QED BY <2>2, <2>4, <2>5, <2>6, FS_PigeonHole
<1>2. PICK i \in 0..k, j \in 0..k : i < j /\ f[i] = f[j]
  <2> HIDE DEF f
  <2>1. PICK x \in 0..k, y \in 0..k : x # y /\ f[x] = f[y]
    BY <1>1
  <2>2. x < y \/ y < x
    BY <2>1
  <2>3. QED BY <2>1, <2>2
<1>3. i \in Nat /\ j \in Nat /\ i < j /\ j <= k /\ c[i] = c[j] /\ (d[i] = c[i] <=> d[j] = c[j])
  <2>1. /\ f[i][1] = c[i] /\ f[i][2] = IF d[i] = c[i] THEN 1 ELSE 0
        /\ f[j][1] = c[j] /\ f[j][2] = IF d[j] = c[j] THEN 1 ELSE 0
    OBVIOUS
  <2> HIDE DEF f
  <2>2. QED BY <1>2, <2>1
<1> DEFINE T == {c[l] : l \in (i + 1)..j}
<1>4. T \subseteq U /\ T # {}
  <2>1. ASSUME NEW l \in (i + 1)..j PROVE c[l] \in DOMAIN also
    <3>1. l \in 0..k
      BY <1>3
    <3>2. QED BY <3>1
  <2>2. j \in (i + 1)..j
    BY <1>3
  <2>3. QED BY <2>1, <2>2
<1>5. \A l \in i..j : c[l] \in T
  <2>1. c[j] \in T
    <3>1. j \in (i + 1)..j
      BY <1>3
    <3>2. QED BY <3>1
  <2>2. ASSUME NEW l \in i..j, l # i PROVE c[l] \in T
    <3>1. l \in (i + 1)..j
      BY <1>3, <2>2
    <3>2. QED BY <3>1
  <2>3. c[i] \in T
    BY <1>3, <2>1
  <2>4. QED BY <2>2, <2>3
<1>6. ASSUME NEW l \in i..(j - 1)
      PROVE  \E m \in also[c[l + 1]] \cap T : m # c[l + 1] \/ c[l + 1] # FileOf(c[l + 1])
  <2> DEFINE n == c[l + 1]
  <2>1. c[l] \in also[n] \cap T /\ d[l] = FileOf(n)
    BY <1>3, <1>5
  <2>2. CASE c[l] # n \/ n # FileOf(n)
    BY <2>1, <2>2
  <2>3. CASE c[l] = n /\ n = FileOf(n) /\ l # i
    <3>1. c[l - 1] \in also[c[l]] /\ c[l - 1] # d[l] /\ c[l - 1] \in T
      <4>1. l - 1 \in 0..(k - 1) /\ l - 1 \in i..j /\ l - 1 + 1 = l
        BY <1>3, <2>3
      <4>2. QED BY <1>5, <4>1
    <3>2. QED BY <2>1, <2>3, <3>1
  <2>4. CASE c[l] = n /\ n = FileOf(n) /\ l = i
    <3>1. d[j] = c[j] /\ c[j] = n
      BY <1>3, <2>1, <2>4
    <3>2. j - 1 \in 0..(k - 1) /\ j - 1 \in i..j /\ j - 1 + 1 = j
      BY <1>3
    <3>3. c[j - 1] \in also[c[j]] /\ c[j - 1] # d[j] /\ c[j - 1] \in T
      BY <1>5, <3>2
    <3>4. QED BY <3>1, <3>3
  <2>5. QED BY <2>2, <2>3, <2>4
<1>7. ASSUME NEW n \in T
      PROVE  {m \in also[n] : m # n \/ n # FileOf(n)} \cap T # {}
  <2>1. PICK h \in (i + 1)..j : n = c[h]
    OBVIOUS
  <2>2. PICK l \in i..(j - 1) : l + 1 = h
    <3>1. h - 1 \in i..(j - 1) /\ (h - 1) + 1 = h
      BY <1>3
    <3>2. QED BY <3>1
  <2>3. PICK m \in also[c[h]] \cap T : m # c[h] \/ c[h] # FileOf(c[h])
    <3> HIDE DEF T
    <3>1. QED BY <1>6, <2>2
  <2>4. QED BY <2>1, <2>3
<1> HIDE DEF T
<1>8. T \in (SUBSET DOMAIN also) \ {{}}
  BY <1>4
<1>9. QED BY <1>7, <1>8 DEF Tangled

(* A chain that loses its innermost call, or one of that call's jobs, is   *)
(* still a chain; one more call may join it.                               *)
LEMMA ChainTail ==
  ASSUME NEW s \in Seq(Frame), s # <<>>, NEW c, ChainOf(s, c)
  PROVE  \E e : ChainOf(Tail(s), e)
<1> DEFINE t == Tail(s)
           e == [i \in 1..Len(t) |-> c[i + 1]]
<1>1. /\ Len(t) = Len(s) - 1 /\ Len(s) \in Nat /\ Len(t) \in Nat
      /\ \A i \in 1..Len(t) : i + 1 \in 1..Len(s) /\ t[i] = s[i + 1]
  OBVIOUS
<1> HIDE DEF t
<1>2. e \in [1..Len(t) -> Names]
  BY <1>1 DEF ChainOf
<1>3. ASSUME NEW i \in 1..Len(t)
      PROVE  /\ Enablable(e[i]) /\ t[i].unit = FileOf(e[i])
             /\ Items(t[i].jobs) \subseteq Asked(e[i])
  BY <1>1 DEF ChainOf
<1>4. ASSUME NEW i \in 1..(Len(t) - 1)
      PROVE  /\ e[i] \in Values(e[i + 1], "Also")
             /\ t[i].caller = FileOf(e[i + 1]) /\ e[i] # t[i + 1].caller
  <2>1. i \in 1..Len(t) /\ i + 1 \in 1..Len(t) /\ i + 1 \in 1..(Len(s) - 1)
    BY <1>1
  <2>2. e[i] = c[i + 1] /\ e[i + 1] = c[(i + 1) + 1] /\ t[i] = s[i + 1] /\ t[i + 1] = s[(i + 1) + 1]
    BY <1>1, <2>1
  <2>3. QED BY <2>1, <2>2 DEF ChainOf
<1> HIDE DEF e
<1>5. ChainOf(t, e)
  BY <1>2, <1>3, <1>4 DEF ChainOf
<1>6. QED BY <1>5 DEF t

LEMMA ChainAdvanced ==
  ASSUME TypeOK, InEnable, Head(stack).jobs # <<>>, NEW c, ChainOf(stack, c)
  PROVE  ChainOf(Advanced, c) /\ TopJob \in Asked(c[1]) /\ Len(Advanced) = Len(stack)
<1> DEFINE f == Head(stack)
           g == [f EXCEPT !.jobs = Tail(@)]
           s == Advanced
<1>1. stack \in Seq(Frame) /\ stack # <<>> /\ f \in Frame /\ f = stack[1]
      /\ 1 \in 1..Len(stack) /\ Len(stack) \in Nat
  BY TopFrame DEF TypeOK, InEnable
<1>2. g.unit = f.unit /\ g.caller = f.caller /\ g.jobs = Tail(f.jobs)
  BY <1>1 DEF Frame
<1>3. Items(f.jobs) = {TopJob} \cup Items(g.jobs)
  <2>1. f.jobs \in Seq(Job)
    BY <1>1 DEF Frame
  <2>2. QED BY <1>2, <2>1, ItemsOfRest DEF TopJob
<1>4. Len(s) = Len(stack) /\ s[1] = g /\ \A i \in 1..Len(stack) : i # 1 => s[i] = stack[i]
  <2>1. s = <<g>> \o Tail(stack)
    BY DEF Advanced
  <2>2. Tail(stack) \in Seq(Frame) /\ Len(Tail(stack)) = Len(stack) - 1
        /\ \A i \in 1..Len(Tail(stack)) : Tail(stack)[i] = stack[i + 1]
    BY <1>1
  <2> HIDE DEF g, s
  <2>3. QED BY <1>1, <2>1, <2>2
<1>5. Items(f.jobs) \subseteq Asked(c[1])
  BY <1>1 DEF ChainOf
<1> HIDE DEF g, s
<1>6. \A i \in 1..Len(stack) : /\ s[i].unit = stack[i].unit /\ s[i].caller = stack[i].caller
                               /\ Items(s[i].jobs) \subseteq Items(stack[i].jobs)
  BY <1>1, <1>2, <1>3, <1>4
<1>7. ChainOf(s, c)
  <2>1. \A i \in 1..(Len(stack) - 1) : i \in 1..Len(stack) /\ i + 1 \in 1..Len(stack)
    BY <1>1
  <2>2. QED BY <1>4, <1>6, <2>1 DEF ChainOf
<1>8. QED BY <1>3, <1>4, <1>5, <1>7 DEF s

LEMMA ChainJoin ==
  ASSUME NEW s \in Seq(Frame), NEW c, ChainOf(s, c), NEW n \in Names, NEW g \in Frame,
         Enablable(n), g.unit = FileOf(n), Items(g.jobs) \subseteq Asked(n),
         s # <<>> => /\ n \in Values(c[1], "Also")
                     /\ g.caller = FileOf(c[1]) /\ n # s[1].caller
  PROVE  \E e : ChainOf(<<g>> \o s, e)
<1> DEFINE t == <<g>> \o s
           e == [i \in 1..Len(t) |-> IF i = 1 THEN n ELSE c[i - 1]]
<1>1. /\ Len(t) = Len(s) + 1 /\ Len(s) \in Nat /\ Len(t) \in Nat /\ t[1] = g
      /\ \A i \in 1..Len(s) : t[i + 1] = s[i]
      /\ \A i \in 1..Len(t) : i # 1 => i - 1 \in 1..Len(s) /\ (i - 1) + 1 = i
      /\ Len(s) # 0 => s # <<>>
  OBVIOUS
<1> HIDE DEF t
<1>2. c \in [1..Len(s) -> Names]
  BY DEF ChainOf
<1>3. e \in [1..Len(t) -> Names]
  BY <1>1, <1>2
<1>4. /\ e[1] = n
      /\ \A i \in 1..Len(s) : e[i + 1] = c[i]
  BY <1>1
<1> HIDE DEF e
<1>5. ASSUME NEW i \in 1..Len(t)
      PROVE  /\ Enablable(e[i]) /\ t[i].unit = FileOf(e[i])
             /\ Items(t[i].jobs) \subseteq Asked(e[i])
  <2>1. CASE i = 1
    BY <1>1, <1>4, <2>1
  <2>2. CASE i # 1
    <3>1. PICK j \in 1..Len(s) : i = j + 1
      BY <1>1, <2>2
    <3>2. e[i] = c[j] /\ t[i] = s[j]
      BY <1>1, <1>4, <3>1
    <3>3. QED BY <3>2 DEF ChainOf
  <2>3. QED BY <2>1, <2>2
<1>6. ASSUME NEW i \in 1..(Len(t) - 1)
      PROVE  /\ e[i] \in Values(e[i + 1], "Also")
             /\ t[i].caller = FileOf(e[i + 1]) /\ e[i] # t[i + 1].caller
  <2>1. i \in 1..Len(s) /\ e[i + 1] = c[i] /\ t[i + 1] = s[i]
    BY <1>1, <1>4
  <2>2. CASE i = 1
    BY <1>1, <1>4, <2>1, <2>2
  <2>3. CASE i # 1
    <3>1. PICK j \in 1..Len(s) : i = j + 1
      BY <1>1, <2>1, <2>3
    <3>2. e[i] = c[j] /\ t[i] = s[j] /\ j \in 1..(Len(s) - 1)
      BY <1>1, <1>4, <2>1, <3>1
    <3>3. QED BY <2>1, <3>1, <3>2 DEF ChainOf
  <2>4. QED BY <2>2, <2>3
<1>7. ChainOf(t, e)
  BY <1>3, <1>5, <1>6 DEF ChainOf
<1>8. QED BY <1>7 DEF t

LEMMA ChainKept ==
  ASSUME id' = id, NEW s, s = stack', NEW c, ChainOf(s, c)
  PROVE  Chained'
<1>1. \A n : (Enablable(n)' <=> Enablable(n)) /\ Asked(n)' = Asked(n)
      /\ Values(n, "Also")' = Values(n, "Also")
  BY ImageKept, NamesKept
<1>2. ChainOf(s, c)'
  BY <1>1 DEF ChainOf
<1>3. QED BY <1>2 DEF Chained, ChainOf

LEMMA EmptyChain == ChainOf(<<>>, [i \in 1..0 |-> i])
<1>1. PICK s : s = <<>>
  OBVIOUS
<1>2. Len(s) = 0 /\ 1..Len(s) = {} /\ 1..(Len(s) - 1) = {}
  BY <1>1
<1>3. [i \in 1..0 |-> i] \in [1..Len(s) -> Names]
  BY <1>2
<1>4. ChainOf(s, [i \in 1..0 |-> i])
  BY <1>2, <1>3 DEF ChainOf
<1>5. QED BY <1>1, <1>4

LEMMA ChainedEmpty == ASSUME stack' = <<>>, id' = id PROVE Chained'
<1>1. PICK s : s = <<>>
  OBVIOUS
<1>2. ChainOf(s, [i \in 1..0 |-> i])
  BY <1>1, EmptyChain
<1>3. QED BY <1>1, <1>2, ChainKept

(* Every step leaves the calls on the stack a chain. *)
LEMMA ChainedNext ==
  ASSUME TypeOK, Facts, Chained, [Next]_vars PROVE Chained'
<1>1. id' = id /\ image.shipped \subseteq links
  BY StepGrows DEF Facts
<1>2. PICK c : ChainOf(stack, c)
  BY DEF Chained
<1>3. CASE stack' = <<>>
  BY <1>1, <1>3, ChainedEmpty
<1>4. CASE stack' = stack
  BY <1>1, <1>2, <1>4, ChainKept
<1>5. ASSUME InEnable, Head(stack).jobs # <<>>, stack' = Advanced PROVE Chained'
  BY <1>1, <1>2, <1>5, ChainAdvanced, ChainKept
<1>6. ASSUME NEW p, NEW t, AddLink(p, t, Advanced), InEnable, Head(stack).jobs # <<>> PROVE Chained'
  BY <1>3, <1>5, <1>6 DEF AddLink, Abort
<1>7. ASSUME NEW s \in Seq(Frame), NEW e, ChainOf(s, e), NEW n \in Names, NEW g \in Frame,
             stack' = <<g>> \o s, Enablable(n), g.unit = FileOf(n), Items(g.jobs) = Asked(n),
             s # <<>> => n \in Values(e[1], "Also") /\ g.caller = FileOf(e[1]) /\ n # s[1].caller
      PROVE  Chained'
  <2>1. PICK k : ChainOf(<<g>> \o s, k)
    BY <1>7, ChainJoin
  <2>2. QED BY <1>1, <1>7, <2>1, ChainKept
<1>8. ASSUME NEW n \in Names, Call(n, NoCaller, <<>>) PROVE Chained'
  <2>1. CASE stack' = <<>>
    BY <1>3, <2>1
  <2>2. CASE RegularIn(links, FileOf(n)) /\ ~NoInstance(FirstIn(links, FileOf(n)), n)
             /\ stack' = <<NewFrame(n, NoCaller)>> \o <<>>
    <3> DEFINE g == NewFrame(n, NoCaller)
    <3>1. Enablable(n) /\ g \in Frame /\ Items(g.jobs) = Asked(n) /\ g.unit = FileOf(n)
      BY <1>1, <2>2, NewCall DEF Serves
    <3>2. PICK e : ChainOf(<<>>, e)
      BY EmptyChain
    <3>3. <<>> \in Seq(Frame)
      BY EmptySeq
    <3> HIDE DEF g
    <3>4. QED BY <1>7, <2>2, <3>1, <3>2, <3>3 DEF g
  <2>3. QED BY <1>8, <2>1, <2>2 DEF Call, Abort
<1>9. CASE AlsoStep
  <2> DEFINE f == Head(stack)
             m == TopJob.name
             g == NewFrame(m, f.unit)
  <2>1. InEnable /\ f.jobs # <<>> /\ TopJob.do = "also"
    BY <1>9 DEF AlsoStep, Doing
  <2>2. /\ ChainOf(Advanced, c) /\ TopJob \in Asked(c[1]) /\ TopJob \in Job
        /\ Advanced \in Seq(Frame) /\ f \in Frame /\ Advanced # <<>>
        /\ f.unit = FileOf(c[1]) /\ c[1] \in Names /\ Enablable(c[1])
    <3>1. stack \in Seq(Frame) /\ stack # <<>> /\ f = stack[1] /\ 1 \in 1..Len(stack)
      BY <2>1 DEF TypeOK, InEnable
    <3>2. f.unit = FileOf(c[1]) /\ c[1] \in Names /\ Enablable(c[1])
      BY <1>2, <3>1 DEF ChainOf
    <3>3. Len(Advanced) = Len(stack) /\ Advanced \in Seq(Frame)
      BY <1>2, <2>1, TopFrame, ChainAdvanced
    <3>4. Advanced # <<>>
      BY <3>1, <3>3
    <3>5. QED BY <1>2, <2>1, <3>2, <3>3, <3>4, TopFrame, ChainAdvanced
  <2>3. Advanced[1].caller = f.caller
    <3>1. [f EXCEPT !.jobs = Tail(@)].caller = f.caller
      BY <2>2 DEF Frame
    <3>2. Tail(stack) \in Seq(Frame)
      BY <2>1, TopFrame
    <3>3. Advanced[1] = [f EXCEPT !.jobs = Tail(@)]
      BY <3>2 DEF Advanced
    <3>4. QED BY <3>1, <3>3
  <2>4. m \in Values(c[1], "Also") /\ m \in Names /\ f.unit \in Names
    BY <2>1, <2>2, AskedJobs, FileOfName DEF KeyOfJob, Job
  <2>5. CASE stack' = <<>>
    BY <1>3, <2>5
  <2>6. CASE stack' = Advanced
    BY <1>5, <2>1, <2>6
  <2>7. CASE f.caller # m /\ RegularIn(links, FileOf(m)) /\ ~NoInstance(FirstIn(links, FileOf(m)), m)
             /\ stack' = <<g>> \o Advanced
    <3>1. Enablable(m) /\ g \in Frame /\ Items(g.jobs) = Asked(m) /\ g.unit = FileOf(m)
          /\ g.caller = f.unit
      BY <1>1, <2>4, <2>7, NewCall DEF Serves
    <3>2. PICK s : s = Advanced
      OBVIOUS
    <3>3. PICK h : h = g
      OBVIOUS
    <3>4. PICK n : n = m
      OBVIOUS
    <3> HIDE DEF f, g, m
    <3>5. QED BY <1>7, <2>2, <2>3, <2>4, <2>7, <3>1, <3>2, <3>3, <3>4
  <2>8. QED BY <1>9, <2>5, <2>6, <2>7 DEF AlsoStep, Call, Abort
<1>10. CASE DepStep \/ AliasStep
  <2>1. InEnable /\ Head(stack).jobs # <<>>
    BY <1>10 DEF DepStep, AliasStep, Doing
  <2>2. QED BY <1>5, <1>6, <1>10, <2>1 DEF DepStep, AliasStep
<1>11. CASE EnableNext
  <2>1. Head(args) \in Names
    BY <1>11 DEF EnableNext, TypeOK
  <2>2. QED BY <1>8, <1>11, <2>1 DEF EnableNext
<1>12. ASSUME NEW n \in Names, PresetNext(n) PROVE Chained'
  BY <1>4, <1>8, <1>12 DEF PresetNext
<1>13. CASE Return
  <2>1. stack \in Seq(Frame) /\ stack # <<>> /\ stack' = Tail(stack)
    BY <1>13 DEF Return, InEnable, TypeOK
  <2>2. PICK e : ChainOf(Tail(stack), e)
    BY <1>2, <2>1, ChainTail
  <2>3. QED BY <1>1, <2>1, <2>2, ChainKept
<1>14. CASE MaskNext
  BY <1>3, <1>14 DEF MaskNext, AddLink, Abort
<1>15. CASE Killed \/ \E r \in Requests : Start(r)
  BY <1>3, <1>15 DEF Killed, Abort, Start
<1>16. CASE Finish \/ UNCHANGED vars
  BY <1>4, <1>16 DEF Finish, vars
<1>17. QED BY <1>9, <1>10, <1>11, <1>12, <1>13, <1>14, <1>15, <1>16 DEF Next, Step

LEMMA UnitsFinite == IsFiniteSet(DOMAIN ValuesOf("Also"))
<1>1. IsFiniteSet(Instances \cup {Plain, Bare})
  <2>1. IsFiniteSet({Plain}) /\ IsFiniteSet({Bare})
    BY FS_Singleton
  <2>2. IsFiniteSet({Plain} \cup {Bare})
    BY <2>1, FS_Union
  <2>3. {Plain} \cup {Bare} = {Plain, Bare}
    OBVIOUS
  <2>4. IsFiniteSet(Instances \cup ({Plain} \cup {Bare}))
    BY <2>2, NamesAssumption, FS_Union
  <2>5. QED BY <2>3, <2>4
<1>2. IsFiniteSet(Names)
  BY <1>1, NamesAssumption, FS_Product DEF Names
<1>3. DOMAIN ValuesOf("Also") \in SUBSET Names
  BY DEF ValuesOf
<1>4. QED BY <1>2, <1>3, FS_Subset

(* A call that finds the interpreter's stack full ends a long chain. *)
LEMMA FullStackTangles ==
  ASSUME Chained, TypeOK, image.shipped \subseteq links, AlsoStep,
         status' = "recursion",
         MaxDepth >= 2 * Cardinality({n \in Names : Enablable(n)})
  PROVE  Tangled(ValuesOf("Also"))
<1> DEFINE k == Len(stack)
           m == TopJob.name
           also == ValuesOf("Also")
<1>1. PICK c : ChainOf(stack, c)
  BY DEF Chained
<1>2. /\ InEnable /\ stack \in Seq(Frame) /\ Head(stack).jobs # <<>> /\ TopJob.do = "also"
      /\ Head(stack) = stack[1] /\ 1 \in 1..k /\ k \in Nat /\ status # "recursion"
  BY DEF AlsoStep, Doing, InEnable, TypeOK
<1>3. TopJob \in Asked(c[1]) /\ Len(Advanced) = k
  BY <1>1, <1>2, ChainAdvanced
<1>4. Head(stack).caller # m /\ RegularIn(links, FileOf(m)) /\ k >= MaxDepth
  BY <1>2, <1>3 DEF AlsoStep, Call, Abort
<1>5. c[1] \in Names /\ Enablable(c[1]) /\ stack[1].unit = FileOf(c[1])
  BY <1>1, <1>2 DEF ChainOf
<1>6. m \in Values(c[1], "Also") /\ m \in Names /\ Enablable(m)
  <2>1. m \in Values(c[1], "Also") /\ m \in Names
    BY <1>2, <1>3, <1>5, AskedJobs, TopFrame DEF KeyOfJob, Job
  <2>2. QED BY <1>4, <2>1, RegularBefore DEF Enablable
<1>7. DOMAIN also = {n \in Names : Enablable(n)}
      /\ \A n \in Names : Enablable(n) => also[n] = Values(n, "Also")
  BY DEF ValuesOf
<1>8. k >= 2 * Cardinality(DOMAIN also)
  <2>1. Cardinality(DOMAIN also) \in Nat
    BY UnitsFinite, FS_CardinalityType
  <2>2. QED BY <1>2, <1>4, <1>7, <2>1, BoundsAssumption
<1>9. PICK q : q = [i \in 0..k |-> IF i = 0 THEN m ELSE c[i]]
  OBVIOUS
<1>10. PICK d : d = [i \in 0..k |-> IF i = 0 THEN stack[1].unit ELSE stack[i].caller]
  OBVIOUS
<1>11. \A i \in 1..k : c[i] \in Names /\ Enablable(c[i])
  BY <1>1 DEF ChainOf
<1> HIDE DEF also, m, k
<1>12. q \in [0..k -> DOMAIN also]
  BY <1>2, <1>6, <1>7, <1>9, <1>11
<1>13. ASSUME NEW i \in 0..(k - 1)
       PROVE  q[i] \in also[q[i + 1]] /\ d[i] = FileOf(q[i + 1]) /\ q[i] # d[i + 1]
  <2>1. CASE i = 0
    <3>1. q[i] = m /\ q[i + 1] = c[1] /\ d[i] = stack[1].unit /\ d[i + 1] = stack[1].caller
      BY <1>2, <1>9, <1>10, <2>1
    <3>2. QED BY <1>2, <1>4, <1>5, <1>6, <1>7, <3>1
  <2>2. CASE i # 0
    <3>1. i \in 1..(k - 1) /\ i + 1 \in 1..k /\ i \in 1..k
      BY <1>2, <2>2
    <3>2. q[i] = c[i] /\ q[i + 1] = c[i + 1] /\ d[i] = stack[i].caller
          /\ d[i + 1] = stack[i + 1].caller
      BY <1>9, <1>10, <3>1
    <3>3. QED BY <1>1, <1>7, <1>11, <3>1, <3>2 DEF ChainOf, k
  <2>3. QED BY <2>1, <2>2
<1>14. IsFiniteSet(DOMAIN also)
  BY UnitsFinite DEF also
<1>15. Tangled(also)
  <2>1. \A i \in 0..(k - 1) :
          q[i] \in also[q[i + 1]] /\ d[i] = FileOf(q[i + 1]) /\ q[i] # d[i + 1]
    BY <1>13
  <2>2. k \in Nat /\ k >= 2 * Cardinality(DOMAIN also)
    BY <1>2, <1>8
  <2>3. QED BY <1>12, <1>14, <2>1, <2>2, LongChainTangles, ZenonT(40)
<1>16. QED BY <1>15 DEF also

LEMMA RecursionNext ==
  ASSUME TypeOK, Facts, Chained, AcyclicAlsoTerminates, [Next]_vars
  PROVE  AcyclicAlsoTerminates'
<1>1. id' = id /\ image.shipped \subseteq links
  BY StepGrows DEF Facts
<1>2. \A n : (Enablable(n)' <=> Enablable(n)) /\ Values(n, "Also")' = Values(n, "Also")
  BY <1>1, ImageKept, NamesKept
<1>3. ValuesOf("Also")' = ValuesOf("Also")
  BY <1>2 DEF ValuesOf
<1>4. {n \in Names : Enablable(n)}' = {n \in Names : Enablable(n)}
  BY <1>2
<1>5. Tangled(ValuesOf("Also"))' <=> Tangled(ValuesOf("Also"))
  BY <1>3 DEF Tangled
<1> SUFFICES ASSUME status' = "recursion",
                    MaxDepth >= 2 * Cardinality({n \in Names : Enablable(n)})
             PROVE  Tangled(ValuesOf("Also"))
  BY <1>4, <1>5 DEF AcyclicAlsoTerminates
<1>6. CASE status = "recursion"
  BY <1>6 DEF AcyclicAlsoTerminates
<1>7. CASE status # "recursion"
  <2>1. ASSUME NEW n, NEW caller, Call(n, caller, <<>>) PROVE FALSE
    <3>1. ~(Len(<<>>) >= MaxDepth)
      <4>1. PICK empty : empty = <<>>
        OBVIOUS
      <4>2. Len(empty) = 0
        BY <4>1
      <4>3. QED BY <4>1, <4>2, BoundsAssumption
    <3>2. QED BY <1>7, <2>1, <3>1 DEF Call, Abort
  <2>2. AlsoStep
    BY <1>7, <2>1 DEF Next, Step, MaskNext, EnableNext, PresetNext, DepStep, AliasStep, AddLink,
                      Abort, Return, Finish, Killed, Start, vars
  <2>3. QED BY <1>1, <2>2, FullStackTangles
<1>8. QED BY <1>6, <1>7

(* Also= lists without a cycle never exhaust a stack that holds two calls  *)
(* for each unit: a run that does has gone round a cycle, for images of    *)
(* any size, any requests and any depth from there on.                     *)
THEOREM AlsoTerminates == Spec => []AcyclicAlsoTerminates
<1>1. Init => Chained /\ AcyclicAlsoTerminates
  BY EmptyChain DEF Init, Chained, AcyclicAlsoTerminates
<1>2. PresetInv => TypeOK /\ Facts
  BY DEF PresetInv
<1>3. PresetInv /\ Chained /\ AcyclicAlsoTerminates /\ [Next]_vars
        => (Chained /\ AcyclicAlsoTerminates)'
  BY <1>2, ChainedNext, RecursionNext
<1>4. QED BY <1>1, <1>3, PresetInductive, PTL DEF Spec
=============================================================================
