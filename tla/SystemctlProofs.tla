--------------------------- MODULE SystemctlProofs ---------------------------
(***************************************************************************)
(* Theorems about the offline systemctl, for every set of images, command  *)
(* lines and bounds.                                                       *)
(***************************************************************************)
EXTENDS Systemctl, TLAPS, WellFoundedInduction, NaturalsInduction

(* A non-empty set of numbers has a least element. *)
LEMMA LeastNat ==
  ASSUME NEW S, S \subseteq Nat, S # {}
  PROVE  \E i \in S : \A j \in S : i <= j
<1>1. IsWellFoundedOn(OpToRel(<, Nat), Nat)
  BY NatLessThanWellFounded
<1>2. PICK i \in S : \A j \in S : ~(<<j, i>> \in OpToRel(<, Nat))
  BY <1>1, WFMin
<1>3. \A j \in S : ~(j < i)
  BY <1>2 DEF OpToRel
<1>4. QED BY <1>3

(* The file of a name is a name. *)
LEMMA FileOfName == \A n \in Names : FileOf(n) \in Names /\ FileOf(FileOf(n)) = FileOf(n)
  BY DEF Names, FileOf, Templated, Plain, Bare

(* Searching the locations finds one of them. *)
LEMMA FirstInType ==
  ASSUME NEW ls, NEW n, FoundIn(ls, n) # {}
  PROVE  FirstIn(ls, n) \in FoundIn(ls, n) /\ FirstIn(ls, n) \in Locs
<1>1. FoundIn(ls, n) \subseteq Locs
  BY DEF FoundIn, Locations, Locs
<1>2. \E l \in FoundIn(ls, n) : \A m \in FoundIn(ls, n) : Rank[l] <= Rank[m]
  <2>1. CASE "etc" \in FoundIn(ls, n)
    BY <1>1, <2>1 DEF Rank, Locs
  <2>2. CASE "etc" \notin FoundIn(ls, n) /\ "lib" \in FoundIn(ls, n)
    BY <1>1, <2>2 DEF Rank, Locs
  <2>3. CASE "etc" \notin FoundIn(ls, n) /\ "lib" \notin FoundIn(ls, n)
    BY <1>1, <2>3 DEF Rank, Locs
  <2>4. QED BY <2>1, <2>2, <2>3
<1>3. QED BY <1>1, <1>2 DEF FirstIn

(* What the merged configuration of a unit file holds. *)
LEMMA ConfigType ==
  ASSUME NEW l \in Locs, NEW n \in Names, id \in DOMAIN Images
  PROVE  /\ \A key \in {"WantedBy", "RequiredBy", "Also", "Alias"} :
               Config(l, n, key) \in Seq(Names)
         /\ Config(l, n, "DefaultInstance") \in Seq(Instances \cup {Blank})
<1>1. image \in Image
  BY ImagesAssumption DEF image
<1>2. image.install[l][n] \in Install /\ \A m \in Locs : image.dropin[m][n] \in Install
  BY <1>1 DEF Image
<1>3. "etc" \in Locs /\ "lib" \in Locs /\ "usr" \in Locs
  BY DEF Locs
<1>4. ASSUME NEW key \in {"WantedBy", "RequiredBy", "Also", "Alias"}
      PROVE  Config(l, n, key) \in Seq(Names)
  <2>1. image.install[l][n][key] \in Seq(Names)
    BY <1>2 DEF Install
  <2>2. ASSUME NEW m \in Locs PROVE DropIn(m, n, key) \in Seq(Names)
    BY <1>2 DEF Install, DropIn
  <2>3. QED BY <1>3, <2>1, <2>2 DEF Config
<1>5. Config(l, n, "DefaultInstance") \in Seq(Instances \cup {Blank})
  <2>1. image.install[l][n]["DefaultInstance"] \in Seq(Instances \cup {Blank})
    BY <1>2 DEF Install
  <2>2. ASSUME NEW m \in Locs
        PROVE  DropIn(m, n, "DefaultInstance") \in Seq(Instances \cup {Blank})
    BY <1>2 DEF Install, DropIn
  <2>3. QED BY <1>3, <2>1, <2>2 DEF Config
<1>6. QED BY <1>4, <1>5

(* The name a unit is linked as is a name of the same unit file; it is a   *)
(* bare template only when the dependents are restricted to templates.     *)
LEMMA ServiceOfType ==
  ASSUME NEW l \in Locs, NEW n \in Names, id \in DOMAIN Images, ~NoInstance(l, n)
  PROVE  /\ ServiceOf(l, n) \in Names
         /\ FileOf(ServiceOf(l, n)) = FileOf(n)
         /\ ServiceOf(l, n)[2] = Bare => TemplateOnly(l, n)
<1>1. CASE n[2] = Bare /\ DefaultKey(l, FileOf(n))
  <2> DEFINE S == DefaultValues(l, FileOf(n))
             c == Config(l, FileOf(n), "DefaultInstance")
  <2>1. c \in Seq(Instances \cup {Blank})
    BY ConfigType, FileOfName
  <2>2. S \subseteq Nat /\ S # {}
    BY <1>1, <2>1 DEF NoInstance, DefaultValues
  <2>3. (CHOOSE i \in S : \A j \in S : i <= j) \in S
    BY <2>2, LeastNat
  <2>4. \A i \in S : c[i] \in Instances
    BY <2>1 DEF DefaultValues
  <2>5. DefaultInstance(l, FileOf(n)) \in Instances
    BY <2>3, <2>4 DEF DefaultInstance
  <2>6. ServiceOf(l, n) = <<n[1], DefaultInstance(l, FileOf(n))>>
    BY <1>1 DEF ServiceOf
  <2>7. QED BY <1>1, <2>5, <2>6, InstancesAssumption DEF Names, FileOf, Templated, Plain, Bare
<1>2. CASE ~(n[2] = Bare /\ DefaultKey(l, FileOf(n)))
  BY <1>2 DEF ServiceOf, TemplateOnly
<1>3. QED BY <1>1, <1>2

(* The jobs of a key are jobs about the names it lists. *)
LEMMA JobsOfType ==
  ASSUME NEW ns \in Seq(Names), NEW what \in {"wants", "requires", "also", "alias"}
  PROVE  JobsOf(what, ns) \in Seq(Job)
  BY DEF JobsOf, Job

(* A new frame has the type of a frame. *)
LEMMA NewFrameType ==
  ASSUME id \in DOMAIN Images, NEW n \in Names, NEW caller \in Names \cup {NoCaller},
         RegularIn(links, FileOf(n)), ~NoInstance(FirstIn(links, FileOf(n)), n)
  PROVE  NewFrame(n, caller) \in Frame
<1> DEFINE l == FirstIn(links, FileOf(n))
<1>1. FileOf(n) \in Names
  BY FileOfName
<1>2. l \in Locs
  BY FirstInType DEF RegularIn
<1>3. Jobs(l, FileOf(n)) \in Seq(Job)
  <2>1. \A key \in {"WantedBy", "RequiredBy", "Also", "Alias"} :
           Config(l, FileOf(n), key) \in Seq(Names)
    BY <1>1, <1>2, ConfigType
  <2>2. QED BY <2>1, JobsOfType DEF Jobs
<1>4. ServiceOf(l, n) \in Names
  BY <1>2, ServiceOfType
<1>5. TemplateOnly(l, n) \in BOOLEAN
  BY DEF TemplateOnly
<1>6. QED BY <1>1, <1>2, <1>3, <1>4, <1>5 DEF NewFrame, Frame

(* The empty sequence belongs to every set of sequences. *)
LEMMA EmptySeq == \A S : <<>> \in Seq(S)
  OBVIOUS

(* Head and tail of a non-empty sequence. *)
LEMMA HeadTail ==
  ASSUME NEW S, NEW s \in Seq(S), s # <<>>
  PROVE  Head(s) \in S /\ Tail(s) \in Seq(S)
  OBVIOUS

Statuses == {"running", "ok", "exit", "index", "exists", "recursion", "killed"}

(* A command that is aborted leaves an empty stack. *)
LEMMA AbortType ==
  ASSUME NEW how \in Statuses, Abort(how)
  PROVE  stack' \in Seq(Frame) /\ status' \in Statuses
  BY EmptySeq DEF Abort

(* One recursive call leaves a well-typed stack and adds no link. *)
LEMMA CallType ==
  ASSUME TypeOK, NEW n \in Names, NEW caller \in Names \cup {NoCaller},
         NEW below \in Seq(Frame), Call(n, caller, below)
  PROVE  stack' \in Seq(Frame) /\ status' \in Statuses /\ links' = links
<1>1. CASE Abort("exit") \/ Abort("index") \/ Abort("recursion")
  <2>1. "exit" \in Statuses /\ "index" \in Statuses /\ "recursion" \in Statuses
    BY DEF Statuses
  <2>2. stack' \in Seq(Frame) /\ status' \in Statuses
    BY <1>1, <2>1, AbortType
  <2>3. QED BY <2>2 DEF Call
<1>2. CASE stack' = below /\ UNCHANGED status
  BY <1>2 DEF Call, TypeOK, Statuses
<1>3. CASE /\ RegularIn(links, FileOf(n)) /\ ~NoInstance(FirstIn(links, FileOf(n)), n)
           /\ stack' = <<NewFrame(n, caller)>> \o below /\ UNCHANGED status
  <2>1. NewFrame(n, caller) \in Frame
    BY <1>3, NewFrameType DEF TypeOK
  <2>2. QED BY <1>3, <2>1 DEF Call, TypeOK, Statuses
<1>4. QED BY <1>1, <1>2, <1>3 DEF Call

(* add_link keeps the link tree and the stack well typed. *)
LEMMA AddLinkType ==
  ASSUME TypeOK, NEW p \in Path, NEW t \in Target, NEW after \in Seq(Frame),
         AddLink(p, t, after)
  PROVE  stack' \in Seq(Frame) /\ status' \in Statuses /\ links' \subseteq Link
<1>1. status \in Statuses /\ links \subseteq Link /\ "exists" \in Statuses
  BY DEF TypeOK, Statuses
<1>2. CASE Abort("exists") /\ UNCHANGED links
  BY <1>1, <1>2, AbortType
<1>3. CASE stack' = after /\ UNCHANGED <<links, status>>
  BY <1>1, <1>3
<1>4. CASE links' = links \cup {[at |-> p, to |-> t]} /\ stack' = after /\ UNCHANGED status
  BY <1>1, <1>4 DEF Link
<1>5. QED BY <1>2, <1>3, <1>4 DEF AddLink

(* What a step that works on the innermost call may rely on. *)
LEMMA TopFrame ==
  ASSUME TypeOK, InEnable
  PROVE  /\ Head(stack) \in Frame /\ Tail(stack) \in Seq(Frame)
         /\ Head(stack).jobs # <<>> => TopJob \in Job /\ Advanced \in Seq(Frame)
<1>1. Head(stack) \in Frame /\ Tail(stack) \in Seq(Frame)
  BY DEF TypeOK, InEnable
<1>2. ASSUME Head(stack).jobs # <<>> PROVE TopJob \in Job /\ Advanced \in Seq(Frame)
  <2>1. Head(stack).jobs \in Seq(Job)
    BY <1>1 DEF Frame
  <2>2. Head(Head(stack).jobs) \in Job /\ Tail(Head(stack).jobs) \in Seq(Job)
    BY <1>2, <2>1
  <2>3. [Head(stack) EXCEPT !.jobs = Tail(@)] \in Frame
    BY <1>1, <2>2 DEF Frame
  <2>4. QED BY <1>1, <2>2, <2>3 DEF TopJob, Advanced
<1>3. QED BY <1>1, <1>2

(* Every variable keeps its type: the recursion never puts a malformed     *)
(* call, name or link on the stack or on disk.                             *)
THEOREM TypeCorrect == Spec => []TypeOK
<1>1. Init => TypeOK
  <2> SUFFICES ASSUME Init PROVE TypeOK OBVIOUS
  <2>1. image.shipped \subseteq Link
    BY ImagesAssumption DEF Init, image, Image
  <2>2. <<>> \in Seq(Names) /\ <<>> \in Seq(Frame)
    BY EmptySeq
  <2>3. QED BY <2>1, <2>2 DEF Init, TypeOK
<1>2. TypeOK /\ [Next]_vars => TypeOK'
  <2> SUFFICES ASSUME TypeOK, [Next]_vars PROVE TypeOK' OBVIOUS
  <2>1. CASE UNCHANGED vars
    BY <2>1 DEF vars, TypeOK
  <2>2. ASSUME NEW r \in Requests, Start(r) PROVE TypeOK'
    <3>1. r[1] \in {"enable", "mask", "preset-all"} /\ r[2] \in Seq(Names)
      <4>1. CASE r \in {"enable", "mask"} \X Seq(Names)
        BY <4>1
      <4>2. CASE r = <<"preset-all", <<>>>>
        BY <4>2, EmptySeq
      <4>3. QED BY <4>1, <4>2, RequestsAssumption
    <3>2. Collected \subseteq Names
      BY DEF Collected
    <3>3. QED BY <2>2, <3>1, <3>2, EmptySeq DEF Start, TypeOK
  <2>3. CASE MaskNext
    <3>1. Head(args) \in Names /\ Tail(args) \in Seq(Names)
      BY <2>3 DEF MaskNext, TypeOK
    <3>2. Top(Head(args)) \in Path /\ DevNull \in Target /\ <<>> \in Seq(Frame)
      BY <3>1 DEF Top, Path, Target
    <3>3. stack' \in Seq(Frame) /\ status' \in Statuses /\ links' \subseteq Link
      BY <2>3, <3>2, AddLinkType DEF MaskNext
    <3>4. QED BY <2>3, <3>1, <3>3 DEF MaskNext, TypeOK, Statuses
  <2>4. CASE EnableNext
    <3>1. Head(args) \in Names /\ Tail(args) \in Seq(Names)
      BY <2>4 DEF EnableNext, TypeOK
    <3>2. stack' \in Seq(Frame) /\ status' \in Statuses /\ links' = links
      BY <2>4, <3>1, CallType, EmptySeq DEF EnableNext
    <3>3. QED BY <2>4, <3>1, <3>2 DEF EnableNext, TypeOK, Statuses
  <2>5. ASSUME NEW n \in Names, PresetNext(n) PROVE TypeOK'
    <3>1. stack' \in Seq(Frame) /\ status' \in Statuses /\ links' = links
      <4>1. CASE Call(n, NoCaller, <<>>)
        BY <4>1, CallType, EmptySeq
      <4>2. CASE UNCHANGED <<links, stack, status>>
        BY <4>2 DEF TypeOK, Statuses
      <4>3. QED BY <2>5, <4>1, <4>2 DEF PresetNext
    <3>2. QED BY <2>5, <3>1 DEF PresetNext, TypeOK, Statuses
  <2>6. CASE DepStep
    <3> DEFINE f == Head(stack)
    <3>1. f \in Frame /\ TopJob \in Job /\ Advanced \in Seq(Frame)
      BY <2>6, TopFrame DEF DepStep, Doing
    <3>2. <<TopJob.do, TopJob.name, f.service>> \in Path /\ <<f.loc, f.unit>> \in Target
      BY <2>6, <3>1 DEF DepStep, Doing, Frame, Job, Path, Target
    <3>3. stack' \in Seq(Frame) /\ status' \in Statuses /\ links' \subseteq Link
      <4>1. CASE stack' = Advanced /\ UNCHANGED <<links, status>>
        BY <3>1, <4>1 DEF TypeOK, Statuses
      <4>2. CASE AddLink(<<TopJob.do, TopJob.name, f.service>>, <<f.loc, f.unit>>, Advanced)
        BY <3>1, <3>2, <4>2, AddLinkType
      <4>3. QED BY <2>6, <4>1, <4>2 DEF DepStep
    <3>4. QED BY <2>6, <3>3 DEF DepStep, TypeOK, Statuses
  <2>7. CASE AlsoStep
    <3>1. Head(stack) \in Frame /\ TopJob \in Job /\ Advanced \in Seq(Frame)
      BY <2>7, TopFrame DEF AlsoStep, Doing
    <3>2. TopJob.name \in Names /\ Head(stack).unit \in Names
      BY <3>1 DEF Frame, Job
    <3>3. stack' \in Seq(Frame) /\ status' \in Statuses /\ links' = links
      <4>1. CASE stack' = Advanced /\ UNCHANGED <<links, status>>
        BY <3>1, <4>1 DEF TypeOK, Statuses
      <4>2. CASE Call(TopJob.name, Head(stack).unit, Advanced)
        BY <3>1, <3>2, <4>2, CallType
      <4>3. QED BY <2>7, <4>1, <4>2 DEF AlsoStep
    <3>4. QED BY <2>7, <3>3 DEF AlsoStep, TypeOK, Statuses
  <2>8. CASE AliasStep
    <3> DEFINE f == Head(stack)
    <3>1. f \in Frame /\ TopJob \in Job /\ Advanced \in Seq(Frame)
      BY <2>8, TopFrame DEF AliasStep, Doing
    <3>2. Top(TopJob.name) \in Path /\ <<f.loc, f.unit>> \in Target
      BY <3>1 DEF Frame, Job, Path, Target, Top
    <3>3. stack' \in Seq(Frame) /\ status' \in Statuses /\ links' \subseteq Link
      BY <2>8, <3>1, <3>2, AddLinkType DEF AliasStep
    <3>4. QED BY <2>8, <3>3 DEF AliasStep, TypeOK, Statuses
  <2>9. CASE Return
    BY <2>9, TopFrame DEF Return, TypeOK
  <2>10. CASE Finish
    BY <2>10 DEF Finish, TypeOK
  <2>11. CASE Killed
    BY <2>11, EmptySeq DEF Killed, Abort, TypeOK
  <2>12. QED BY <2>1, <2>2, <2>3, <2>4, <2>5, <2>6, <2>7, <2>8, <2>9, <2>10, <2>11 DEF Next, Step
<1>3. QED BY <1>1, <1>2, PTL DEF Spec

-----------------------------------------------------------------------------
(* The inductive invariant behind LinksJustified and MaskFinal: every call *)
(* on the stack works for a unit file that is not masked, and each job it  *)
(* has left is a line of that file.                                        *)
GoodJob(l, u) ==
    {j \in Job : /\ j.do = "alias" => Listed(l, u, "Alias", j.name)
                 /\ j.do \in {"wants", "requires"} => Listed(l, u, KeyOf(j.do), j.name)}
GoodFrame ==
    {f \in Frame : /\ FileOf(f.service) = f.unit
                   /\ f.service[2] = Bare => f.templateOnly
                   /\ f.jobs \in Seq(GoodJob(f.loc, f.unit))
                   /\ ~Masked(f.unit)}
CallsGood == stack \in Seq(GoodFrame)
IInv == TypeOK /\ LinksJustified /\ CallsGood

(* A masked unit file is found in /etc as a link: enable returns at once. *)
LEMMA MaskedNotRegular ==
  ASSUME NEW n, Masked(n) PROVE ~RegularIn(links, n)
<1>1. LinkedIn(links, Top(n))
  BY DEF Masked, LinkedIn
<1>2. EntryIn(links, "etc", n) = "link"
  BY <1>1 DEF EntryIn
<1>3. "etc" \in FoundIn(links, n)
  BY <1>2 DEF FoundIn, Locations, Locs
<1>4. FoundIn(links, n) \subseteq Locs
  BY DEF FoundIn, Locations, Locs
<1>5. \A m \in FoundIn(links, n) : Rank["etc"] <= Rank[m]
  BY <1>4 DEF Rank, Locs
<1>6. \A l \in Locs : l # "etc" => ~(Rank[l] <= Rank["etc"])
  BY DEF Rank, Locs
<1>7. FirstIn(links, n) \in FoundIn(links, n)
      /\ \A m \in FoundIn(links, n) : Rank[FirstIn(links, n)] <= Rank[m]
  BY <1>3, <1>5 DEF FirstIn
<1>8. FirstIn(links, n) = "etc"
  BY <1>3, <1>4, <1>6, <1>7
<1>9. QED BY <1>2, <1>8 DEF RegularIn

(* The jobs of a unit file are lines of that file. *)
LEMMA JobsGood ==
  ASSUME id \in DOMAIN Images, NEW l \in Locs, NEW u \in Names
  PROVE  Jobs(l, u) \in Seq(GoodJob(l, u))
<1>1. ASSUME NEW what, NEW key,
             <<what, key>> \in {<<"wants", "WantedBy">>, <<"requires", "RequiredBy">>,
                                <<"also", "Also">>, <<"alias", "Alias">>}
      PROVE  JobsOf(what, Config(l, u, key)) \in Seq(GoodJob(l, u))
  <2> DEFINE c == Config(l, u, key)
  <2>1. c \in Seq(Names)
    BY <1>1, ConfigType
  <2>2. ASSUME NEW i \in 1..Len(c)
        PROVE  [do |-> what, name |-> c[i]] \in GoodJob(l, u)
    <3>1. c[i] \in Names /\ Listed(l, u, key, c[i])
      BY <2>1 DEF Listed
    <3>2. [do |-> what, name |-> c[i]] \in Job
      BY <1>1, <3>1 DEF Job
    <3>3. what \in {"wants", "requires"} => KeyOf(what) = key
      BY <1>1 DEF KeyOf
    <3>4. what = "alias" => key = "Alias"
      BY <1>1
    <3>5. QED BY <3>1, <3>2, <3>3, <3>4 DEF GoodJob
  <2>3. Len(c) \in Nat
    BY <2>1
  <2>4. QED BY <2>2, <2>3 DEF JobsOf
<1>2. /\ JobsOf("wants", Config(l, u, "WantedBy")) \in Seq(GoodJob(l, u))
      /\ JobsOf("requires", Config(l, u, "RequiredBy")) \in Seq(GoodJob(l, u))
      /\ JobsOf("also", Config(l, u, "Also")) \in Seq(GoodJob(l, u))
      /\ JobsOf("alias", Config(l, u, "Alias")) \in Seq(GoodJob(l, u))
  BY <1>1
<1>3. QED BY <1>2 DEF Jobs

(* A call that starts is good: its unit is not masked, its jobs are its    *)
(* file's lines, its service belongs to the file.                          *)
LEMMA NewFrameGood ==
  ASSUME TypeOK, NEW n \in Names, NEW caller \in Names \cup {NoCaller},
         RegularIn(links, FileOf(n)), ~NoInstance(FirstIn(links, FileOf(n)), n)
  PROVE  NewFrame(n, caller) \in GoodFrame
<1> DEFINE l == FirstIn(links, FileOf(n))
           f == NewFrame(n, caller)
<1>1. id \in DOMAIN Images /\ FileOf(n) \in Names /\ l \in Locs
  BY FileOfName, FirstInType DEF TypeOK, RegularIn
<1>2. f \in Frame
  BY <1>1, NewFrameType
<1>3. f.unit = FileOf(n) /\ f.loc = l /\ f.service = ServiceOf(l, n)
      /\ f.templateOnly = TemplateOnly(l, n) /\ f.jobs = Jobs(l, FileOf(n))
  BY DEF NewFrame
<1>4. FileOf(f.service) = f.unit /\ (f.service[2] = Bare => f.templateOnly)
  BY <1>1, <1>3, ServiceOfType
<1>5. f.jobs \in Seq(GoodJob(f.loc, f.unit))
  BY <1>1, <1>3, JobsGood
<1>6. ~Masked(f.unit)
  BY <1>3, MaskedNotRegular
<1>7. QED BY <1>2, <1>4, <1>5, <1>6 DEF GoodFrame

(* A recursive call keeps the stack good. *)
LEMMA CallGood ==
  ASSUME TypeOK, NEW n \in Names, NEW caller \in Names \cup {NoCaller},
         NEW below \in Seq(GoodFrame), Call(n, caller, below)
  PROVE  stack' \in Seq(GoodFrame) /\ links' = links
<1>1. CASE Abort("exit") \/ Abort("index") \/ Abort("recursion")
  BY <1>1, EmptySeq DEF Abort, Call
<1>2. CASE stack' = below
  BY <1>2 DEF Call
<1>3. CASE /\ RegularIn(links, FileOf(n)) /\ ~NoInstance(FirstIn(links, FileOf(n)), n)
           /\ stack' = <<NewFrame(n, caller)>> \o below
  BY <1>3, NewFrameGood DEF Call
<1>4. QED BY <1>1, <1>2, <1>3 DEF Call

(* What a good stack gives the step that works on its innermost call. *)
LEMMA TopGood ==
  ASSUME TypeOK, CallsGood, InEnable
  PROVE  /\ Head(stack) \in GoodFrame /\ Tail(stack) \in Seq(GoodFrame)
         /\ Head(stack).jobs # <<>> =>
              /\ TopJob \in GoodJob(Head(stack).loc, Head(stack).unit)
              /\ Advanced \in Seq(GoodFrame)
<1>1. Head(stack) \in GoodFrame /\ Tail(stack) \in Seq(GoodFrame)
  BY DEF CallsGood, InEnable
<1>2. ASSUME Head(stack).jobs # <<>>
      PROVE  /\ TopJob \in GoodJob(Head(stack).loc, Head(stack).unit)
             /\ Advanced \in Seq(GoodFrame)
  <2> DEFINE f == Head(stack)
             g == [f EXCEPT !.jobs = Tail(@)]
  <2>1. f.jobs \in Seq(GoodJob(f.loc, f.unit)) /\ f \in Frame
    BY <1>1 DEF GoodFrame
  <2>2. Head(f.jobs) \in GoodJob(f.loc, f.unit) /\ Tail(f.jobs) \in Seq(GoodJob(f.loc, f.unit))
    BY <1>2, <2>1, HeadTail
  <2>3. Tail(f.jobs) \in Seq(Job)
    BY <1>2, <2>1 DEF Frame
  <2>4. g \in Frame /\ g.loc = f.loc /\ g.unit = f.unit /\ g.service = f.service
        /\ g.templateOnly = f.templateOnly /\ g.jobs = Tail(f.jobs)
    BY <2>1, <2>3 DEF Frame
  <2>5. g \in GoodFrame
    BY <1>1, <2>2, <2>4 DEF GoodFrame
  <2>6. QED BY <1>1, <2>2, <2>5 DEF TopJob, Advanced
<1>3. QED BY <1>1, <1>2

(* Adding a link that is no mask changes neither masks nor good calls. *)
LEMMA GoodStable ==
  ASSUME id' = id, NEW p, NEW t, t # DevNull,
         links' = links \/ links' = links \cup {[at |-> p, to |-> t]}
  PROVE  /\ \A n : Masked(n)' = Masked(n)
         /\ \A l, u : GoodJob(l, u)' = GoodJob(l, u)
         /\ GoodFrame' = GoodFrame
<1>1. \A l, n, key, m : Listed(l, n, key, m)' = Listed(l, n, key, m)
  BY DEF Listed, Config, DropIn, Locations, image
<1>2. \A n : Masked(n)' = Masked(n)
  BY DEF Masked
<1>3. \A l, u : GoodJob(l, u)' = GoodJob(l, u)
  BY <1>1 DEF GoodJob
<1>4. QED BY <1>2, <1>3 DEF GoodFrame

(* Whether a link is owed depends on the image alone. *)
LEMMA JustifiedStable ==
  ASSUME id' = id PROVE image' = image /\ \A l : Justified(l)' = Justified(l)
<1>1. \A l, n, key, m : Listed(l, n, key, m)' = Listed(l, n, key, m)
  BY DEF Listed, Config, DropIn, Locations, image
<1>2. QED BY <1>1 DEF Justified, image

CallStep == EnableNext \/ (\E n \in Names : PresetNext(n)) \/ DepStep \/ AlsoStep \/ AliasStep

(* A step of the innermost call: it moves on to a good stack and adds at   *)
(* most one link, which is owed to the call's unit file and is no mask.    *)
LEMMA CallStepEffect ==
  ASSUME IInv, CallStep
  PROVE  /\ stack' \in Seq(GoodFrame)
         /\ \/ links' = links
            \/ \E p, t : /\ links' = links \cup {[at |-> p, to |-> t]} /\ ~Linked(p)
                         /\ t # DevNull /\ ~Masked(t[2])
                         /\ Justified([at |-> p, to |-> t])
<1>1. TypeOK /\ CallsGood
  BY DEF IInv
<1>2. CASE EnableNext
  <2>1. Head(args) \in Names
    BY <1>1, <1>2 DEF EnableNext, TypeOK
  <2>2. QED BY <1>1, <1>2, <2>1, CallGood, EmptySeq DEF EnableNext
<1>3. ASSUME NEW n \in Names, PresetNext(n)
      PROVE  stack' \in Seq(GoodFrame) /\ links' = links
  <2>1. CASE Call(n, NoCaller, <<>>)
    BY <1>1, <2>1, CallGood, EmptySeq
  <2>2. CASE UNCHANGED <<links, stack, status>>
    BY <1>1, <2>2 DEF CallsGood
  <2>3. QED BY <1>3, <2>1, <2>2 DEF PresetNext
<1>4. CASE DepStep
  <2> DEFINE f == Head(stack)
             p == <<TopJob.do, TopJob.name, f.service>>
             t == <<f.loc, f.unit>>
  <2>1. f \in GoodFrame /\ TopJob \in GoodJob(f.loc, f.unit) /\ Advanced \in Seq(GoodFrame)
    BY <1>1, <1>4, TopGood DEF DepStep, Doing
  <2>2. TopJob.do \in {"wants", "requires"}
    BY <1>4 DEF DepStep, Doing
  <2>3. t # DevNull /\ ~Masked(t[2])
    BY <2>1 DEF GoodFrame, Frame, Locs, DevNull
  <2>4. ASSUME ~(f.templateOnly /\ ~Templated(TopJob.name))
        PROVE  Justified([at |-> p, to |-> t])
    <3>1. Listed(f.loc, f.unit, KeyOf(TopJob.do), TopJob.name)
      BY <2>1, <2>2 DEF GoodJob
    <3>2. FileOf(f.service) = f.unit /\ (f.service[2] = Bare => Templated(TopJob.name))
      BY <2>1, <2>4 DEF GoodFrame, Frame
    <3>3. TopJob.do # "system"
      BY <2>2
    <3>4. QED BY <2>3, <3>1, <3>2, <3>3 DEF Justified
  <2>5. CASE stack' = Advanced /\ UNCHANGED <<links, status>>
    BY <2>1, <2>5
  <2>6. CASE ~(f.templateOnly /\ ~Templated(TopJob.name)) /\ AddLink(p, t, Advanced)
    <3>1. stack' \in Seq(GoodFrame)
      BY <2>1, <2>6, EmptySeq DEF AddLink, Abort
    <3>2. links' = links \/ (links' = links \cup {[at |-> p, to |-> t]} /\ ~Linked(p))
      BY <2>6 DEF AddLink
    <3>3. QED BY <2>3, <2>4, <2>6, <3>1, <3>2
  <2>7. QED BY <1>4, <2>5, <2>6 DEF DepStep
<1>5. CASE AlsoStep
  <2>1. TopJob \in GoodJob(Head(stack).loc, Head(stack).unit) /\ Advanced \in Seq(GoodFrame)
        /\ Head(stack) \in GoodFrame
    BY <1>1, <1>5, TopGood DEF AlsoStep, Doing
  <2>2. TopJob.name \in Names /\ Head(stack).unit \in Names
    BY <2>1 DEF GoodJob, Job, GoodFrame, Frame
  <2>3. CASE stack' = Advanced /\ UNCHANGED <<links, status>>
    BY <2>1, <2>3
  <2>4. CASE Call(TopJob.name, Head(stack).unit, Advanced)
    BY <1>1, <2>1, <2>2, <2>4, CallGood
  <2>5. QED BY <1>5, <2>3, <2>4 DEF AlsoStep
<1>6. CASE AliasStep
  <2> DEFINE f == Head(stack)
             p == Top(TopJob.name)
             t == <<f.loc, f.unit>>
  <2>1. f \in GoodFrame /\ TopJob \in GoodJob(f.loc, f.unit) /\ Advanced \in Seq(GoodFrame)
    BY <1>1, <1>6, TopGood DEF AliasStep, Doing
  <2>2. t # DevNull /\ ~Masked(t[2])
    BY <2>1 DEF GoodFrame, Frame, Locs, DevNull
  <2>3. Listed(f.loc, f.unit, "Alias", TopJob.name)
    BY <1>6, <2>1 DEF AliasStep, Doing, GoodJob
  <2>4. Justified([at |-> p, to |-> t])
    BY <2>3 DEF Justified, Top
  <2>5. stack' \in Seq(GoodFrame)
    BY <1>6, <2>1, EmptySeq DEF AliasStep, AddLink, Abort
  <2>6. links' = links \/ (links' = links \cup {[at |-> p, to |-> t]} /\ ~Linked(p))
    BY <1>6 DEF AliasStep, AddLink
  <2>7. QED BY <2>2, <2>4, <2>5, <2>6
<1>7. QED BY <1>2, <1>3, <1>4, <1>5, <1>6 DEF CallStep

(* The initial state satisfies the inductive invariant. *)
LEMMA IInvInit == ASSUME Init, TypeOK PROVE IInv
  BY EmptySeq DEF Init, IInv, LinksJustified, CallsGood

(* Every step preserves the inductive invariant. *)
LEMMA IInvNext == ASSUME IInv, TypeOK', [Next]_vars PROVE IInv'
<1>1. image' = image /\ id' = id /\ \A l : Justified(l)' = Justified(l)
  <2>1. id' = id
    BY DEF vars, Next, Step, Start, MaskNext, EnableNext, PresetNext, DepStep, AlsoStep,
           AliasStep, Return, Finish, Killed
  <2>2. QED BY <2>1, JustifiedStable
<1>2. ASSUME NEW p, NEW t, t # DevNull, stack' \in Seq(GoodFrame),
             links' = links \/ (links' = links \cup {[at |-> p, to |-> t]}
                                /\ Justified([at |-> p, to |-> t]))
      PROVE  IInv'
  <2>1. GoodFrame' = GoodFrame
    BY <1>1, <1>2, GoodStable
  <2>2. CallsGood'
    BY <1>2, <2>1 DEF CallsGood
  <2>3. LinksJustified'
    BY <1>1, <1>2 DEF IInv, LinksJustified
  <2>4. QED BY <2>2, <2>3 DEF IInv
<1>3. ASSUME stack' \in Seq(GoodFrame), links' = links PROVE IInv'
  <2>1. <<"usr", "usr">> # DevNull
    BY DEF DevNull
  <2>2. QED BY <1>2, <1>3, <2>1
<1>4. CASE CallStep
  BY <1>2, <1>3, <1>4, CallStepEffect
<1>5. CASE MaskNext
  <2> DEFINE l == [at |-> Top(Head(args)), to |-> DevNull]
  <2>1. stack' = <<>>
    BY <1>5 DEF MaskNext, AddLink, Abort
  <2>2. Justified(l)
    BY DEF Justified, Top
  <2>3. links' \subseteq links \cup {l}
    BY <1>5 DEF MaskNext, AddLink
  <2>4. LinksJustified'
    BY <1>1, <2>2, <2>3 DEF IInv, LinksJustified
  <2>5. CallsGood'
    BY <2>1, EmptySeq DEF CallsGood
  <2>6. QED BY <2>4, <2>5 DEF IInv
<1>6. ASSUME NEW r \in Requests, Start(r) PROVE IInv'
  BY <1>3, <1>6, EmptySeq DEF Start
<1>7. CASE Return
  <2>1. TypeOK /\ CallsGood
    BY DEF IInv
  <2>2. QED BY <1>3, <1>7, <2>1, TopGood DEF Return
<1>8. CASE Finish \/ Killed \/ UNCHANGED vars
  BY <1>3, <1>8, EmptySeq DEF Finish, Killed, Abort, vars, IInv, CallsGood
<1>9. QED BY <1>4, <1>5, <1>6, <1>7, <1>8 DEF Next, Step, CallStep

(* The strengthened invariant holds in every state, whatever the images,   *)
(* commands, failures and kills.                                           *)
THEOREM Inductive == Spec => []IInv
<1>1. Init /\ TypeOK => IInv
  BY IInvInit
<1>2. IInv /\ TypeOK' /\ [Next]_vars => IInv'
  BY IInvNext
<1>3. QED BY <1>1, <1>2, TypeCorrect, PTL DEF Spec

(* Every link made by the tool is owed to the [Install] section of the     *)
(* unit file it points to, and no template without an instance is linked   *)
(* below a plain unit, for images of any size and any recursion depth.     *)
THEOREM LinksAreJustified == Spec => []LinksJustified
<1>1. IInv => LinksJustified
  BY DEF IInv
<1>2. QED BY <1>1, Inductive, PTL

(* No step makes a link to a masked unit file. *)
THEOREM MasksAreFinal == Spec => MaskFinal
<1>1. IInv /\ [Next]_vars =>
        [\A l \in links' \ links : l.to # DevNull => ~Masked(l.to[2])]_vars
  <2> SUFFICES ASSUME IInv, Next
               PROVE  \A l \in links' \ links : l.to # DevNull => ~Masked(l.to[2])
    OBVIOUS
  <2>1. CASE CallStep
    <3>1. CASE links' = links
      BY <3>1
    <3>2. ASSUME NEW p, NEW t, links' = links \cup {[at |-> p, to |-> t]}, ~Linked(p),
                 t # DevNull, ~Masked(t[2])
          PROVE  \A l \in links' \ links : l.to # DevNull => ~Masked(l.to[2])
      BY <3>2
    <3>3. QED BY <2>1, <3>1, <3>2, CallStepEffect
  <2>2. CASE MaskNext
    BY <2>2 DEF MaskNext, AddLink
  <2>3. CASE Return \/ Finish \/ Killed \/ \E r \in Requests : Start(r)
    BY <2>3 DEF Return, Finish, Killed, Start
  <2>4. QED BY <2>1, <2>2, <2>3 DEF Next, Step, CallStep
<1>2. QED BY <1>1, Inductive, PTL DEF MaskFinal, Spec

(* No step removes or redirects a link. *)
THEOREM FirstLinksWin == Spec => FirstLinkWins
<1>1. IInv /\ [Next]_vars =>
        [links \subseteq links' /\ \A l \in links' \ links : ~Linked(l.at)]_vars
  <2> SUFFICES ASSUME IInv, Next
               PROVE  links \subseteq links' /\ \A l \in links' \ links : ~Linked(l.at)
    OBVIOUS
  <2>1. CASE CallStep
    <3>1. CASE links' = links
      BY <3>1
    <3>2. ASSUME NEW p, NEW t, links' = links \cup {[at |-> p, to |-> t]}, ~Linked(p),
                 t # DevNull, ~Masked(t[2])
          PROVE  links \subseteq links' /\ \A l \in links' \ links : ~Linked(l.at)
      BY <3>2
    <3>3. QED BY <2>1, <3>1, <3>2, CallStepEffect
  <2>2. CASE MaskNext
    BY <2>2 DEF MaskNext, AddLink
  <2>3. CASE Return \/ Finish \/ Killed \/ \E r \in Requests : Start(r)
    BY <2>3 DEF Return, Finish, Killed, Start
  <2>4. QED BY <2>1, <2>2, <2>3 DEF Next, Step, CallStep
<1>2. QED BY <1>1, Inductive, PTL DEF FirstLinkWins, Spec
=============================================================================
