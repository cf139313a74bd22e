------------------------------ MODULE Systemctl ------------------------------
(***************************************************************************)
(* The offline systemctl that populates /etc/systemd/system while an image *)
(* is built (meta-oe/recipes-devtools/systemd/systemd-systemctl).  It has  *)
(* no daemon to ask: it reads unit files and presets below --root and      *)
(* writes symbolic links.                                                  *)
(*                                                                         *)
(* A unit name is <<base, instance>>: <<"foo", Plain>> is foo.service,     *)
(* <<"foo", Bare>> the template foo@.service, <<"foo", i>> foo@i.service.  *)
(* Symbolic links in /etc/systemd/system are the records of `links'; a     *)
(* link sits `at' a path <<directory kind, dependent, name>> and points    *)
(* `to' <<location, unit file>> or DevNull.  One `enable' call is a frame  *)
(* of `stack', head on top, because Also= calls enable recursively.        *)
(***************************************************************************)
EXTENDS Naturals, Sequences, FiniteSets

CONSTANTS Bases,      \* base names of units and targets
          Instances,  \* instance names
          Images,     \* root file systems: a function from ids to images
          PresetNames, \* names of preset files: numbers, in sorting order
          Requests,   \* command lines: <<command, list of unit names>>
          MaxDepth,   \* BOUND: the interpreter's recursion limit
          MaxCmds     \* BOUND: how many commands run on one root

Plain == "plain"
Bare  == "bare"
Names == Bases \X (Instances \cup {Plain, Bare})

Locs == {"etc", "lib", "usr"}
Rank == [etc |-> 1, lib |-> 2, usr |-> 3]
Blank == "blank"    \* an assignment with an empty value: the key exists, no value

Install == [WantedBy : Seq(Names), RequiredBy : Seq(Names), Also : Seq(Names),
            Alias : Seq(Names), DefaultInstance : Seq(Instances \cup {Blank})]
Directive == [action : {"enable", "disable", "unparsed"}, names : SUBSET Names]
Path == {"system", "wants", "requires"} \X Names \X Names
DevNull == <<"dev", "null">>
Target == (Locs \X Names) \cup {DevNull}
Link == [at : Path, to : Target]

(* What a root file system holds when the first command runs.  `entry' is  *)
(* what system/<name> is in each location, `install' the [Install] section *)
(* of that file, `dropin' the merged <name>.d/*.conf of the location,      *)
(* `presets' the preset files by name; `shipped' are links already in /etc *)
Image == [usrmerge : BOOLEAN,
          entry    : [Locs -> [Names -> {"none", "file", "link"}]],
          install  : [Locs -> [Names -> Install]],
          dropin   : [Locs -> [Names -> Install]],
          presets  : [Locs -> [PresetNames -> [exists : BOOLEAN, lines : Seq(Directive)]]],
          shipped  : SUBSET Link]

ASSUME NamesAssumption == IsFiniteSet(Bases) /\ IsFiniteSet(Instances)
ASSUME InstancesAssumption == Instances \cap {Plain, Bare, Blank} = {}
ASSUME ImagesAssumption == \A i \in DOMAIN Images : Images[i] \in Image
ASSUME RequestsAssumption ==
    Requests \subseteq ({"enable", "mask"} \X Seq(Names)) \cup {<<"preset-all", <<>>>>}
ASSUME BoundsAssumption ==
    MaxDepth \in Nat \ {0} /\ MaxCmds \in Nat /\ PresetNames \subseteq Nat

VARIABLES id,         \* which image the command works on
          links,      \* symbolic links in /etc/systemd/system and below
          machineId,  \* whether preset-all has created /etc/machine-id
          cmd,        \* the command running or last run
          status,     \* "running", or how the last command ended
          args,       \* unit names of the command line not processed yet
          services,   \* units preset-all has not processed yet
          stack,      \* active calls of SystemdUnit.enable, innermost first
          ran,        \* number of commands started
          settled     \* history: preset-all succeeded, no other command since

vars == <<id, links, machineId, cmd, status, args, services, stack, ran, settled>>

image == Images[id]

-----------------------------------------------------------------------------
(* Names, files and configuration *)

Templated(n) == n[2] # Plain
FileOf(n)    == IF Templated(n) THEN <<n[1], Bare>> ELSE n
Top(n)       == <<"system", n, n>>

LinkedIn(ls, p) == \E l \in ls : l.at = p
Linked(p)       == LinkedIn(links, p)

(* The search path: /etc/systemd, /lib/systemd unless /lib is a symlink, /usr/lib/systemd *)
Locations == IF image.usrmerge THEN {"etc", "usr"} ELSE Locs

MutantEntryIn(ls, l, n) == image.entry[l][n]
EntryIn(ls, l, n) ==
    IF l = "etc" /\ LinkedIn(ls, Top(n)) THEN "link" ELSE image.entry[l][n]
FoundIn(ls, n) == {l \in Locations : EntryIn(ls, l, n) # "none"}
FirstIn(ls, n) == CHOOSE l \in FoundIn(ls, n) : \A m \in FoundIn(ls, n) : Rank[l] <= Rank[m]

(* A unit file is enabled from only when the first entry found is a file,  *)
(* not an alias or a mask.                                                 *)
RegularIn(ls, n) == FoundIn(ls, n) # {} /\ EntryIn(ls, FirstIn(ls, n), n) = "file"

(* SystemdFile: the unit file, then the drop-ins of every location; lists  *)
(* accumulate, an empty assignment does not reset them.                    *)
DropIn(l, n, key) == IF l \in Locations THEN image.dropin[l][n][key] ELSE <<>>
Config(l, n, key) == image.install[l][n][key] \o DropIn("etc", n, key)
                       \o DropIn("lib", n, key) \o DropIn("usr", n, key)

DefaultKey(l, n)    == Config(l, n, "DefaultInstance") # <<>>
DefaultValues(l, n) == {i \in 1..Len(Config(l, n, "DefaultInstance")) :
                          Config(l, n, "DefaultInstance")[i] # Blank}
MutantDefaultInstance(l, n) == Config(l, n, "DefaultInstance")[1]
DefaultInstance(l, n) ==
    Config(l, n, "DefaultInstance")[CHOOSE i \in DefaultValues(l, n) :
                                       \A j \in DefaultValues(l, n) : i <= j]

(* The name a unit is linked as: a bare template takes its DefaultInstance; *)
(* an IndexError when the key is there without a value.                    *)
ServiceOf(l, n) ==
    IF n[2] = Bare /\ DefaultKey(l, FileOf(n))
    THEN <<n[1], DefaultInstance(l, FileOf(n))>> ELSE n
NoInstance(l, n) == n[2] = Bare /\ DefaultKey(l, FileOf(n)) /\ DefaultValues(l, FileOf(n)) = {}
TemplateOnly(l, n) == n[2] = Bare /\ ~DefaultKey(l, FileOf(n))

-----------------------------------------------------------------------------
(* Presets: of files with one name the one in the earliest location counts, *)
(* files apply in name order, the first directive that matches decides.     *)

HavePreset(f) == {l \in Locations : image.presets[l][f].exists}
PresetLines(f) ==
    image.presets[CHOOSE l \in HavePreset(f) :
                    \A m \in HavePreset(f) : Rank[l] <= Rank[m]][f].lines
PresetFiles == {f \in PresetNames : HavePreset(f) # {}}
Unparsed == \E f \in PresetFiles : \E j \in DOMAIN PresetLines(f) :
                PresetLines(f)[j].action = "unparsed"
Matching(n) == {p \in UNION {{f} \X DOMAIN PresetLines(f) : f \in PresetFiles} :
                  n \in PresetLines(p[1])[p[2]].names}
Earlier(p, q) == p[1] < q[1] \/ (p[1] = q[1] /\ p[2] <= q[2])
PresetState(n) ==
    IF Matching(n) = {} THEN "none"
    ELSE LET p == CHOOSE p \in Matching(n) : \A q \in Matching(n) : Earlier(p, q)
         IN  PresetLines(p[1])[p[2]].action

(* collect_services: every name that is not a directory, links included *)
Collected == {n \in Names : FoundIn(links, n) # {}}

-----------------------------------------------------------------------------
NoCaller == <<>>
JobsOf(what, ns) == [i \in 1..Len(ns) |-> [do |-> what, name |-> ns[i]]]

(* The rest of an enable call, in the order of its loops *)
Jobs(l, n) == JobsOf("wants", Config(l, n, "WantedBy"))
                \o JobsOf("requires", Config(l, n, "RequiredBy"))
                \o JobsOf("also", Config(l, n, "Also"))
                \o JobsOf("alias", Config(l, n, "Alias"))

NewFrame(n, caller) ==
    LET l == FirstIn(links, FileOf(n))
    IN  [unit |-> FileOf(n), caller |-> caller, service |-> ServiceOf(l, n),
         loc |-> l, templateOnly |-> TemplateOnly(l, n), jobs |-> Jobs(l, FileOf(n))]

Abort(how) == status' = how /\ stack' = <<>>

(* SystemdUnit(root, n).enable(caller) up to its first link; `below' is    *)
(* the stack under the new frame.                                          *)
Call(n, caller, below) ==
    LET noInstance == NoInstance(FirstIn(links, FileOf(n)), n)
    IN  /\ UNCHANGED links
        /\ \/ FoundIn(links, FileOf(n)) = {} /\ Abort("exit")
           \/ /\ FoundIn(links, FileOf(n)) # {} /\ ~RegularIn(links, FileOf(n))
              /\ stack' = below /\ UNCHANGED status
           \/ RegularIn(links, FileOf(n)) /\ noInstance /\ Abort("index")
           \/ /\ RegularIn(links, FileOf(n)) /\ ~noInstance /\ Len(below) >= MaxDepth
              /\ Abort("recursion")
           \/ /\ RegularIn(links, FileOf(n)) /\ ~noInstance /\ Len(below) < MaxDepth
              /\ stack' = <<NewFrame(n, caller)>> \o below /\ UNCHANGED status

(* A regular file an administrator put in /etc/systemd/system *)
FileAt(p) == p[1] = "system" /\ image.entry["etc"][p[3]] = "file"

MutantAddLinkReplaces(p, t, after) ==
    /\ links' = {l \in links : l.at # p} \cup {[at |-> p, to |-> t]}
    /\ stack' = after /\ UNCHANGED status

(* add_link: nothing when the path is a link already, whatever it points to *)
AddLink(p, t, after) ==
    \/ Linked(p) /\ stack' = after /\ UNCHANGED <<links, status>>
    \/ ~Linked(p) /\ FileAt(p) /\ Abort("exists") /\ UNCHANGED links
    \/ /\ ~Linked(p) /\ ~FileAt(p)
       /\ links' = links \cup {[at |-> p, to |-> t]}
       /\ stack' = after /\ UNCHANGED status

-----------------------------------------------------------------------------
Running(c) == status = "running" /\ cmd = c
InEnable   == status = "running" /\ stack # <<>>
TopJob     == Head(Head(stack).jobs)
Advanced   == <<[Head(stack) EXCEPT !.jobs = Tail(@)]>> \o Tail(stack)
Doing(what) == InEnable /\ Head(stack).jobs # <<>> /\ TopJob.do = what

Init ==
    /\ id \in DOMAIN Images
    /\ links = image.shipped
    /\ machineId = FALSE /\ cmd = "none" /\ status = "ok"
    /\ args = <<>> /\ services = {} /\ stack = <<>> /\ ran = 0 /\ settled = FALSE

MutantStart(r) ==
    /\ status # "running" /\ ran < MaxCmds
    /\ cmd' = r[1] /\ args' = r[2] /\ ran' = ran + 1 /\ stack' = <<>>
    /\ services' = IF r[1] = "preset-all" THEN Collected ELSE {}
    /\ status' = IF r[1] = "preset-all" /\ Unparsed THEN "exit" ELSE "running"
    /\ settled' = (settled /\ r[1] = "preset-all")
    /\ machineId' = (machineId \/ r[1] = "preset-all") /\ UNCHANGED <<id, links>>

(* main: a command starts; preset-all reads the presets and collects the   *)
(* units before it enables the first one.                                  *)
Start(r) ==
    /\ status # "running" /\ ran < MaxCmds
    /\ cmd' = r[1] /\ args' = r[2] /\ ran' = ran + 1 /\ stack' = <<>>
    /\ services' = IF r[1] = "preset-all" THEN Collected ELSE {}
    /\ status' = IF r[1] = "preset-all" /\ Unparsed THEN "exit" ELSE "running"
    /\ settled' = (settled /\ r[1] = "preset-all")
    /\ UNCHANGED <<id, links, machineId>>

MaskNext ==
    /\ Running("mask") /\ args # <<>>
    /\ AddLink(Top(Head(args)), DevNull, <<>>)
    /\ args' = Tail(args)
    /\ UNCHANGED <<id, machineId, cmd, services, ran, settled>>

EnableNext ==
    /\ Running("enable") /\ stack = <<>> /\ args # <<>>
    /\ Call(Head(args), NoCaller, <<>>)
    /\ args' = Tail(args)
    /\ UNCHANGED <<id, machineId, cmd, services, ran, settled>>

MutantPresetNext(n) ==
    /\ Running("preset-all") /\ stack = <<>> /\ n \in services
    /\ \/ PresetState(n) # "disable" /\ Call(n, NoCaller, <<>>)
       \/ PresetState(n) = "disable" /\ UNCHANGED <<links, stack, status>>
    /\ UNCHANGED <<id, machineId, cmd, args, services, ran, settled>>

(* preset_all iterates over a Python set: any order.  No directive means   *)
(* enable.                                                                 *)
PresetNext(n) ==
    /\ Running("preset-all") /\ stack = <<>> /\ n \in services
    /\ \/ PresetState(n) # "disable" /\ Call(n, NoCaller, <<>>)
       \/ PresetState(n) = "disable" /\ UNCHANGED <<links, stack, status>>
    /\ services' = services \ {n}
    /\ UNCHANGED <<id, machineId, cmd, args, ran, settled>>

MutantDepStep ==
    /\ Doing("wants") \/ Doing("requires")
    /\ LET f == Head(stack)
       IN  AddLink(<<TopJob.do, TopJob.name, f.service>>, <<f.loc, f.unit>>, Advanced)
    /\ UNCHANGED <<id, machineId, cmd, args, services, ran, settled>>

(* _process_deps: one WantedBy= or RequiredBy= entry.  A template without  *)
(* an instance is linked below templates only.                             *)
DepStep ==
    /\ Doing("wants") \/ Doing("requires")
    /\ LET f == Head(stack)
       IN  \/ /\ f.templateOnly /\ ~Templated(TopJob.name)
              /\ stack' = Advanced /\ UNCHANGED <<links, status>>
           \/ /\ ~(f.templateOnly /\ ~Templated(TopJob.name))
              /\ AddLink(<<TopJob.do, TopJob.name, f.service>>, <<f.loc, f.unit>>, Advanced)
    /\ UNCHANGED <<id, machineId, cmd, args, services, ran, settled>>

MutantAlsoStepNoGuard ==
    /\ Doing("also")
    /\ Call(TopJob.name, Head(stack).unit, Advanced)
    /\ UNCHANGED <<id, machineId, cmd, args, services, ran, settled>>

(* One Also= entry: enabled recursively unless it is the caller itself *)
AlsoStep ==
    /\ Doing("also")
    /\ \/ /\ Head(stack).caller = TopJob.name
          /\ stack' = Advanced /\ UNCHANGED <<links, status>>
       \/ /\ Head(stack).caller # TopJob.name
          /\ Call(TopJob.name, Head(stack).unit, Advanced)
    /\ UNCHANGED <<id, machineId, cmd, args, services, ran, settled>>

AliasStep ==
    /\ Doing("alias")
    /\ AddLink(Top(TopJob.name), <<Head(stack).loc, Head(stack).unit>>, Advanced)
    /\ UNCHANGED <<id, machineId, cmd, args, services, ran, settled>>

Return ==
    /\ InEnable /\ Head(stack).jobs = <<>>
    /\ stack' = Tail(stack)
    /\ UNCHANGED <<id, links, machineId, cmd, status, args, services, ran, settled>>

(* The command is done; preset-all touches /etc/machine-id last. *)
Finish ==
    /\ status = "running" /\ stack = <<>> /\ args = <<>> /\ services = {}
    /\ status' = "ok"
    /\ machineId' = (machineId \/ cmd = "preset-all")
    /\ settled' = (settled \/ cmd = "preset-all")
    /\ UNCHANGED <<id, links, cmd, args, services, stack, ran>>

(* The build is interrupted between two links. *)
Killed ==
    /\ status = "running" /\ Abort("killed")
    /\ UNCHANGED <<id, links, machineId, cmd, args, services, ran, settled>>

Step == \/ MaskNext \/ EnableNext \/ (\E n \in Names : PresetNext(n))
        \/ DepStep \/ AlsoStep \/ AliasStep \/ Return \/ Finish

Next == Step \/ Killed \/ (\E r \in Requests : Start(r))

Spec == Init /\ [][Next]_vars

(* A command that runs keeps running: nothing but a kill stops it midway.  *)
FairSpec == Spec /\ WF_vars(Step)

-----------------------------------------------------------------------------
(* Type invariant *)
Job   == [do : {"wants", "requires", "also", "alias"}, name : Names]
Frame == [unit : Names, caller : Names \cup {NoCaller}, service : Names, loc : Locs,
          templateOnly : BOOLEAN, jobs : Seq(Job)]
TypeOK ==
    /\ id \in DOMAIN Images
    /\ links \subseteq Link
    /\ machineId \in BOOLEAN /\ settled \in BOOLEAN
    /\ cmd \in {"none", "enable", "mask", "preset-all"}
    /\ status \in {"running", "ok", "exit", "index", "exists", "recursion", "killed"}
    /\ args \in Seq(Names) /\ services \subseteq Names
    /\ stack \in Seq(Frame) /\ ran \in Nat

Listed(l, n, key, m) == \E i \in 1..Len(Config(l, n, key)) : Config(l, n, key)[i] = m
KeyOf(dir) == CASE dir = "wants" -> "WantedBy" [] dir = "requires" -> "RequiredBy"

Justified(l) ==
    LET dir == l.at[1]   dep == l.at[2]   service == l.at[3]   loc == l.to[1]   unit == l.to[2]
    IN  IF dir = "system" THEN l.to = DevNull \/ Listed(loc, unit, "Alias", service)
        ELSE /\ l.to # DevNull
             /\ Listed(loc, unit, KeyOf(dir), dep)
             /\ FileOf(service) = unit
             /\ service[2] = Bare => Templated(dep)

(* Every link the tool made is owed to the [Install] section (drop-ins     *)
(* included) of the unit file it points to, after any sequence of commands, *)
(* failures and kills; a template with no instance is never linked below a *)
(* plain unit, where systemd could not resolve the instance.               *)
LinksJustified == \A l \in links \ image.shipped : Justified(l)

(* A path once linked keeps its target and a new link never lands on one   *)
(* that exists: commands run in any order never redirect one another.      *)
FirstLinkWins == [][links \subseteq links' /\ \A l \in links' \ links : ~Linked(l.at)]_vars

(* Once a unit file is masked no later command, Also= recursion or preset  *)
(* makes a link to it, although enable never looks at /dev/null as such.   *)
Masked(n) == [at |-> Top(n), to |-> DevNull] \in links
MaskFinal == [][\A l \in links' \ links : l.to # DevNull => ~Masked(l.to[2])]_vars

-----------------------------------------------------------------------------
(* What preset-all should produce, as a function of the image alone *)

Base(n)      == FirstIn(image.shipped, FileOf(n))
Enablable(n) == RegularIn(image.shipped, FileOf(n))
Items(s)     == {s[i] : i \in 1..Len(s)}
Values(n, key) == Items(Config(Base(n), FileOf(n), key))
ValuesOf(key)  == [n \in {m \in Names : Enablable(m)} |-> Values(n, key)]

(* What is reached from roots by following also, a function on units: no   *)
(* set that holds the roots and all that its members ask for is without it. *)
Closed(r, roots, also) ==
    LET units == DOMAIN also
    IN  units \cap roots \subseteq r /\ \A n \in r : also[n] \cap units \subseteq r
Closure(roots, also) ==
    {n \in DOMAIN also : \A r \in SUBSET DOMAIN also : n \in r \/ ~Closed(r, roots, also)}
Roots   == {n \in Names : FoundIn(image.shipped, n) # {} /\ PresetState(n) # "disable"}
Reached == Closure(Roots, ValuesOf("Also"))

DepLinks(dir, n, to, service) ==
    {[at |-> <<dir, d, service>>, to |-> to] :
       d \in {e \in Values(n, KeyOf(dir)) : TemplateOnly(to[1], n) => Templated(e)}}
AliasLinks(n, to) == {[at |-> Top(a), to |-> to] : a \in Values(n, "Alias")}
LinksOf(n, to, service) ==
    DepLinks("wants", n, to, service) \cup DepLinks("requires", n, to, service)
      \cup AliasLinks(n, to)
Expected == UNION {LinksOf(n, <<Base(n), FileOf(n)>>, ServiceOf(Base(n), n)) : n \in Reached}

(* No alias that a unit file asks for is a name that would itself be       *)
(* enabled: an instance of a template that is there, unless it is there too. *)
AliasesExist ==
    \A n \in Names : Enablable(n) =>
       \A a \in Values(n, "Alias") : Enablable(a) => FoundIn(image.shipped, a) # {}

(* No alias carries the name of another unit file, of an instance of one   *)
(* or of another unit's alias.                                             *)
Disjoint(aliases) ==
    \A m \in DOMAIN aliases : \A a \in aliases[m] :
       /\ FoundIn(image.shipped, a) = {} /\ ~Enablable(a)
       /\ \A n \in DOMAIN aliases : a \in aliases[n] => FileOf(n) = FileOf(m)

(* A unit that asks for the template whose instance asked for it asks for  *)
(* its caller, and is ignored: the presets must enable such a template.    *)
Untwisted ==
    \A n \in {k \in Names : k # FileOf(k) /\ Enablable(k)} : \A m \in Values(n, "Also") :
       Enablable(m) /\ FileOf(n) \in Values(m, "Also") /\ n \in Reached => FileOf(n) \in Roots

(* The image calls for one set of links: nothing in it competes for a path, *)
(* and /etc came with nothing but masks.                                   *)
Collisionless ==
    /\ \A l \in image.shipped : \E n \in Names : l = [at |-> Top(n), to |-> DevNull]
    /\ Disjoint(ValuesOf("Alias")) /\ Untwisted

PresetsAlone == \A r \in Requests : r[1] = "preset-all"

(* Presets applied again to a root on which they succeeded add nothing, in *)
(* whatever order the two runs take the units and however names collide;   *)
(* only an alias that is an instance's name is a unit more the second time. *)
Idempotent == [][settled => links' = links \/ ~AliasesExist]_vars

(* After presets alone, with interrupted and failed runs before the one    *)
(* that succeeded, the links are exactly those the image calls for: no     *)
(* iteration order shows, nothing half done stays undone.                  *)
PresetExact ==
    settled /\ PresetsAlone /\ Collisionless => links = image.shipped \cup Expected

(* /etc/machine-id tells systemd that the links were populated: while it   *)
(* exists none of them is missing, whatever was interrupted or failed.     *)
MachineIdMeansPopulated ==
    machineId /\ PresetsAlone /\ Collisionless => Expected \subseteq links

(* Also= lists without a cycle never exhaust an interpreter's stack that   *)
(* holds two calls for each unit file and instance (three units in a circle *)
(* do, however deep it is).  A file that names itself is harmless, but not *)
(* a template that names one of its instances: the caller is the template. *)
Tangled(also) ==
    \E tangle \in (SUBSET DOMAIN also) \ {{}} :
       \A n \in tangle : {m \in also[n] : m # n \/ n # FileOf(n)} \cap tangle # {}
AcyclicAlsoTerminates ==
    status = "recursion" /\ MaxDepth >= 2 * Cardinality({n \in Names : Enablable(n)})
      => Tangled(ValuesOf("Also"))

(* What a running command has left: the units not begun, then what each    *)
(* active call has still to do, the outermost call first.                  *)
Left == [d \in 1..(MaxDepth + 1) |->
           IF d = 1 THEN Len(args) + Cardinality(services)
           ELSE IF d <= Len(stack) + 1 THEN 1 + Len(stack[Len(stack) + 2 - d].jobs) ELSE 0]
Lower(v, w) == \E d \in DOMAIN w : v[d] < w[d] /\ \A e \in 1..(d - 1) : v[e] = w[e]

(* Every step of a command ends it or brings it lexicographically nearer   *)
(* to its end, however Also= lists run in circles and presets, masks and   *)
(* links it finds cut its calls short: no line is ever worked on twice by  *)
(* one call, and the depth of the stack bounds what calls ask of others.   *)
CommandsAdvance ==
    [][status = "running" => status' # "running" \/ Lower(Left', Left)]_vars

(* Every command ends, successfully or not. *)
CommandEnds == status = "running" ~> status # "running"
=============================================================================
