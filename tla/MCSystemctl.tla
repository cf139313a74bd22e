----------------------------- MODULE MCSystemctl -----------------------------
(***************************************************************************)
(* Root file systems for the offline systemctl.  An image is described by  *)
(* sets of facts: <<location, name, kind>> for entries and <<location,     *)
(* name, key, values>> for the keys of unit files and drop-ins.            *)
(***************************************************************************)
EXTENDS Systemctl

P(b) == <<b, Plain>>
T(b) == <<b, Bare>>
I(b) == <<b, "1">>

Keys == {"WantedBy", "RequiredBy", "Also", "Alias", "DefaultInstance"}
The(S, default) == IF S = {} THEN default ELSE CHOOSE x \in S : TRUE
Stated(facts, l, n) ==
    [key \in Keys |-> The({f[4] : f \in {g \in facts : g[1] = l /\ g[2] = n /\ g[3] = key}}, <<>>)]

Root(merged, entries, conf, dropins, presets, shipped) ==
    [merged |-> merged, entries |-> entries, conf |-> conf, dropins |-> dropins,
     presets |-> presets, shipped |-> shipped]

NoFile == [exists |-> FALSE, lines |-> <<>>]
File(lines) == [exists |-> TRUE, lines |-> lines]
NoPresets == [l \in Locs |-> <<NoFile, NoFile>>]
PresetsIn(loc, lines) == [NoPresets EXCEPT ![loc] = <<File(lines), NoFile>>]
Dir(action, ns) == [action |-> action, names |-> ns]
MaskOf(n) == [at |-> Top(n), to |-> DevNull]

(* The choice that image number i makes among the alternatives of s, when  *)
(* the choices before it have `stride' combinations.                       *)
Pick(s, i, stride) == s[(((i - 1) \div stride) % Len(s)) + 1]

PresetOnly == {<<"preset-all", <<>>>>}

(* Three plain services: every Also= graph over these lists (chains, pairs, *)
(* self references, 3-cycles), with and without presets that disable two.  *)
AlsoLists == <<<<>>, <<P("a")>>, <<P("b")>>, <<P("c")>>, <<P("b"), P("a")>>>>
AlsoPresets == <<NoPresets, PresetsIn("etc", <<Dir("disable", {P("b"), P("c")})>>)>>
AlsoRoots ==
  [i \in 1..250 |->
     Root(TRUE, {<<"usr", P(u), "file">> : u \in {"a", "b", "c"}},
       {<<"usr", P(u), "WantedBy", <<P("t")>>>> : u \in {"a", "b", "c"}}
         \cup {<<"usr", P("a"), "Also", Pick(AlsoLists, i, 1)>>,
               <<"usr", P("b"), "Also", Pick(AlsoLists, i, 5)>>,
               <<"usr", P("c"), "Also", Pick(AlsoLists, i, 25)>>},
       {}, Pick(AlsoPresets, i, 125), {})]

(* Aliases that meet: the name of another unit, of another unit's alias,   *)
(* of a file in /etc, of a shipped mask, or a free name.                   *)
AliasLists == <<<<>>, <<P("b")>>, <<P("c")>>, <<P("d")>>, <<P("d"), P("b")>>>>
AliasRoots ==
  [i \in 1..100 |->
     Root(FALSE,
       {<<"lib", P("a"), "file">>, <<"usr", P("a"), "file">>, <<"usr", P("b"), "file">>}
         \cup (IF Pick(<<TRUE, FALSE>>, i, 25) THEN {<<"etc", P("d"), "file">>} ELSE {<<"lib", P("d"), "link">>}),
       {<<"lib", P("a"), "WantedBy", <<P("t")>>>>, <<"usr", P("a"), "WantedBy", <<P("c")>>>>,
        <<"usr", P("b"), "RequiredBy", <<P("t"), P("a")>>>>,
        <<"lib", P("a"), "Alias", Pick(AliasLists, i, 1)>>,
        <<"usr", P("b"), "Alias", Pick(AliasLists, i, 5)>>},
       {<<"etc", P("a"), "Also", <<P("b")>>>>}, NoPresets,
       IF Pick(<<TRUE, FALSE>>, i, 50) THEN {MaskOf(P("b"))} ELSE {})]
CommandRequests == PresetOnly \cup {<<"mask", <<P("b"), P("c")>>>>, <<"mask", <<P("d")>>>>,
                                  <<"enable", <<P("a")>>>>, <<"enable", <<P("b"), P("c")>>>>, <<"mask", <<T("a")>>>>,
                      <<"mask", <<I("a")>>>>, <<"enable", <<I("a"), T("a")>>>>}

(* Templates: instances, DefaultInstance absent, blank or given by a       *)
(* drop-in, dependents that are plain or templates, an instance that names *)
(* its own template or a missing unit in Also=, preset files that override one another.      *)
Defaults == <<<<>>, <<Blank>>, <<"1">>, <<Blank, "1">>>>
TemplatePresets ==
  <<NoPresets,
   [etc |-> <<NoFile, File(<<Dir("disable", {T("a")})>>)>>,
    lib |-> <<NoFile, File(<<Dir("enable", Names)>>)>>,
    usr |-> <<File(<<Dir("enable", {P("b")})>>), File(<<>>)>>],
   [etc |-> <<NoFile, File(<<>>)>>, lib |-> <<NoFile, NoFile>>,
    usr |-> <<File(<<Dir("enable", {P("b")}), Dir("disable", Names)>>),
              File(<<Dir("unparsed", {})>>)>>],
   PresetsIn("lib", <<Dir("unparsed", {})>>)>>
TemplateAlso == <<<<>>, <<I("a")>>, <<P("b")>>, <<P("d")>>>>
TemplateRoots ==
  [i \in 1..256 |->
     Root(FALSE, {<<"usr", T("a"), "file">>, <<"usr", P("b"), "file">>},
       {<<"usr", T("a"), "WantedBy", <<P("t"), T("t")>>>>, <<"usr", T("a"), "DefaultInstance", Pick(Defaults, i, 1)>>,
        <<"usr", P("b"), "Also", <<T("a")>>>>, <<"usr", T("a"), "Also", Pick(TemplateAlso, i, 16)>>},
       {<<"lib", T("a"), "DefaultInstance", Pick(Defaults, i, 4)>>},
       Pick(TemplatePresets, i, 64), {})]

(* What the properties except: an alias that is an instance of a template, *)
(* an instance that asks for a unit that asks for its disabled template,   *)
(* a link to /dev/null that is no mask.                                    *)
CornerRoots ==
  <<Root(TRUE, {<<"usr", T("a"), "file">>, <<"usr", P("b"), "file">>},
      {<<"usr", T("a"), "WantedBy", <<P("t")>>>>, <<"usr", P("b"), "Alias", <<I("a")>>>>},
      {}, NoPresets, {}),
    Root(TRUE, {<<"usr", T("a"), "file">>, <<"usr", P("b"), "file">>, <<"usr", P("c"), "file">>},
      {<<"usr", T("a"), "WantedBy", <<T("t")>>>>, <<"usr", P("c"), "Also", <<I("a")>>>>,
       <<"usr", T("a"), "Also", <<P("b")>>>>, <<"usr", P("b"), "Also", <<T("a")>>>>},
      {}, PresetsIn("etc", <<Dir("disable", {T("a"), P("b")})>>), {}),
    Root(TRUE, {<<"usr", P("a"), "file">>}, {<<"usr", P("a"), "WantedBy", <<P("t")>>>>}, {},
      NoPresets, {[at |-> <<"wants", P("t"), P("a")>>, to |-> DevNull]})>>

(* The images that the facts describe.  `f' is bound, and the images have  *)
(* a name of their own, for TLC to build each of them once.                *)
RootFacts == AlsoRoots \o AliasRoots \o TemplateRoots \o CornerRoots
RootImages ==
  [i \in 1..609 |-> CHOOSE described \in
     {[usrmerge |-> f.merged,
       entry    |-> [l \in Locs |-> [n \in Names |->
                      The({e[3] : e \in {g \in f.entries : g[1] = l /\ g[2] = n}}, "none")]],
       install  |-> [l \in Locs |-> [n \in Names |-> Stated(f.conf, l, n)]],
       dropin   |-> [l \in Locs |-> [n \in Names |-> Stated(f.dropins, l, n)]],
       presets  |-> f.presets,
       shipped  |-> f.shipped] : f \in {RootFacts[i]}} : TRUE]

AllImages     == RootImages
CommandImages == [i \in 251..478 |-> RootImages[i]]  \* aliases, half of the templates
=============================================================================
