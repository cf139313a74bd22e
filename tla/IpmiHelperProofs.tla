--------------------------- MODULE IpmiHelperProofs ---------------------------
(***************************************************************************)
(* Theorems about openipmi-helper, for every set of configurations and     *)
(* command lines.                                                          *)
(***************************************************************************)
EXTENDS IpmiHelper, SequenceTheorems, TLAPS

(* The instructions that unload modules; those of stop; those stop goes    *)
(* through when it has found no feature loaded.                            *)
UnloadInstr == ({"rm"} \X Modules) \cup ({"stop_feature"} \X Features)
StopInstr == {<<"rm", "devintf">>, <<"rm", "imb">>, <<"rm_node", None>>,
              <<"if_no_features", None>>, <<"stopped", None>>}
LateInstr == StopInstr \cup UnloadInstr

(* While stop has instructions left that unload features, none is loaded.  *)
StopInv ==
    cmd = "stop" => \/ prog \in Seq(StopInstr)
                    \/ prog \in Seq(LateInstr) /\ loaded \cap Features = {}

(* The program of stop consists of its own instructions. *)
LEMMA StopProgram == Program("stop") \in Seq(StopInstr)
<1>1. \A m \in {"devintf", "imb"} : Rm(m) \in Seq(StopInstr)
  BY DEF Rm, StopInstr
<1>2. RmInterfaces \in Seq(StopInstr)
  BY <1>1 DEF RmInterfaces
<1>3. <<<<"rm_node", None>>, <<"if_no_features", None>>>> \in Seq(StopInstr)
        /\ <<<<"stopped", None>>>> \in Seq(StopInstr)
  BY DEF StopInstr
<1>4. Program("stop") = UnloadLeaveFeatures \o <<<<"stopped", None>>>>
  BY DEF Program
<1>5. UnloadLeaveFeatures \in Seq(StopInstr)
  BY <1>2, <1>3 DEF UnloadLeaveFeatures
<1>6. ASSUME NEW s \in Seq(StopInstr), NEW t \in Seq(StopInstr) PROVE s \o t \in Seq(StopInstr)
  OBVIOUS
<1>7. QED BY <1>3, <1>4, <1>5, <1>6

(* What stop adds when no feature is loaded, and the other stops start with. *)
LEMMA LateProgram == StopFeatures \o RmModules \in Seq(UnloadInstr)
<1>1. \A m \in Modules : Rm(m) \in Seq(UnloadInstr)
  BY DEF Rm, UnloadInstr
<1>2. {"devintf", "imb", "watchdog", "poweroff", "si", "smb", Base} \subseteq Modules
  BY DEF Modules, Interfaces, Features, Hardware
<1>3. RmModules \in Seq(UnloadInstr)
  BY <1>1, <1>2 DEF RmModules, RmInterfaces
<1>4. StopFeatures \in Seq(UnloadInstr)
  BY DEF StopFeatures, UnloadInstr, Features
<1>5. QED BY <1>3, <1>4

(* Unloading a module adds none, and takes away only that one or the last  *)
(* user of the base together with the base.                                *)
LEMMA UnloadedModules ==
  ASSUME NEW m
  PROVE  Unloaded(m) \subseteq loaded /\ loaded \ {m, Base} \subseteq Unloaded(m)
  BY DEF Unloaded

(* A step of the script while stop runs: its first instruction is one of   *)
(* stop's, so features stay and what is left is a program of stop.         *)
LEMMA StopStep ==
  ASSUME StopInv, cmd = "stop", prog # <<>>, Step
  PROVE  StopInv' /\ loaded \cap Features \subseteq loaded'
<1> DEFINE h == Head(prog)
           Rest(p) == prog' = p \o Tail(prog) /\ UNCHANGED cmd
<1>1. prog \in Seq(LateInstr) /\ h \in LateInstr /\ Tail(prog) \in Seq(LateInstr)
  <2>1. Seq(StopInstr) \subseteq Seq(LateInstr)
    BY DEF LateInstr
  <2>2. QED BY <2>1 DEF StopInv
<1>2. \/ /\ h \in StopInstr /\ Tail(prog) \in Seq(StopInstr)
      \/ loaded \cap Features = {}
  BY DEF StopInv
<1>3. h[1] \in {"rm", "rm_node", "if_no_features", "stopped", "stop_feature"}
  BY <1>1 DEF LateInstr, StopInstr, UnloadInstr
<1>4. ASSUME loaded' \subseteq loaded, loaded \cap Features \subseteq loaded',
             prog' = Tail(prog), UNCHANGED cmd
      PROVE  StopInv' /\ loaded \cap Features \subseteq loaded'
  <2>1. \/ prog' \in Seq(StopInstr)
        \/ prog' \in Seq(LateInstr) /\ loaded' \cap Features = {}
    <3>1. CASE prog \in Seq(StopInstr)
      BY <1>4, <3>1
    <3>2. CASE prog \notin Seq(StopInstr)
      BY <1>1, <1>4, <3>2 DEF StopInv
    <3>3. QED BY <3>1, <3>2
  <2>2. QED BY <1>4, <2>1 DEF StopInv
<1>5. Skip => prog' = Tail(prog) /\ UNCHANGED cmd
  BY <1>1 DEF Skip, Settle, Then
<1>6. CASE StopFeature \/ Remove
  <2>1. h[1] \in {"stop_feature", "rm"} /\ loaded' = Unloaded(h[2]) /\ Skip
    BY <1>6 DEF StopFeature, Remove, At, Operand
  <2>2. loaded \cap Features \subseteq loaded'
    <3>1. CASE loaded \cap Features = {}
      BY <3>1
    <3>2. CASE h \in StopInstr
      BY <2>1, <3>2, UnloadedModules DEF StopInstr, Features, Base
    <3>3. QED BY <1>2, <3>1, <3>2
  <2>3. QED BY <1>4, <1>5, <2>1, <2>2, UnloadedModules
<1>7. CASE RemoveNode \/ Stopped("stopped", cfg.intf)
  BY <1>4, <1>5, <1>7 DEF RemoveNode, Stopped, Settle
<1>8. CASE IfNoFeatures
  <2>1. loaded' = loaded /\ cmd' = cmd
          /\ prog' = (IF loaded \cap Features = {} THEN StopFeatures \o RmModules ELSE <<>>) \o Tail(prog)
    BY <1>8 DEF IfNoFeatures, Then
  <2>2. CASE loaded \cap Features = {}
    <3>1. StopFeatures \o RmModules \in Seq(LateInstr)
      BY LateProgram, SeqMonotonic DEF LateInstr
    <3>2. QED BY <1>1, <2>1, <2>2, <3>1 DEF StopInv
  <2>3. CASE loaded \cap Features # {}
    BY <1>1, <1>4, <2>1, <2>3
  <2>4. QED BY <2>2, <2>3
<1>9. QED
  BY <1>3, <1>6, <1>7, <1>8 DEF Step, At, LoadBase, LoadHwModule, HwCheck, Bail, LoadDevintf,
     Wait, LoadImb, EndLoad, LoadFeature, Stopped, Reset, Refuse, Status, StatusCommands

(* The environment unloads nothing and adds no instruction. *)
LEMMA EnvironmentStep ==
  ASSUME StopInv, Environment
  PROVE  StopInv' /\ loaded' = loaded
  BY DEF Environment, Udev, Hold, Release, Killed, StopInv

(* StopInv is inductive. *)
LEMMA StopInvNext == StopInv /\ [Next]_vars => StopInv'
<1> SUFFICES ASSUME StopInv, [Next]_vars PROVE StopInv'
  OBVIOUS
<1>1. CASE Step
  <2>1. prog # <<>> /\ cmd' = cmd
    BY <1>1 DEF Step, At, LoadBase, LoadHwModule, HwCheck, Bail, LoadDevintf,
       Wait, LoadImb, EndLoad, LoadFeature, StopFeature, Remove, RemoveNode, IfNoFeatures,
       Stopped, Reset, Refuse, Status, Skip, Settle, Then
  <2>2. CASE cmd = "stop"
    BY <1>1, <2>1, <2>2, StopStep
  <2>3. CASE cmd # "stop"
    BY <2>1, <2>3 DEF StopInv
  <2>4. QED BY <2>2, <2>3
<1>2. CASE Environment
  BY <1>2, EnvironmentStep
<1>3. ASSUME NEW c \in Commands, Run(c) PROVE StopInv'
  BY <1>3, StopProgram DEF Run, StopInv
<1>4. CASE UNCHANGED vars
  BY <1>4 DEF vars, StopInv
<1>5. QED BY <1>1, <1>2, <1>3, <1>4 DEF Next

(* stop never unloads a watchdog or poweroff module, whatever udev and the *)
(* applications do meanwhile.                                              *)
THEOREM FeaturesSurviveStop == Spec => StopLeavesFeatures
<1>1. Init => StopInv
  BY DEF Init, StopInv, None
<1>2. StopInv /\ [Next]_vars =>
        [cmd = "stop" /\ prog # <<>> => loaded \cap Features \subseteq loaded']_vars
  BY StopStep, EnvironmentStep DEF Next, Run
<1>3. QED BY <1>1, <1>2, StopInvNext, PTL DEF Spec, StopLeavesFeatures

-----------------------------------------------------------------------------
(* The inductive invariant.                                                *)
(*                                                                         *)
(* Its first part types the state and states what the kernel guarantees:   *)
(* only configured modules are ever loaded, and none without the base.     *)
TypeInv ==
    /\ cfg \in Config
    /\ loaded \subseteq {m \in Modules : Configured(m)}
    /\ loaded # {} => Base \in loaded
    /\ held \subseteq Modules /\ nodes \subseteq Nodes /\ lock \in BOOLEAN
    /\ cmd \in Commands \cup {None, "killed"}
    /\ retval \subseteq Bits /\ delay \in 0..DevTimeout /\ settled \in BOOLEAN

(* The others say where in its program a command is, and what it has done  *)
(* so far.  S is the program of start; Left(k) what is left of it when its *)
(* k-th instruction is next, so that k serves as a program counter.        *)
S       == StartProg
Left(k) == SubSeq(S, k, Len(S))

BailInstr   == UnloadInstr \cup {<<"rm_node", None>>}
UnwindInstr == BailInstr \cup {<<"stopped_all", None>>}
FeatInstr   == {<<"hw", "si">>, <<"hw", "smb">>} \cup ({"start_feature"} \X cfg.features)
SimpleInstr == FeatInstr \cup ({"stop_feature"} \X Features) \cup {<<"refuse", None>>}
                 \cup (StatusCommands \X {None})

StartInstr  == FeatInstr \cup {<<"base", Base>>, <<"hw_check", None>>, <<"devintf", "devintf">>,
                                <<"wait", None>>, <<"imb", "imb">>, <<"end_load", None>>}
AllInstr    == StopInstr \cup UnwindInstr \cup StartInstr \cup SimpleInstr
                 \cup {<<"bail", None>>, <<"reset", None>>}

(* A configured feature is loaded, or still to come, or its modprobe failed. *)
FeaturesSoFar(k) ==
    \A f \in cfg.features :
      f \in loaded \/ 2 \in retval \/ \E j \in k..Len(S) : S[j] = <<"start_feature", f>>

(* What load_ipmi_modules and the feature starts have achieved before the  *)
(* k-th instruction, when no hardware module is missing.  A failed modprobe *)
(* of an interface is remembered only while a single one is configured.    *)
LoadedSoFar(k) ==
    /\ k >= 2 => Base \in loaded
    /\ k >= 3 /\ "si" \in cfg.hw => "si" \in loaded
    /\ k >= 4 /\ "smb" \in cfg.hw => "smb" \in loaded
    /\ cfg.intf # Interfaces =>
         /\ k >= 6 /\ "devintf" \in cfg.intf => "devintf" \in loaded \/ 2 \in retval
         /\ k >= 8 /\ "imb" \in cfg.intf => "imb" \in loaded \/ 2 \in retval
    /\ k >= 9 => lock = TRUE /\ FeaturesSoFar(k)

(* The node of ipmi_devintf was made, or bit 2 says that it was not. *)
NodeMade(k) ==
    k >= 6 /\ ~cfg.udev /\ "devintf" \in cfg.intf =>
      "devintf" \notin loaded \/ 4 \in retval \/ "ipmi0" \in nodes

(* p is instructions of P, then t. *)
Ends(p, P, t) == \E u \in Seq(P) : p = u \o t

(* start and its like: the unloads of a restart are not over; or the       *)
(* program of start is at its k-th instruction; or it has given up there   *)
(* and unloads, with nothing loaded or bit 0 set.                          *)
Unwinding  == Ends(prog, UnwindInstr, <<<<"reset", None>>>> \o S)
Loading(k) == prog = Left(k) /\ NodeMade(k) /\ (1 \in retval \/ LoadedSoFar(k))
Bailing(k) ==
    /\ Ends(prog, BailInstr, <<<<"bail", None>>>> \o Left(k))
    /\ loaded = {} \/ (k = 5 /\ 1 \in retval)

StartInv ==
    cmd \in {"start", "restart", "condrestart"} =>
      \/ cmd = "condrestart" /\ prog = <<>>
      \/ cmd # "start" /\ Unwinding
      \/ \E k \in 1..(Len(S) + 1) : Loading(k)
      \/ \E k \in {2, 5} : Bailing(k)

(* stop-all: unloading; about to look; done, with all gone or bit 5 set. *)
NodeGone == cfg.udev \/ "devintf" \in loaded \/ "ipmi0" \notin nodes
StopAllInv ==
    cmd = "stop-all" =>
      \/ Ends(prog, UnloadInstr, <<<<"rm_node", None>>, <<"stopped_all", None>>>>)
      \/ prog = <<<<"stopped_all", None>>>> /\ NodeGone
      \/ prog = <<>> /\ (32 \in retval \/ (~lock /\ loaded = {} /\ NodeGone))

(* Every other command consists of steps that neither load the base nor    *)
(* touch the lock.                                                         *)
OtherInv ==
    /\ cmd \in {None, "killed"} => prog = <<>>
    /\ cmd \notin {None, "killed", "stop", "stop-all", "start", "restart", "condrestart"}
         => prog \in Seq(SimpleInstr)

IInv == TypeInv /\ StopInv /\ StartInv /\ StopAllInv /\ OtherInv

-----------------------------------------------------------------------------
(* Programs as sequences *)

(* The elements of a concatenation. *)
IsConcat(r, s, t) ==
    /\ Len(s) \in Nat /\ Len(t) \in Nat /\ Len(r) = Len(s) + Len(t)
    /\ \A i \in 1..Len(s) : r[i] = s[i]
    /\ \A i \in 1..Len(t) : r[Len(s) + i] = t[i]

LEMMA ConcatElements ==
  ASSUME NEW T, NEW s \in Seq(T), NEW t \in Seq(T), NEW r, r = s \o t
  PROVE  r \in Seq(T) /\ IsConcat(r, s, t)
<1>1. /\ r \in Seq(T) /\ Len(r) = Len(s) + Len(t)
      /\ \A i \in 1..Len(s) + Len(t) : r[i] = IF i <= Len(s) THEN s[i] ELSE t[i - Len(s)]
  BY ConcatProperties
<1>2. Len(s) \in Nat /\ Len(t) \in Nat
  OBVIOUS
<1>3. \A i \in 1..Len(s) : r[i] = s[i]
  BY <1>1, <1>2
<1>4. \A i \in 1..Len(t) : r[Len(s) + i] = t[i]
  <2> SUFFICES ASSUME NEW i \in 1..Len(t) PROVE r[Len(s) + i] = t[i]
    OBVIOUS
  <2>1. Len(s) + i \in 1..Len(s) + Len(t) /\ ~(Len(s) + i <= Len(s)) /\ (Len(s) + i) - Len(s) = i
    BY <1>2
  <2>2. QED BY <1>1, <2>1
<1>5. QED BY <1>1, <1>2, <1>3, <1>4 DEF IsConcat

(* Two instructions one after the other. *)
LEMMA ConcatPair ==
  ASSUME NEW a, NEW b, NEW r, r = <<a>> \o <<b>>
  PROVE  r = <<a, b>>
<1> DEFINE T == {a, b}
           s == <<a>>
           t == <<b>>
           q == <<a, b>>
<1>1. s \in Seq(T) /\ t \in Seq(T) /\ q \in Seq(T) /\ r = s \o t
  OBVIOUS
<1>2. /\ Len(s) = 1 /\ Len(t) = 1 /\ Len(q) = 2
      /\ s[1] = a /\ t[1] = b /\ q[1] = a /\ q[2] = b
  OBVIOUS
<1> HIDE DEF T, s, t, q
<1>3. r \in Seq(T) /\ IsConcat(r, s, t)
  BY <1>1, ConcatElements
<1>4. Len(r) = 2 /\ r[1] = a /\ r[1 + 1] = b
  BY <1>2, <1>3 DEF IsConcat
<1>5. \A i \in 1..Len(r) : r[i] = q[i]
  <2>1. r[1] = q[1] /\ r[2] = q[2]
    BY <1>2, <1>4
  <2>2. \A i \in 1..2 : i = 1 \/ i = 2
    OBVIOUS
  <2>3. QED BY <1>4, <2>1, <2>2
<1>6. r = q
  BY <1>1, <1>2, <1>3, <1>4, <1>5, SeqEqual
<1>7. QED BY <1>6 DEF q

(* Executing the first instruction of u \o t leaves a suffix of u, then t. *)
LEMMA PrefixStep ==
  ASSUME NEW P, NEW T, NEW t \in Seq(T), NEW p, Ends(p, P, t)
  PROVE  p = t \/ (Head(p) \in P /\ Ends(Tail(p), P, t))
<1> PICK u \in Seq(P) : p = u \o t
  BY DEF Ends
<1> DEFINE A == P \cup T
<1>1. u \in Seq(A) /\ t \in Seq(A)
  BY SeqMonotonic
<1>2. CASE u = <<>>
  BY <1>1, <1>2, ConcatEmptySeq
<1>3. CASE u # <<>>
  <2>1. Tail(u) \in Seq(P) /\ Head(u) \in P
    BY <1>3, HeadTailProperties
  <2>2. u = <<Head(u)>> \o Tail(u) /\ <<Head(u)>> \in Seq(A) /\ Tail(u) \in Seq(A)
    BY <1>3, <2>1
  <2>3. u \o t = <<Head(u)>> \o (Tail(u) \o t)
    BY <1>1, <2>2, ConcatAssociative
  <2>4. Tail(u) \o t \in Seq(A)
    BY <1>1, <2>2
  <2> HIDE DEF A
  <2>5. Head(p) = Head(u) /\ Tail(p) = Tail(u) \o t
    BY <2>2, <2>3, <2>4
  <2>6. QED BY <2>1, <2>5 DEF Ends
<1>4. QED BY <1>2, <1>3

(* A program with an instruction before it. *)
LEMMA Cons ==
  ASSUME NEW T, NEW x \in T, NEW s \in Seq(T), NEW p, p = <<x>> \o s
  PROVE  p \in Seq(T) /\ p # <<>> /\ Head(p) = x /\ Tail(p) = s
  BY <<x>> \in Seq(T)

LEMMA EndsNonempty ==
  ASSUME NEW P, NEW T, NEW t \in Seq(T), t # <<>>, NEW p, Ends(p, P, t)
  PROVE  p # <<>>
<1> PICK u \in Seq(P) : p = u \o t
  BY DEF Ends
<1> DEFINE A == P \cup T
<1>1. u \in Seq(A) /\ t \in Seq(A)
  BY SeqMonotonic
<1> HIDE DEF A
<1>2. QED BY <1>1, ConcatEqualIffEmpty

(* The suffix of s from its k-th element on, as a program. *)
LEMMA SuffixStep ==
  ASSUME NEW T, NEW s \in Seq(T), NEW k \in 1..(Len(s) + 1)
  PROVE  /\ SubSeq(s, k, Len(s)) \in Seq(T)
         /\ \/ k = Len(s) + 1 /\ SubSeq(s, k, Len(s)) = <<>>
            \/ /\ k \in 1..Len(s) /\ SubSeq(s, k, Len(s)) # <<>>
               /\ Head(SubSeq(s, k, Len(s))) = s[k]
               /\ Tail(SubSeq(s, k, Len(s))) = SubSeq(s, k + 1, Len(s))
<1>0. Len(s) \in Nat /\ \A i \in 1..Len(s) : s[i] \in T
  OBVIOUS
<1>1. SubSeq(s, k, Len(s)) \in Seq(T)
  BY <1>0, SubSeqProperties
<1>2. CASE k = Len(s) + 1
  BY <1>0, <1>1, <1>2, SubSeqEmpty
<1>3. CASE k \in 1..Len(s)
  <2>1. Len(SubSeq(s, k, Len(s))) = Len(s) - k + 1
    BY <1>0, <1>3, SubSeqProperties
  <2>2. Len(s) \in k..Len(s)
    BY <1>0, <1>3
  <2>3. SubSeq(s, k, Len(s)) # <<>>
    <3>1. Len(SubSeq(s, k, Len(s))) # 0
      BY <1>0, <1>3, <2>1
    <3>2. QED BY <3>1, EmptySeq
  <2>4. /\ Head(SubSeq(s, k, Len(s))) = s[k]
        /\ Tail(SubSeq(s, k, Len(s))) = SubSeq(s, k + 1, Len(s))
    BY <1>3, <2>2, HeadTailOfSubSeq
  <2>5. QED BY <1>3, <2>3, <2>4
<1>4. QED BY <1>0, <1>2, <1>3

-----------------------------------------------------------------------------
(* The programs of the commands *)

(* A feature's start is at most the two hardware modules and the feature.  *)
LEMMA FeatureProgram ==
  ASSUME NEW f
  PROVE  /\ StartFeature(f) \in Seq(FeatInstr)
         /\ f \in cfg.features =>
              /\ Len(StartFeature(f)) = 3
              /\ StartFeature(f)[3] = <<"start_feature", f>>
<1>1. CASE f \in cfg.features
  <2>1. StartFeature(f) = LoadHw \o <<<<"start_feature", f>>>>
    BY <1>1 DEF StartFeature
  <2>2. LoadHw \in Seq(FeatInstr) /\ <<<<"start_feature", f>>>> \in Seq(FeatInstr)
    BY <1>1 DEF LoadHw, FeatInstr
  <2>3. Len(LoadHw) = 2 /\ Len(<<<<"start_feature", f>>>>) = 1
    BY DEF LoadHw
  <2> DEFINE P == LoadHw
             F == <<<<"start_feature", f>>>>
  <2>4. F[1] = <<"start_feature", f>> /\ Len(F) = 1 /\ Len(P) = 2
    BY <2>3
  <2>5. StartFeature(f) = P \o F /\ P \in Seq(FeatInstr) /\ F \in Seq(FeatInstr)
    BY <2>1, <2>2
  <2> HIDE DEF P, F
  <2>6. StartFeature(f) \in Seq(FeatInstr) /\ IsConcat(StartFeature(f), P, F)
    BY <2>5, ConcatElements
  <2>7. StartFeature(f)[2 + 1] = F[1] /\ Len(StartFeature(f)) = 3
    BY <2>4, <2>6 DEF IsConcat
  <2>8. QED BY <2>4, <2>6, <2>7
<1>2. CASE f \notin cfg.features
  BY <1>2 DEF StartFeature
<1>3. QED BY <1>1, <1>2

(* load_ipmi_modules is eight instructions. *)
LEMMA LoadProgram ==
  /\ LoadModules \in Seq(StartInstr) /\ Len(LoadModules) = 8
  /\ LoadModules[1] = <<"base", Base>> /\ LoadModules[2] = <<"hw", "si">>
  /\ LoadModules[3] = <<"hw", "smb">> /\ LoadModules[4] = <<"hw_check", None>>
  /\ LoadModules[5] = <<"devintf", "devintf">> /\ LoadModules[6] = <<"wait", None>>
  /\ LoadModules[7] = <<"imb", "imb">> /\ LoadModules[8] = <<"end_load", None>>
<1> DEFINE X == <<<<"base", Base>>>>
           Y == LoadHw
           Z == <<<<"hw_check", None>>, <<"devintf", "devintf">>, <<"wait", None>>,
                  <<"imb", "imb">>, <<"end_load", None>>>>
<1>1. /\ X \in Seq(StartInstr) /\ Len(X) = 1 /\ X[1] = <<"base", Base>>
      /\ Y \in Seq(StartInstr) /\ Len(Y) = 2 /\ Y[1] = <<"hw", "si">> /\ Y[2] = <<"hw", "smb">>
  BY DEF LoadHw, StartInstr, FeatInstr
<1>2. /\ Z \in Seq(StartInstr) /\ Len(Z) = 5
      /\ Z[1] = <<"hw_check", None>> /\ Z[2] = <<"devintf", "devintf">> /\ Z[3] = <<"wait", None>>
      /\ Z[4] = <<"imb", "imb">> /\ Z[5] = <<"end_load", None>>
  BY DEF StartInstr
<1> DEFINE R == X \o Y
<1>3. R = X \o Y /\ LoadModules = R \o Z
  BY DEF LoadModules
<1> HIDE DEF X, Y, Z, R
<1>4. /\ R \in Seq(StartInstr) /\ Len(R) = 3
      /\ R[1] = X[1] /\ R[2] = Y[1] /\ R[3] = Y[2]
  <2>1. R \in Seq(StartInstr) /\ IsConcat(R, X, Y)
    BY <1>1, <1>3, ConcatElements
  <2>2. Len(R) = 3 /\ R[1] = X[1] /\ R[1 + 1] = Y[1] /\ R[1 + 2] = Y[2]
    BY <1>1, <2>1 DEF IsConcat
  <2>3. QED BY <2>1, <2>2
<1>5. LoadModules \in Seq(StartInstr) /\ IsConcat(LoadModules, R, Z)
  BY <1>2, <1>3, <1>4, ConcatElements
<1>6. /\ LoadModules[1] = X[1] /\ LoadModules[2] = Y[1] /\ LoadModules[3] = Y[2]
      /\ LoadModules[3 + 1] = Z[1] /\ LoadModules[3 + 2] = Z[2] /\ LoadModules[3 + 3] = Z[3]
      /\ LoadModules[3 + 4] = Z[4] /\ LoadModules[3 + 5] = Z[5]
  BY <1>2, <1>4, <1>5 DEF IsConcat
<1>7. Len(LoadModules) = 8
  BY <1>2, <1>4, <1>5 DEF IsConcat
<1>8. QED BY <1>1, <1>2, <1>4, <1>5, <1>6, <1>7

(* The program of start: the eight of load_ipmi_modules, then the start of *)
(* every configured feature.                                               *)
LEMMA StartProgram ==
  ASSUME cfg \in Config
  PROVE  /\ S \in Seq(StartInstr) /\ Len(S) \in Nat /\ Len(S) >= 8
         /\ S[1] = <<"base", Base>> /\ S[2] = <<"hw", "si">> /\ S[3] = <<"hw", "smb">>
         /\ S[4] = <<"hw_check", None>> /\ S[5] = <<"devintf", "devintf">>
         /\ S[6] = <<"wait", None>> /\ S[7] = <<"imb", "imb">> /\ S[8] = <<"end_load", None>>
         /\ \A i \in 9..Len(S) : S[i] \in FeatInstr
         /\ \A f \in cfg.features : \E j \in 9..Len(S) : S[j] = <<"start_feature", f>>
<1> DEFINE L == LoadModules
           A == StartFeature("watchdog")
           B == StartFeature("poweroff")
           R == L \o A
<1>1. /\ L \in Seq(StartInstr) /\ Len(L) = 8
      /\ L[1] = <<"base", Base>> /\ L[2] = <<"hw", "si">> /\ L[3] = <<"hw", "smb">>
      /\ L[4] = <<"hw_check", None>> /\ L[5] = <<"devintf", "devintf">>
      /\ L[6] = <<"wait", None>> /\ L[7] = <<"imb", "imb">> /\ L[8] = <<"end_load", None>>
  BY LoadProgram
<1>2. /\ A \in Seq(FeatInstr) /\ B \in Seq(FeatInstr)
      /\ A \in Seq(StartInstr) /\ B \in Seq(StartInstr)
  BY FeatureProgram, SeqMonotonic DEF StartInstr
<1>3. R = L \o A /\ S = R \o B
  BY DEF S, StartProg
<1> HIDE DEF L, A, B, R
<1>4. /\ R \in Seq(StartInstr) /\ Len(R) = 8 + Len(A)
      /\ \A i \in 1..8 : R[i] = L[i]
      /\ \A i \in 1..Len(A) : R[8 + i] = A[i]
  <2>1. R \in Seq(StartInstr) /\ IsConcat(R, L, A)
    BY <1>1, <1>2, <1>3, ConcatElements
  <2>2. QED BY <1>1, <2>1 DEF IsConcat
<1>5. /\ S \in Seq(StartInstr) /\ Len(S) = Len(R) + Len(B)
      /\ \A i \in 1..Len(R) : S[i] = R[i]
      /\ \A i \in 1..Len(B) : S[Len(R) + i] = B[i]
  <2>1. S \in Seq(StartInstr) /\ IsConcat(S, R, B)
    BY <1>2, <1>3, <1>4, ConcatElements
  <2>2. QED BY <2>1 DEF IsConcat
<1>6. Len(A) \in Nat /\ Len(B) \in Nat
  BY <1>2, LenProperties
<1>7. \A i \in 1..8 : S[i] = L[i]
  <2>1. \A i \in 1..8 : i \in 1..Len(R)
    BY <1>4, <1>6
  <2>2. QED BY <1>4, <1>5, <2>1
<1>8. \A i \in 1..Len(A) : S[8 + i] = A[i]
  <2>1. \A i \in 1..Len(A) : 8 + i \in 1..Len(R)
    BY <1>4, <1>6
  <2>2. QED BY <1>4, <1>5, <2>1
<1>9. \A i \in 1..Len(B) : S[8 + Len(A) + i] = B[i]
  BY <1>4, <1>5
<1>10. \A i \in 9..Len(S) : S[i] \in FeatInstr
  <2> SUFFICES ASSUME NEW i \in 9..Len(S) PROVE S[i] \in FeatInstr
    OBVIOUS
  <2>1. CASE i <= 8 + Len(A)
    <3>1. i - 8 \in 1..Len(A) /\ i = 8 + (i - 8) /\ S[i] = A[i - 8]
      BY <1>6, <1>8, <2>1
    <3>2. QED BY <1>2, <3>1, ElementOfSeq
  <2>2. CASE i > 8 + Len(A)
    <3>1. i - (8 + Len(A)) \in 1..Len(B) /\ i = 8 + Len(A) + (i - (8 + Len(A)))
      BY <1>4, <1>5, <1>6, <2>2
    <3>2. S[i] = B[i - (8 + Len(A))]
      BY <1>9, <3>1
    <3>3. QED BY <1>2, <3>1, <3>2, ElementOfSeq
  <2>3. QED BY <1>4, <1>5, <1>6, <2>1, <2>2
<1>11. ASSUME NEW f \in cfg.features PROVE \E j \in 9..Len(S) : S[j] = <<"start_feature", f>>
  <2>1. f \in {"watchdog", "poweroff"}
    BY DEF Config, Features
  <2>2. CASE f = "watchdog"
    <3>1. Len(A) = 3 /\ A[3] = <<"start_feature", f>>
      BY <1>11, <2>2, FeatureProgram DEF A
    <3>2. 11 \in 9..Len(S) /\ S[11] = A[3]
      BY <1>4, <1>5, <1>6, <1>8, <3>1
    <3>3. QED BY <3>1, <3>2
  <2>3. CASE f = "poweroff"
    <3>1. Len(B) = 3 /\ B[3] = <<"start_feature", f>>
      BY <1>11, <2>3, FeatureProgram DEF B
    <3>2. 8 + Len(A) + 3 \in 9..Len(S) /\ S[8 + Len(A) + 3] = B[3]
      BY <1>4, <1>5, <1>6, <1>9, <3>1
    <3>3. QED BY <3>1, <3>2
  <2>4. QED BY <2>1, <2>2, <2>3
<1>12. Len(S) \in Nat /\ Len(S) >= 8
  BY <1>4, <1>5, <1>6
<1>13. /\ S[1] = L[1] /\ S[2] = L[2] /\ S[3] = L[3] /\ S[4] = L[4]
       /\ S[5] = L[5] /\ S[6] = L[6] /\ S[7] = L[7] /\ S[8] = L[8]
  BY <1>7
<1>14. QED BY <1>1, <1>5, <1>10, <1>11, <1>12, <1>13

(* The unloading programs. *)
LEMMA UnloadProgram ==
  /\ UnloadAll \in Seq(BailInstr) /\ StopAllProg \in Seq(UnwindInstr)
  /\ Ends(StopAllProg, UnloadInstr, <<<<"rm_node", None>>, <<"stopped_all", None>>>>)
<1> DEFINE X == StopFeatures \o RmModules
           N == <<<<"rm_node", None>>>>
           E == <<<<"stopped_all", None>>>>
<1>1. X \in Seq(UnloadInstr) /\ X \in Seq(BailInstr)
  BY LateProgram, SeqMonotonic DEF BailInstr
<1>2. N \in Seq(BailInstr) /\ N \in Seq(UnwindInstr) /\ E \in Seq(UnwindInstr)
  BY DEF UnwindInstr, BailInstr
<1>3. UnloadAll = X \o N /\ StopAllProg = UnloadAll \o E
  BY DEF UnloadAll, StopAllProg
<1>5. N \o E = <<<<"rm_node", None>>, <<"stopped_all", None>>>>
  BY ConcatPair
<1> HIDE DEF X, N, E
<1>4. UnloadAll \in Seq(BailInstr) /\ StopAllProg \in Seq(UnwindInstr)
  <2>1. UnloadAll \in Seq(BailInstr)
    BY <1>1, <1>2, <1>3, ConcatProperties
  <2>2. UnloadAll \in Seq(UnwindInstr)
    BY <2>1, SeqMonotonic DEF UnwindInstr
  <2>3. QED BY <1>2, <1>3, <2>1, <2>2, ConcatProperties
<1>6. StopAllProg = X \o (N \o E)
  <2>1. (X \o N) \o E = X \o (N \o E)
    BY <1>1, <1>2, ConcatAssociative
  <2>2. QED BY <1>3, <2>1
<1>7. QED BY <1>1, <1>4, <1>5, <1>6 DEF Ends

(* The commands for one feature, the status commands and usage. *)
LEMMA OtherProgram ==
  ASSUME NEW c \in Commands \ {"stop", "stop-all", "start", "restart", "condrestart"}
  PROVE  Program(c) \in Seq(SimpleInstr)
<1>1. \A f : StartFeature(f) \in Seq(SimpleInstr)
  BY FeatureProgram, SeqMonotonic DEF SimpleInstr
<1>2. CASE c \in StatusCommands
  BY <1>2 DEF Program, SimpleInstr, StatusCommands
<1>3. CASE c \in {"start-watchdog", "stop-watchdog", "start-powercontrol", "stop-powercontrol", "usage"}
  <2>1. /\ <<<<"refuse", None>>>> \in Seq(SimpleInstr)
        /\ <<<<"stop_feature", "watchdog">>>> \in Seq(SimpleInstr)
        /\ <<<<"stop_feature", "poweroff">>>> \in Seq(SimpleInstr)
    BY DEF SimpleInstr, Features
  <2>2. QED BY <1>1, <1>3, <2>1 DEF Program
<1>4. QED BY <1>2, <1>3, CommandsAssumption

-----------------------------------------------------------------------------
(* What a step of the script does, whatever its program *)

(* The first instruction decides which action a step is. *)
First   == Head(prog)[1]
StopAll == Stopped("stopped_all", cfg.intf \cup cfg.features \cup cfg.hw \cup {Base})
StopEnd == Stopped("stopped", cfg.intf)
Asked   == \E c \in StatusCommands : Status(c)

LEMMA StepActions ==
  ASSUME Step
  PROVE  /\ prog # <<>> /\ cfg' = cfg /\ held' = held /\ cmd' = cmd
         /\ First = "base" => LoadBase
         /\ First = "hw" => LoadHwModule
         /\ First = "hw_check" => HwCheck
         /\ First = "bail" => Bail
         /\ First = "devintf" => LoadDevintf
         /\ First = "wait" => Wait
         /\ First = "imb" => LoadImb
         /\ First = "end_load" => EndLoad
         /\ First = "start_feature" => LoadFeature
         /\ First = "stop_feature" => StopFeature
         /\ First = "rm" => Remove
         /\ First = "rm_node" => RemoveNode
         /\ First = "if_no_features" => IfNoFeatures
         /\ First = "stopped" => StopEnd
         /\ First = "stopped_all" => StopAll
         /\ First = "reset" => Reset
         /\ First = "refuse" => Refuse
         /\ First \in StatusCommands => Asked
<1>1. /\ LoadBase => First = "base"
      /\ LoadHwModule => First = "hw"
      /\ HwCheck => First = "hw_check"
      /\ Bail => First = "bail"
      /\ LoadDevintf => First = "devintf"
      /\ Wait => First = "wait"
      /\ LoadImb => First = "imb"
      /\ EndLoad => First = "end_load"
      /\ LoadFeature => First = "start_feature"
      /\ StopFeature => First = "stop_feature"
      /\ Remove => First = "rm"
      /\ RemoveNode => First = "rm_node"
      /\ IfNoFeatures => First = "if_no_features"
      /\ StopEnd => First = "stopped"
      /\ StopAll => First = "stopped_all"
      /\ Reset => First = "reset"
      /\ Refuse => First = "refuse"
  BY DEF First, At, LoadBase, LoadHwModule, HwCheck, Bail, LoadDevintf, Wait, LoadImb, EndLoad, LoadFeature,
     StopFeature, Remove, RemoveNode, IfNoFeatures, Stopped, StopEnd, StopAll, Reset, Refuse
<1>2. Asked => First \in StatusCommands
  BY DEF First, At, Asked, Status
<1>3. prog # <<>> /\ cfg' = cfg /\ held' = held /\ cmd' = cmd
  BY DEF Step, At, LoadBase, LoadHwModule, HwCheck, Bail, LoadDevintf, Wait, LoadImb, EndLoad,
     LoadFeature, StopFeature, Remove, RemoveNode, IfNoFeatures, Stopped, Reset, Refuse, Status,
     Skip, Settle, Then
<1>4. \/ LoadBase \/ LoadHwModule \/ HwCheck \/ Bail \/ LoadDevintf \/ Wait \/ LoadImb
      \/ EndLoad \/ LoadFeature \/ StopFeature \/ Remove \/ RemoveNode \/ IfNoFeatures
      \/ StopEnd \/ StopAll \/ Reset \/ Refuse \/ Asked
  BY DEF Step, StopEnd, StopAll, Asked
<1>5. QED BY <1>1, <1>2, <1>3, <1>4 DEF StatusCommands

(* The configuration fixes the program of start and the features. *)
LEMMA SameConfig ==
  ASSUME cfg' = cfg
  PROVE  /\ S' = S /\ \A k : Left(k)' = Left(k)
         /\ FeatInstr' = FeatInstr /\ SimpleInstr' = SimpleInstr
         /\ \A m : Configured(m)' = Configured(m)
<1>1. S' = S
  BY DEF S, StartProg, StartFeature
<1>2. QED BY <1>1 DEF Left, FeatInstr, SimpleInstr, Configured

(* modprobe only adds, and adds the base with whatever it adds. *)
LEMMA Loads ==
  ASSUME TypeInv, NEW m \in Modules, Configured(m), NEW l, CanLoad(m, l)
  PROVE  /\ loaded \subseteq l /\ l \subseteq {n \in Modules : Configured(n)}
         /\ l # {} => Base \in l
         /\ l \subseteq loaded \cup {m, Base}
         /\ m \in l => Base \in l
<1>1. Base \in {n \in Modules : Configured(n)}
  BY DEF Modules, Configured
<1>2. QED BY <1>1 DEF TypeInv, CanLoad

(* modprobe -r never leaves a module without the base. *)
LEMMA Unloads ==
  ASSUME TypeInv, NEW m
  PROVE  /\ Unloaded(m) \subseteq loaded /\ loaded \ {m, Base} \subseteq Unloaded(m)
         /\ Unloaded(m) # {} => Base \in Unloaded(m)
  BY DEF TypeInv, Unloaded

(* TypeInv is preserved by every step of the script. *)
LEMMA TypeStep ==
  ASSUME TypeInv, Step, Head(prog) \in AllInstr
  PROVE  TypeInv'
<1> DEFINE h == Head(prog)
           Legal == {m \in Modules : Configured(m)}
<1>1. /\ cfg' = cfg /\ held' = held /\ cmd' = cmd /\ Legal' = Legal
      /\ cfg.intf \subseteq Interfaces /\ cfg.features \subseteq Features /\ cfg.hw \subseteq Hardware
  BY StepActions, SameConfig DEF TypeInv, Config
<1> SUFFICES /\ loaded' \subseteq Legal /\ (loaded' # {} => Base \in loaded')
             /\ nodes' \subseteq Nodes /\ lock' \in BOOLEAN
             /\ retval' \subseteq Bits /\ delay' \in 0..DevTimeout
  <2>1. settled' \in BOOLEAN
    BY DEF Step, LoadBase, LoadHwModule, HwCheck, Bail, LoadDevintf, Wait, LoadImb, EndLoad, LoadFeature,
       StopFeature, Remove, RemoveNode, IfNoFeatures, Stopped, Reset, Refuse, Status, Skip, Then, Settle, TypeInv
  <2>2. QED BY <1>1, <2>1 DEF TypeInv
<1>2. UNCHANGED loaded => loaded' \subseteq Legal /\ (loaded' # {} => Base \in loaded')
  BY DEF TypeInv
<1>3. /\ UNCHANGED nodes => nodes' \subseteq Nodes
      /\ UNCHANGED lock => lock' \in BOOLEAN
      /\ UNCHANGED retval => retval' \subseteq Bits
      /\ UNCHANGED delay => delay' \in 0..DevTimeout
  BY DEF TypeInv
<1>4. \A m \in Modules : Configured(m) /\ CanLoad(m, loaded') =>
        loaded' \subseteq Legal /\ (loaded' # {} => Base \in loaded')
  BY Loads
<1>5. \A m : loaded' = Unloaded(m) => loaded' \subseteq Legal /\ (loaded' # {} => Base \in loaded')
  BY Unloads DEF TypeInv
<1>6. \A b \in Bits : retval \cup {b} \subseteq Bits /\ retval \ {b} \subseteq Bits
                        /\ (retval \ {2}) \cup {b} \subseteq Bits
  BY DEF TypeInv
<1>7. \A n \in Nodes : nodes \cup {n} \subseteq Nodes /\ nodes \ {n} \subseteq Nodes
  BY DEF TypeInv
<1>8. /\ Base \in Modules /\ Configured(Base)
      /\ "devintf" \in Modules /\ ("devintf" \in cfg.intf => Configured("devintf"))
      /\ "imb" \in Modules /\ ("imb" \in cfg.intf => Configured("imb"))
      /\ \A m \in cfg.hw \cup cfg.features : m \in Modules /\ Configured(m)
  BY <1>1 DEF Modules, Interfaces, Configured, Base
<1>9. CASE LoadBase
  BY <1>3, <1>4, <1>8, <1>9 DEF LoadBase
<1>10. CASE LoadHwModule
  <2>1. 1 \in Bits
    BY DEF Bits
  <2>2. QED BY <1>2, <1>3, <1>4, <1>6, <1>8, <1>10, <2>1 DEF LoadHwModule
<1>11. CASE HwCheck \/ IfNoFeatures
  BY <1>2, <1>3, <1>11 DEF HwCheck, IfNoFeatures
<1>12. CASE Bail
  <2>1. 1 \in Bits
    BY DEF Bits
  <2>2. QED BY <1>2, <1>3, <1>6, <1>12, <2>1 DEF Bail
<1>13. CASE LoadDevintf
  <2>1. {2, 4} \subseteq Bits /\ "ipmi0" \in Nodes /\ DevTimeout \in 0..DevTimeout
    BY TimeoutAssumption DEF Bits, Nodes
  <2>2. QED BY <1>2, <1>3, <1>4, <1>6, <1>7, <1>8, <1>13, <2>1 DEF LoadDevintf
<1>14. CASE Wait
  <2>1. delay' \in 0..DevTimeout
    BY <1>14, TimeoutAssumption DEF Wait, Waiting, TypeInv
  <2>2. QED BY <1>2, <1>3, <1>14, <2>1 DEF Wait
<1>15. CASE LoadImb
  <2>1. {2, 4} \subseteq Bits /\ "imb" \in Nodes
    BY DEF Bits, Nodes
  <2>2. QED BY <1>2, <1>3, <1>4, <1>6, <1>7, <1>8, <1>15, <2>1 DEF LoadImb
<1>16. CASE EndLoad
  BY <1>2, <1>3, <1>16 DEF EndLoad, TypeInv
<1>17. CASE LoadFeature
  <2>1. h[2] \in cfg.features
    BY <1>17 DEF LoadFeature, At, AllInstr, StopInstr, UnwindInstr, BailInstr, UnloadInstr, StartInstr,
       FeatInstr, SimpleInstr, StatusCommands
  <2>2. {2, 8} \subseteq Bits /\ "watchdog" \in Nodes
    BY DEF Bits, Nodes
  <2>3. QED BY <1>2, <1>3, <1>4, <1>6, <1>7, <1>8, <1>17, <2>1, <2>2 DEF LoadFeature, Operand
<1>18. CASE StopFeature
  <2>1. 32 \in Bits /\ "watchdog" \in Nodes
    BY DEF Bits, Nodes
  <2>2. QED BY <1>3, <1>5, <1>6, <1>7, <1>18, <2>1 DEF StopFeature
<1>19. CASE Remove
  BY <1>3, <1>5, <1>19 DEF Remove
<1>20. CASE RemoveNode
  BY <1>2, <1>3, <1>7, <1>20 DEF RemoveNode, Nodes
<1>21. CASE \E i, ms : Stopped(i, ms)
  <2>1. 32 \in Bits
    BY DEF Bits
  <2>2. QED BY <1>2, <1>3, <1>6, <1>21, <2>1 DEF Stopped
<1>22. CASE Reset
  BY <1>2, <1>3, <1>22 DEF Reset
<1>23. CASE Refuse
  <2>1. 2 \in Bits
    BY DEF Bits
  <2>2. QED BY <1>2, <1>3, <1>6, <1>23, <2>1 DEF Refuse
<1>24. CASE \E c \in StatusCommands : Status(c)
  <2> PICK c \in StatusCommands : Status(c)
    BY <1>24
  <2>1. \A b \in {1, 2, 4, 8, 16} : \A p : Bit(b, p) \subseteq Bits
    BY DEF Bit, Bits
  <2>2. StatusBits(c) \subseteq Bits
    BY <2>1 DEF StatusBits, BaseBits, NodeBits, StatusCommands
  <2>3. retval' \subseteq Bits
    BY <2>2 DEF Status, TypeInv
  <2>4. QED BY <1>2, <1>3, <2>3 DEF Status
<1>25. QED
  BY <1>9, <1>10, <1>11, <1>12, <1>13, <1>14, <1>15, <1>16, <1>17, <1>18, <1>19, <1>20, <1>21,
     <1>22, <1>23, <1>24 DEF Step

-----------------------------------------------------------------------------
(* start and its like *)

(* The invariant puts every instruction that is left among the known ones. *)
LEMMA ProgTyped ==
  ASSUME IInv
  PROVE  prog \in Seq(AllInstr)
<1>1. cfg \in Config
  BY DEF IInv, TypeInv
<1>2. /\ S \in Seq(AllInstr)
      /\ \A k \in 1..(Len(S) + 1) : Left(k) \in Seq(AllInstr)
  <2>1. S \in Seq(StartInstr) /\ Len(S) \in Nat
    BY <1>1, StartProgram
  <2>2. S \in Seq(AllInstr)
    BY <2>1, SeqMonotonic DEF AllInstr
  <2>3. ASSUME NEW k \in 1..(Len(S) + 1) PROVE Left(k) \in Seq(AllInstr)
    BY <2>2, SuffixStep DEF Left
  <2>4. QED BY <2>2, <2>3
<1>3. /\ Seq(UnwindInstr) \subseteq Seq(AllInstr) /\ Seq(UnloadInstr) \subseteq Seq(AllInstr)
      /\ Seq(StopInstr) \subseteq Seq(AllInstr) /\ Seq(LateInstr) \subseteq Seq(AllInstr)
      /\ Seq(SimpleInstr) \subseteq Seq(AllInstr) /\ Seq(BailInstr) \subseteq Seq(AllInstr)
  <2>1. /\ UnwindInstr \subseteq AllInstr /\ UnloadInstr \subseteq AllInstr
        /\ StopInstr \subseteq AllInstr /\ LateInstr \subseteq AllInstr
        /\ SimpleInstr \subseteq AllInstr /\ BailInstr \subseteq AllInstr
    BY DEF AllInstr, UnwindInstr, BailInstr, LateInstr
  <2>2. QED BY <2>1, SeqMonotonic
<1>4. <<<<"reset", None>>>> \in Seq(AllInstr) /\ <<<<"bail", None>>>> \in Seq(AllInstr)
  BY DEF AllInstr
<1>5. /\ <<<<"rm_node", None>>, <<"stopped_all", None>>>> \in Seq(AllInstr)
      /\ <<<<"stopped_all", None>>>> \in Seq(AllInstr) /\ <<>> \in Seq(AllInstr)
  BY DEF AllInstr, UnwindInstr, BailInstr
<1>6. \A u, v \in Seq(AllInstr) : u \o v \in Seq(AllInstr)
  BY ConcatProperties
<1>7. CASE cmd = "stop"
  BY <1>3, <1>7 DEF IInv, StopInv
<1>8. CASE cmd = "stop-all"
  BY <1>3, <1>5, <1>6, <1>8 DEF IInv, StopAllInv, Ends
<1>9. CASE cmd \in {"start", "restart", "condrestart"}
  <2>1. CASE cmd = "condrestart" /\ prog = <<>>
    BY <2>1, <1>5
  <2>2. CASE Unwinding
    BY <1>2, <1>3, <1>4, <1>6, <2>2 DEF Unwinding, Ends
  <2>3. CASE \E k \in 1..(Len(S) + 1) : Loading(k)
    BY <1>2, <2>3 DEF Loading
  <2>4. CASE \E k \in {2, 5} : Bailing(k)
    <3>1. 2 \in 1..(Len(S) + 1) /\ 5 \in 1..(Len(S) + 1)
      BY <1>1, StartProgram
    <3>2. QED BY <1>2, <1>3, <1>4, <1>6, <2>4, <3>1 DEF Bailing, Ends
  <2>5. QED BY <1>9, <2>1, <2>2, <2>3, <2>4 DEF IInv, StartInv
<1>10. CASE cmd \notin {"stop", "stop-all", "start", "restart", "condrestart"}
  BY <1>3, <1>5, <1>10 DEF IInv, OtherInv
<1>11. QED BY <1>7, <1>8, <1>9, <1>10

(* An instruction that adds nothing to the program. *)
LEMMA SkipStep ==
  ASSUME prog \in Seq(AllInstr), prog # <<>>, Then(<<>>)
  PROVE  prog' = Tail(prog)
  BY DEF Then

(* The unloading instructions: they load nothing and clear no bit. *)
LEMMA UnwindStep ==
  ASSUME TypeInv, Step, prog \in Seq(AllInstr), Head(prog) \in UnwindInstr
  PROVE  /\ prog' = Tail(prog) /\ loaded' \subseteq loaded /\ retval \subseteq retval'
         /\ nodes' \subseteq nodes
<1>1. prog # <<>>
  BY StepActions
<1>2. First \in {"rm", "stop_feature", "rm_node", "stopped_all"}
  BY DEF First, UnwindInstr, BailInstr, UnloadInstr
<1>3. Remove \/ StopFeature \/ RemoveNode \/ StopAll
  BY <1>2, StepActions
<1>4. \A m : Unloaded(m) \subseteq loaded
  BY Unloads
<1>5. QED BY <1>1, <1>3, <1>4, SkipStep DEF Remove, StopFeature, RemoveNode, StopAll, Stopped, Skip, Settle

(* return in load_ipmi_modules goes to the lock of start. *)
LEMMA ReturnToLock ==
  ASSUME cfg \in Config, NEW k \in {2, 5}, prog = <<<<"bail", None>>>> \o Left(k)
  PROVE  AfterLoad = Left(8)
<1> DEFINE b == <<<<"bail", None>>>>
           p == Left(k)
           n == Len(S)
<1>1. /\ S \in Seq(AllInstr) /\ n \in Nat /\ n >= 8
      /\ \A i \in 1..n : S[i] = <<"end_load", None>> <=> i = 8
  <2>1. S \in Seq(AllInstr)
    BY StartProgram, SeqMonotonic DEF AllInstr
  <2>2. n \in Nat /\ n >= 8 /\ S[8] = <<"end_load", None>>
    BY StartProgram
  <2>3. \A i \in 9..n : S[i] # <<"end_load", None>>
    BY StartProgram, SMTT(20) DEF FeatInstr
  <2>4. \A i \in {1, 2, 3, 4, 5, 6, 7} : S[i] # <<"end_load", None>>
    BY StartProgram, SMTT(20)
  <2>5. \A i \in 1..n : i \in {1, 2, 3, 4, 5, 6, 7} \/ i = 8 \/ i \in 9..n
    BY <2>2
  <2>6. QED BY <2>1, <2>2, <2>3, <2>4, <2>5
<1>2. k \in 1..n
  BY <1>1
<1> HIDE DEF n
<1>3. /\ p \in Seq(AllInstr) /\ Len(p) = n - k + 1
      /\ \A i \in 1..(n - k + 1) : p[i] = S[k + i - 1]
  BY <1>1, <1>2, SubSeqProperties DEF Left, n
<1>4. b \in Seq(AllInstr) /\ Len(b) = 1 /\ b[1] = <<"bail", None>>
  BY DEF AllInstr
<1> HIDE DEF b, p
<1>5. prog \in Seq(AllInstr) /\ IsConcat(prog, b, p)
  BY <1>3, <1>4, ConcatElements DEF b, p
<1>6. /\ Len(prog) = n - k + 2 /\ prog[1] = <<"bail", None>>
      /\ \A i \in 1..(n - k + 1) : prog[1 + i] = S[k + i - 1]
  <2>1. /\ Len(prog) = 1 + (n - k + 1)
        /\ prog[1] = b[1]
        /\ \A i \in 1..(n - k + 1) : prog[1 + i] = p[i]
    BY <1>3, <1>4, <1>5 DEF IsConcat
  <2>2. \A i \in 1..(n - k + 1) : prog[1 + i] = S[k + i - 1]
    BY <1>3, <2>1
  <2>3. Len(prog) = n - k + 2
    BY <1>1, <1>2, <2>1
  <2>4. QED BY <1>4, <2>1, <2>2, <2>3
<1>7. \A j \in 1..Len(prog) : prog[j] = <<"end_load", None>> <=> j = 10 - k
  <2> SUFFICES ASSUME NEW j \in 1..Len(prog) PROVE prog[j] = <<"end_load", None>> <=> j = 10 - k
    OBVIOUS
  <2>1. CASE j = 1
    BY <1>6, <2>1
  <2>2. CASE j # 1
    <3>1. j - 1 \in 1..(n - k + 1) /\ j = 1 + (j - 1) /\ k + (j - 1) - 1 \in 1..n
      BY <1>1, <1>2, <1>6, <2>2
    <3>2. prog[j] = S[k + (j - 1) - 1]
      BY <1>6, <3>1
    <3>3. prog[j] = <<"end_load", None>> <=> k + (j - 1) - 1 = 8
      BY <1>1, <3>1, <3>2
    <3>4. QED BY <1>2, <3>3
  <2>3. QED BY <2>1, <2>2
<1>8. 10 - k \in 1..Len(prog)
  BY <1>1, <1>6
<1>9. AfterLoad = SubSeq(prog, 10 - k, Len(prog))
  BY <1>7, <1>8 DEF AfterLoad
<1> DEFINE q == SubSeq(prog, 10 - k, Len(prog))
<1>10. /\ q \in Seq(AllInstr) /\ Len(q) = n - 7
       /\ \A i \in 1..(n - 7) : q[i] = prog[(10 - k) + i - 1]
  <2>1. \A i \in (10 - k)..Len(prog) : prog[i] \in AllInstr
    BY <1>5, <1>8
  <2>2. /\ q \in Seq(AllInstr)
        /\ Len(q) = IF 10 - k <= Len(prog) THEN Len(prog) - (10 - k) + 1 ELSE 0
        /\ \A i \in 1..(Len(prog) - (10 - k) + 1) : q[i] = prog[(10 - k) + i - 1]
    <3>1. 10 - k \in Int /\ Len(prog) \in Int
      BY <1>1, <1>6
    <3>2. QED BY <2>1, <3>1, SubSeqProperties
  <2>3. Len(prog) - (10 - k) + 1 = n - 7 /\ 10 - k <= Len(prog)
    BY <1>1, <1>2, <1>6
  <2> HIDE DEF q
  <2>4. QED BY <2>2, <2>3
<1> DEFINE t == Left(8)
<1>11. /\ t \in Seq(AllInstr) /\ Len(t) = n - 7
       /\ \A i \in 1..(n - 7) : t[i] = S[8 + i - 1]
  BY <1>1, SubSeqProperties DEF Left, n
<1> HIDE DEF q, t
<1>12. \A i \in 1..(n - 7) : q[i] = t[i]
  <2> SUFFICES ASSUME NEW i \in 1..(n - 7) PROVE q[i] = t[i]
    OBVIOUS
  <2>1. /\ 8 - k + i \in 1..(n - k + 1) /\ (10 - k) + i - 1 = 1 + (8 - k + i)
        /\ k + (8 - k + i) - 1 = 8 + i - 1
    BY <1>1, <1>2
  <2>2. QED BY <1>6, <1>10, <1>11, <2>1
<1>13. q = t
  BY <1>10, <1>11, <1>12, SeqEqual
<1>14. QED BY <1>9, <1>13 DEF q, t

(* Where start is after a step. *)
Running == (\E k \in 1..(Len(S) + 1) : Loading(k)) \/ (\E k \in {2, 5} : Bailing(k))

LEMMA NowLoading ==
  ASSUME cfg' = cfg, NEW k \in 1..(Len(S) + 1), prog' = Left(k), NodeMade(k)',
         1 \in retval' \/ LoadedSoFar(k)'
  PROVE  Running'
<1>1. Loading(k)' /\ k \in 1..(Len(S') + 1)
  BY SameConfig DEF Loading
<1>2. QED BY <1>1 DEF Running

LEMMA NowBailing ==
  ASSUME cfg' = cfg, NEW k \in {2, 5},
         Ends(prog', BailInstr, <<<<"bail", None>>>> \o Left(k)),
         loaded' = {} \/ (k = 5 /\ 1 \in retval')
  PROVE  Running'
<1>1. Bailing(k)'
  BY SameConfig DEF Bailing, Ends, BailInstr, UnloadInstr
<1>2. QED BY <1>1 DEF Running

(* unload_all_ipmi_modules and the return, put before the rest. *)
LEMMA GivesUp ==
  ASSUME cfg \in Config, NEW k \in {2, 5},
         prog' = (UnloadAll \o <<<<"bail", None>>>>) \o Left(k)
  PROVE  Ends(prog', BailInstr, <<<<"bail", None>>>> \o Left(k))
<1>1. Len(S) \in Nat /\ Len(S) >= 8 /\ S \in Seq(AllInstr)
  BY StartProgram, SeqMonotonic DEF AllInstr
<1>2. Left(k) \in Seq(AllInstr)
  BY <1>1, SuffixStep DEF Left
<1>3. UnloadAll \in Seq(AllInstr) /\ <<<<"bail", None>>>> \in Seq(AllInstr)
  <2>1. BailInstr \subseteq AllInstr /\ <<"bail", None>> \in AllInstr
    BY DEF AllInstr, UnwindInstr
  <2>2. QED BY <2>1, UnloadProgram, SeqMonotonic
<1>4. prog' = UnloadAll \o (<<<<"bail", None>>>> \o Left(k))
  BY <1>2, <1>3, ConcatAssociative
<1>5. QED BY <1>4, UnloadProgram DEF Ends

(* The steps of load_ipmi_modules, of the lock and of the feature starts.  *)
LEMMA LoadingStep ==
  ASSUME TypeInv, TypeInv', Step, prog \in Seq(AllInstr), NEW k \in 1..(Len(S) + 1), Loading(k)
  PROVE  Running'
<1> DEFINE n == Len(S)
<1>1. /\ cfg' = cfg /\ prog # <<>> /\ cfg \in Config
      /\ cfg.intf \subseteq Interfaces /\ cfg.features \subseteq Features /\ cfg.hw \subseteq Hardware
  BY StepActions DEF TypeInv, Config
<1>2. n \in Nat /\ n >= 8 /\ S \in Seq(StartInstr)
  BY <1>1, StartProgram
<1>3. /\ k \in 1..n /\ Head(prog) = S[k] /\ Tail(prog) = Left(k + 1)
      /\ k + 1 \in 1..(n + 1)
  <2>1. \/ k = n + 1 /\ Left(k) = <<>>
        \/ k \in 1..n /\ Head(Left(k)) = S[k] /\ Tail(Left(k)) = Left(k + 1)
    BY <1>2, SuffixStep DEF Left
  <2>2. k \in 1..n => k + 1 \in 1..(n + 1)
    BY <1>2
  <2>3. prog = Left(k)
    BY DEF Loading
  <2>4. QED BY <1>1, <2>1, <2>2, <2>3
<1>4. prog = Left(k) /\ NodeMade(k) /\ (1 \in retval \/ LoadedSoFar(k))
  BY DEF Loading
<1>5. Skip => prog' = Left(k + 1)
  BY <1>1, <1>3, SkipStep DEF Skip
<1>6. /\ Base \in Modules /\ Configured(Base)
      /\ \A m \in cfg.intf \cup cfg.hw \cup cfg.features : m \in Modules /\ Configured(m)
  BY <1>1 DEF Modules, Interfaces, Configured, Base
<1>7. \A m \in Modules : Configured(m) /\ CanLoad(m, loaded') =>
        loaded \subseteq loaded' /\ loaded' \subseteq loaded \cup {m, Base}
          /\ (m \in loaded' => Base \in loaded')
  BY Loads
<1>8. S' = S
  BY <1>1, SameConfig
<1>9. CASE k = 1
  <2>1. LoadBase
    BY <1>1, <1>3, <1>9, StartProgram, StepActions DEF First
  <2>2. CASE Base \in loaded'
    <3>1. prog' = Left(2)
      BY <1>1, <1>3, <1>9, <2>1, <2>2, SkipStep DEF LoadBase
    <3>2. LoadedSoFar(2)' /\ NodeMade(2)'
      BY <2>2 DEF LoadedSoFar, NodeMade
    <3>3. QED BY <1>1, <1>3, <1>9, <3>1, <3>2, NowLoading
  <2>3. CASE Base \notin loaded'
    <3>1. loaded' = {}
      BY <2>3 DEF TypeInv
    <3>2. prog' = (UnloadAll \o <<<<"bail", None>>>>) \o Left(2)
      <4>1. Then(UnloadAll \o <<<<"bail", None>>>>)
        BY <2>1, <2>3 DEF LoadBase
      <4>2. prog' = (UnloadAll \o <<<<"bail", None>>>>) \o Tail(prog)
        BY <4>1 DEF Then
      <4>3. Tail(prog) = Left(2)
        BY <1>3, <1>9
      <4>4. QED BY <4>2, <4>3
    <3>3. Ends(prog', BailInstr, <<<<"bail", None>>>> \o Left(2))
      BY <1>1, <3>2, GivesUp
    <3>4. QED BY <1>1, <3>1, <3>3, NowBailing
  <2>4. QED BY <2>2, <2>3
<1>10. CASE k \in {2, 3}
  <2> DEFINE m == IF k = 2 THEN "si" ELSE "smb"
  <2>1. Head(prog) = <<"hw", m>>
    BY <1>1, <1>3, <1>10, StartProgram
  <2>2. LoadHwModule /\ Operand = m
    BY <2>1, StepActions DEF First, Operand
  <2>3. prog' = Left(k + 1) /\ retval \subseteq retval' /\ loaded \subseteq loaded'
          /\ (m \in cfg.hw => m \in loaded' \/ 1 \in retval')
    BY <1>5, <1>6, <1>7, <2>2 DEF LoadHwModule
  <2>4. NodeMade(k + 1)'
    BY <1>10 DEF NodeMade
  <2>5. 1 \in retval' \/ LoadedSoFar(k + 1)'
    BY <1>1, <1>4, <1>10, <2>3 DEF LoadedSoFar
  <2>6. QED BY <1>1, <1>3, <2>3, <2>4, <2>5, NowLoading
<1>11. CASE k = 4
  <2>1. HwCheck
    BY <1>1, <1>3, <1>11, StartProgram, StepActions DEF First
  <2>2. CASE 1 \in retval
    <3>1. prog' = (UnloadAll \o <<<<"bail", None>>>>) \o Left(5) /\ 1 \in retval'
      <4>1. Then(UnloadAll \o <<<<"bail", None>>>>) /\ retval' = retval
        BY <2>1, <2>2 DEF HwCheck
      <4>2. prog' = (UnloadAll \o <<<<"bail", None>>>>) \o Tail(prog)
        BY <4>1 DEF Then
      <4>3. Tail(prog) = Left(5)
        BY <1>3, <1>11
      <4>4. QED BY <2>2, <4>1, <4>2, <4>3
    <3>2. Ends(prog', BailInstr, <<<<"bail", None>>>> \o Left(5))
      BY <1>1, <3>1, GivesUp
    <3>3. QED BY <1>1, <3>1, <3>2, NowBailing
  <2>3. CASE 1 \notin retval
    <3>1. prog' = Left(5)
      BY <1>1, <1>3, <1>11, <2>1, <2>3, SkipStep DEF HwCheck
    <3>2. LoadedSoFar(5)' /\ NodeMade(5)'
      BY <1>1, <1>4, <1>11, <2>1, <2>3 DEF HwCheck, LoadedSoFar, NodeMade
    <3>3. QED BY <1>1, <1>3, <1>11, <3>1, <3>2, NowLoading
  <2>4. QED BY <2>2, <2>3
<1>12. CASE k = 5
  <2>1. LoadDevintf
    BY <1>1, <1>3, <1>12, StartProgram, StepActions DEF First
  <2>2. /\ prog' = Left(6) /\ retval \ {2} \subseteq retval' /\ loaded \subseteq loaded'
        /\ "devintf" \in cfg.intf => "devintf" \in loaded' \/ 2 \in retval'
    BY <1>3, <1>5, <1>6, <1>7, <1>12, <2>1 DEF LoadDevintf
  <2>3. NodeMade(6)'
    BY <1>1, <2>1 DEF LoadDevintf, NodeMade
  <2>4. 1 \in retval' \/ LoadedSoFar(6)'
    BY <1>1, <1>4, <1>12, <2>2 DEF LoadedSoFar
  <2>5. QED BY <1>1, <1>3, <1>12, <2>2, <2>3, <2>4, NowLoading
<1>13. CASE k = 6
  <2>1. Wait
    BY <1>1, <1>3, <1>13, StartProgram, StepActions DEF First
  <2>2. UNCHANGED <<cfg, loaded, nodes, retval, lock>> /\ (prog' = prog \/ prog' = Left(7))
    <3>1. UNCHANGED <<cfg, loaded, nodes, retval, lock>> /\ (prog' = prog \/ prog' = Tail(prog))
      BY <2>1 DEF Wait
    <3>2. Tail(prog) = Left(7)
      BY <1>3, <1>13
    <3>3. QED BY <3>1, <3>2
  <2>3. /\ NodeMade(6)' /\ NodeMade(7)'
        /\ 1 \in retval' \/ (LoadedSoFar(6)' /\ LoadedSoFar(7)')
    BY <1>4, <1>13, <2>2 DEF NodeMade, LoadedSoFar
  <2>4. QED BY <1>3, <1>4, <1>13, <2>2, <2>3, NowLoading
<1>14. CASE k = 7
  <2>1. LoadImb
    BY <1>1, <1>3, <1>14, StartProgram, StepActions DEF First
  <2>2. /\ prog' = Left(8) /\ retval \ {2} \subseteq retval'
        /\ loaded \subseteq loaded' /\ loaded' \subseteq loaded \cup {"imb", Base}
        /\ "imb" \in cfg.intf => "imb" \in loaded' \/ 2 \in retval'
        /\ "imb" \notin cfg.intf => retval' = retval
        /\ "ipmi0" \in nodes => "ipmi0" \in nodes'
    BY <1>3, <1>5, <1>6, <1>7, <1>14, <2>1 DEF LoadImb
  <2>3. NodeMade(8)'
    BY <1>1, <1>4, <1>14, <2>2 DEF NodeMade, Base
  <2>4. 1 \in retval' \/ LoadedSoFar(8)'
    <3>1. cfg.intf # Interfaces => ~("devintf" \in cfg.intf /\ "imb" \in cfg.intf)
      BY <1>1 DEF Interfaces
    <3>2. QED BY <1>1, <1>4, <1>14, <2>2, <3>1 DEF LoadedSoFar
  <2>5. QED BY <1>1, <1>3, <1>14, <2>2, <2>3, <2>4, NowLoading
<1>15. CASE k = 8
  <2>1. EndLoad
    BY <1>1, <1>3, <1>15, StartProgram, StepActions DEF First
  <2>2. /\ prog' = Left(9) /\ UNCHANGED <<loaded, nodes, retval>>
        /\ 1 \notin retval => lock' = TRUE
    <3>1. prog' = Tail(prog) /\ UNCHANGED <<loaded, nodes, retval>>
      BY <2>1 DEF EndLoad, Settle
    <3>2. 1 \notin retval => lock' = TRUE
      BY <2>1 DEF EndLoad
    <3>3. Left(k + 1) = Left(9)
      BY <1>15
    <3>4. QED BY <1>3, <3>1, <3>2, <3>3
  <2>3. NodeMade(9)'
    BY <1>1, <1>4, <1>15, <2>2 DEF NodeMade
  <2>4. FeaturesSoFar(9)'
    <3>1. \A f \in cfg.features : \E j \in 9..n : S[j] = <<"start_feature", f>>
      BY <1>1, StartProgram
    <3>2. QED BY <1>1, <1>8, <3>1 DEF FeaturesSoFar
  <2>5. ASSUME 1 \notin retval' PROVE LoadedSoFar(9)'
    <3>1. LoadedSoFar(8)
      BY <1>4, <1>15, <2>2, <2>5
    <3>2. lock' = TRUE
      BY <2>2, <2>5
    <3>3. QED BY <1>1, <2>2, <2>4, <3>1, <3>2 DEF LoadedSoFar
  <2>6. QED BY <1>1, <1>3, <1>15, <2>2, <2>3, <2>5, NowLoading
<1>16. CASE k \in 9..n
  <2>1. S[k] \in FeatInstr
    BY <1>1, <1>16, StartProgram
  <2>2. /\ prog' = Left(k + 1) /\ retval \subseteq retval' /\ lock' = lock
        /\ loaded \subseteq loaded' /\ loaded' \subseteq loaded \cup {Head(prog)[2], Base}
        /\ Head(prog)[2] \in Hardware \cup Features
        /\ \A f \in cfg.features :
             S[k] = <<"start_feature", f>> => f \in loaded' \/ 2 \in retval'
        /\ "ipmi0" \in nodes => "ipmi0" \in nodes'
    <3>1. CASE First = "hw"
      <4>1. LoadHwModule /\ Head(prog)[2] \in Hardware
        BY <1>3, <2>1, <3>1, StepActions DEF First, FeatInstr, Hardware
      <4>2. \A f : S[k] # <<"start_feature", f>>
        BY <1>3, <3>1 DEF First
      <4>3. /\ prog' = Left(k + 1) /\ retval \subseteq retval' /\ lock' = lock /\ nodes' = nodes
            /\ loaded \subseteq loaded' /\ loaded' \subseteq loaded \cup {Head(prog)[2], Base}
        BY <1>5, <1>6, <1>7, <4>1 DEF LoadHwModule, Operand
      <4>4. QED BY <4>1, <4>2, <4>3
    <3>2. CASE First = "start_feature"
      <4>1. LoadFeature /\ Head(prog)[2] \in cfg.features
        BY <1>3, <2>1, <3>2, StepActions DEF First, FeatInstr
      <4>2. \A f : S[k] = <<"start_feature", f>> => Head(prog)[2] = f
        BY <1>3
      <4>3. /\ prog' = Left(k + 1) /\ retval \subseteq retval' /\ lock' = lock
            /\ "ipmi0" \in nodes => "ipmi0" \in nodes'
            /\ loaded \subseteq loaded' /\ loaded' \subseteq loaded \cup {Head(prog)[2], Base}
            /\ Head(prog)[2] \in loaded' \/ 2 \in retval'
        BY <1>5, <1>6, <1>7, <4>1 DEF LoadFeature, Operand
      <4>4. QED BY <1>1, <4>1, <4>2, <4>3
    <3>3. QED BY <1>3, <2>1, <3>1, <3>2 DEF First, FeatInstr
  <2>3. NodeMade(k + 1)'
    <3>1. "devintf" \notin loaded => "devintf" \notin loaded'
      BY <2>2 DEF Hardware, Features, Base
    <3>2. NodeMade(k) /\ k >= 6
      BY <1>4, <1>16
    <3>3. QED BY <1>1, <2>2, <3>1, <3>2 DEF NodeMade
  <2>4. ASSUME 1 \notin retval' PROVE LoadedSoFar(k + 1)'
    <3>1. LoadedSoFar(k) /\ k >= 9
      BY <1>4, <1>16, <2>2, <2>4
    <3>2. ASSUME NEW f \in cfg.features
          PROVE  f \in loaded' \/ 2 \in retval' \/ \E j \in (k + 1)..n : S[j] = <<"start_feature", f>>
      <4>1. CASE f \in loaded \/ 2 \in retval
        BY <2>2, <4>1
      <4>2. CASE \E j \in k..n : S[j] = <<"start_feature", f>>
        <5> PICK j \in k..n : S[j] = <<"start_feature", f>>
          BY <4>2
        <5>1. CASE j = k
          BY <2>2, <3>2, <5>1
        <5>2. CASE j # k
          BY <1>3, <5>2
        <5>3. QED BY <5>1, <5>2
      <4>3. QED BY <3>1, <3>2, <4>1, <4>2 DEF LoadedSoFar, FeaturesSoFar
    <3>3. FeaturesSoFar(k + 1)'
      BY <1>1, <1>8, <3>2 DEF FeaturesSoFar
    <3>4. QED BY <1>1, <2>2, <3>1, <3>3 DEF LoadedSoFar
  <2>5. QED BY <1>1, <1>3, <2>2, <2>3, <2>4, NowLoading
<1>17. QED
  <2>1. k \in {2, 3} \/ k = 1 \/ k = 4 \/ k = 5 \/ k = 6 \/ k = 7 \/ k = 8 \/ k \in 9..n
    BY <1>2, <1>3
  <2>2. QED BY <1>9, <1>10, <1>11, <1>12, <1>13, <1>14, <1>15, <1>16, <2>1

(* The unloads after a failed load, and the return behind them. *)
LEMMA BailingStep ==
  ASSUME TypeInv, Step, prog \in Seq(AllInstr), NEW k \in {2, 5}, Bailing(k)
  PROVE  Running'
<1> DEFINE t == <<<<"bail", None>>>> \o Left(k)
<1>1. cfg' = cfg /\ cfg \in Config
  BY StepActions DEF TypeInv
<1>2. Ends(prog, BailInstr, t)
  BY DEF Bailing
<1>3. loaded = {} \/ (k = 5 /\ 1 \in retval)
  BY DEF Bailing
<1>4. S \in Seq(AllInstr) /\ Len(S) \in Nat /\ Len(S) >= 8
  BY <1>1, StartProgram, SeqMonotonic DEF AllInstr
<1>5. Left(k) \in Seq(AllInstr) /\ <<<<"bail", None>>>> \in Seq(AllInstr)
  BY <1>4, SuffixStep DEF Left, AllInstr
<1>6. t \in Seq(AllInstr) /\ Head(t) = <<"bail", None>> /\ Tail(t) = Left(k)
  BY <1>5
<1> HIDE DEF t
<1>7. CASE prog = t
  <2>1. Bail
    BY <1>6, <1>7, StepActions DEF First
  <2>2. CASE "devintf" \in loaded
    <3>1. prog' = Left(5) /\ 1 \in retval'
      BY <1>3, <1>6, <1>7, <2>1, <2>2, SkipStep, StepActions DEF Bail, Skip
    <3>2. NodeMade(5)'
      BY DEF NodeMade
    <3>3. QED BY <1>1, <1>4, <3>1, <3>2, NowLoading
  <2>3. CASE "devintf" \notin loaded
    <3>1. prog' = AfterLoad /\ 1 \in retval' /\ loaded' = loaded
      BY <2>1, <2>3 DEF Bail
    <3>2. prog' = Left(8)
      BY <1>1, <1>7, <3>1, ReturnToLock DEF t
    <3>3. NodeMade(8)'
      BY <2>3, <3>1 DEF NodeMade
    <3>4. 8 \in 1..(Len(S) + 1)
      BY <1>4
    <3>5. QED BY <1>1, <3>1, <3>2, <3>3, <3>4, NowLoading
  <2>4. QED BY <2>2, <2>3
<1>8. CASE Head(prog) \in BailInstr /\ Ends(Tail(prog), BailInstr, t)
  <2>1. prog' = Tail(prog) /\ loaded' \subseteq loaded /\ retval \subseteq retval'
    BY <1>8, UnwindStep DEF UnwindInstr
  <2>2. loaded' = {} \/ (k = 5 /\ 1 \in retval')
    BY <1>3, <2>1
  <2>3. Ends(prog', BailInstr, t)
    BY <1>8, <2>1
  <2>4. QED BY <1>1, <2>2, <2>3, NowBailing DEF t
<1>9. QED BY <1>2, <1>6, <1>7, <1>8, PrefixStep

(* The unloads of a restart, and the reset behind them. *)
LEMMA UnwindingStep ==
  ASSUME TypeInv, Step, prog \in Seq(AllInstr), Unwinding
  PROVE  Unwinding' \/ Running'
<1> DEFINE t == <<<<"reset", None>>>> \o S
<1>1. cfg' = cfg /\ cfg \in Config
  BY StepActions DEF TypeInv
<1>2. Ends(prog, UnwindInstr, t)
  BY DEF Unwinding
<1>3. S \in Seq(AllInstr) /\ Len(S) \in Nat
  BY <1>1, StartProgram, SeqMonotonic DEF AllInstr
<1>4. t \in Seq(AllInstr) /\ Head(t) = <<"reset", None>> /\ Tail(t) = S
  <2>1. <<<<"reset", None>>>> \in Seq(AllInstr)
    BY DEF AllInstr
  <2>2. QED BY <1>3, <2>1
<1>5. S' = S /\ UnwindInstr' = UnwindInstr
  BY <1>1, SameConfig DEF UnwindInstr, BailInstr, UnloadInstr
<1> HIDE DEF t
<1>6. CASE prog = t
  <2>1. Reset /\ prog # <<>>
    BY <1>4, <1>6, StepActions DEF First
  <2>2. prog' = S
    BY <1>4, <1>6, <2>1, SkipStep DEF Reset, Settle
  <2>3. S = Left(1)
    BY <1>3, SubSeqFull DEF Left
  <2>4. NodeMade(1)' /\ LoadedSoFar(1)' /\ 1 \in 1..(Len(S) + 1)
    BY <1>3 DEF NodeMade, LoadedSoFar
  <2>5. QED BY <1>1, <2>2, <2>3, <2>4, NowLoading
<1>7. CASE Head(prog) \in UnwindInstr /\ Ends(Tail(prog), UnwindInstr, t)
  <2>1. Ends(prog', UnwindInstr, t)
    BY <1>7, UnwindStep
  <2>2. QED BY <1>5, <2>1 DEF Unwinding, Ends, t
<1>8. QED BY <1>2, <1>4, <1>6, <1>7, PrefixStep

(* A step of the script preserves StartInv. *)
LEMMA StartStep ==
  ASSUME IInv, TypeInv', Step
  PROVE  StartInv'
<1>1. TypeInv /\ prog \in Seq(AllInstr) /\ prog # <<>> /\ cmd' = cmd
  BY ProgTyped, StepActions DEF IInv
<1> SUFFICES ASSUME cmd \in {"start", "restart", "condrestart"}
             PROVE  (cmd # "start" /\ Unwinding') \/ Running'
  BY <1>1 DEF StartInv, Running
<1>2. \/ cmd # "start" /\ Unwinding
      \/ \E k \in 1..(Len(S) + 1) : Loading(k)
      \/ \E k \in {2, 5} : Bailing(k)
  BY <1>1 DEF IInv, StartInv
<1>3. QED BY <1>1, <1>2, UnwindingStep, LoadingStep, BailingStep

-----------------------------------------------------------------------------
(* stop-all and the other commands *)

(* A step of the script preserves StopAllInv. *)
LEMMA StopAllStep ==
  ASSUME IInv, Step
  PROVE  StopAllInv'
<1> DEFINE t == <<<<"rm_node", None>>, <<"stopped_all", None>>>>
           e == <<<<"stopped_all", None>>>>
<1>1. TypeInv /\ prog \in Seq(AllInstr) /\ prog # <<>> /\ cmd' = cmd /\ cfg' = cfg
  BY ProgTyped, StepActions DEF IInv
<1> SUFFICES ASSUME cmd = "stop-all"
             PROVE  \/ Ends(prog', UnloadInstr, t)
                    \/ prog' = e /\ NodeGone'
                    \/ prog' = <<>> /\ (32 \in retval' \/ (~lock' /\ loaded' = {} /\ NodeGone'))
  BY <1>1 DEF StopAllInv, Ends, UnloadInstr
<1>2. t \in Seq(AllInstr) /\ Head(t) = <<"rm_node", None>> /\ Tail(t) = e
  BY DEF AllInstr, UnwindInstr, BailInstr
<1>3. CASE Ends(prog, UnloadInstr, t)
  <2> HIDE DEF t, e
  <2>1. CASE prog = t
    <3>1. RemoveNode
      BY <1>2, <2>1, StepActions DEF First
    <3>2. prog' = e
      BY <1>1, <1>2, <2>1, <3>1, SkipStep DEF RemoveNode, Skip
    <3>3. NodeGone'
      BY <1>1, <3>1 DEF RemoveNode, NodeGone
    <3>4. QED BY <3>2, <3>3
  <2>2. CASE Head(prog) \in UnloadInstr /\ Ends(Tail(prog), UnloadInstr, t)
    BY <1>1, <2>2, UnwindStep DEF UnwindInstr, BailInstr
  <2>3. QED BY <1>2, <1>3, <2>1, <2>2, PrefixStep
<1>4. CASE prog = e /\ NodeGone
  <2>1. StopAll /\ Tail(prog) = <<>>
    BY <1>4, StepActions DEF First
  <2>2. prog' = <<>> /\ UNCHANGED <<loaded, nodes>>
    BY <1>1, <2>1, SkipStep DEF StopAll, Stopped, Settle
  <2>3. NodeGone'
    BY <1>1, <1>4, <2>2 DEF NodeGone
  <2>4. loaded \subseteq cfg.intf \cup cfg.features \cup cfg.hw \cup {Base}
    BY <1>1 DEF TypeInv, Configured
  <2>5. 32 \in retval' \/ (lock' = FALSE /\ loaded' = {})
    BY <2>1, <2>2, <2>4 DEF StopAll, Stopped
  <2>6. QED BY <2>2, <2>3, <2>5
<1>5. QED BY <1>1, <1>3, <1>4 DEF IInv, StopAllInv

(* A step of the script preserves OtherInv. *)
LEMMA OtherStep ==
  ASSUME IInv, Step
  PROVE  OtherInv'
<1>1. TypeInv /\ prog \in Seq(AllInstr) /\ prog # <<>> /\ cmd' = cmd /\ cfg' = cfg
  BY ProgTyped, StepActions DEF IInv
<1> SUFFICES ASSUME cmd \notin {None, "killed", "stop", "stop-all", "start", "restart", "condrestart"}
             PROVE  prog' \in Seq(SimpleInstr)'
  BY <1>1 DEF IInv, OtherInv
<1>2. prog \in Seq(SimpleInstr) /\ SimpleInstr' = SimpleInstr
  BY <1>1, SameConfig DEF IInv, OtherInv
<1>3. Head(prog) \in SimpleInstr /\ Tail(prog) \in Seq(SimpleInstr)
  BY <1>1, <1>2
<1>4. First \in {"hw", "start_feature", "stop_feature", "refuse"} \cup StatusCommands
  BY <1>3 DEF First, SimpleInstr, FeatInstr
<1>5. LoadHwModule \/ LoadFeature \/ StopFeature \/ Refuse \/ Asked
  BY <1>4, StepActions
<1>6. Then(<<>>)
  BY <1>5 DEF LoadHwModule, LoadFeature, StopFeature, Refuse, Asked, Status, Skip
<1>7. QED BY <1>1, <1>2, <1>3, <1>6, SkipStep

-----------------------------------------------------------------------------
(* The whole invariant *)

(* udev, the applications and the service manager. *)
LEMMA EnvironmentKeeps ==
  ASSUME IInv, Environment
  PROVE  IInv'
<1>1. /\ UNCHANGED <<cfg, loaded, lock, retval, delay, settled>>
      /\ (prog' = prog /\ cmd' = cmd) \/ (prog' = <<>> /\ cmd' = "killed")
  BY DEF Environment, Udev, Hold, Release, Killed
<1>2. nodes' = nodes \/ cfg.udev
  BY DEF Environment, Udev, Hold, Release, Killed
<1>3. held' \subseteq Modules /\ nodes' \subseteq Nodes
  <2>1. CASE Udev("devintf") \/ Udev("watchdog")
    BY <2>1 DEF Udev, NodeOf, Nodes, IInv, TypeInv
  <2>2. CASE Killed
    BY <2>2 DEF Killed, IInv, TypeInv
  <2>3. CASE \E m \in {"devintf", "imb", "watchdog"} : Hold(m) \/ Release(m)
    BY <2>3 DEF Hold, Release, IInv, TypeInv
  <2>4. QED BY <2>1, <2>2, <2>3 DEF Environment
<1>4. S' = S /\ (\A k : Left(k)' = Left(k)) /\ SimpleInstr' = SimpleInstr
        /\ (\A m : Configured(m)' = Configured(m))
  BY <1>1, SameConfig
<1>5. TypeInv'
  BY <1>1, <1>3, <1>4 DEF IInv, TypeInv
<1>6. StopInv'
  BY EnvironmentStep DEF IInv
<1>7. CASE prog' = <<>> /\ cmd' = "killed"
  BY <1>5, <1>6, <1>7 DEF IInv, StartInv, StopAllInv, OtherInv
<1>8. CASE prog' = prog /\ cmd' = cmd
  <2>1. \A k : NodeMade(k) => NodeMade(k)'
    BY <1>1, <1>2 DEF NodeMade
  <2>2. \A k : LoadedSoFar(k)' = LoadedSoFar(k)
    BY <1>1, <1>4 DEF LoadedSoFar, FeaturesSoFar
  <2>3. /\ Unwinding' = Unwinding
        /\ \A k : Bailing(k)' = Bailing(k)
        /\ \A k : Loading(k) => Loading(k)'
    BY <1>1, <1>4, <1>8, <2>1, <2>2 DEF Unwinding, Bailing, Loading, Ends, UnwindInstr, BailInstr, UnloadInstr
  <2>4. StartInv'
    BY <1>4, <1>8, <2>3 DEF IInv, StartInv
  <2>5. StopAllInv'
    BY <1>1, <1>2, <1>8 DEF IInv, StopAllInv, NodeGone, Ends, UnloadInstr
  <2>6. OtherInv'
    BY <1>4, <1>8 DEF IInv, OtherInv
  <2>7. QED BY <1>5, <1>6, <2>4, <2>5, <2>6 DEF IInv
<1>9. QED BY <1>1, <1>7, <1>8

(* A command is started: its program is at its first instruction. *)
LEMMA RunKeeps ==
  ASSUME IInv, NEW c \in Commands, Run(c)
  PROVE  IInv'
<1>1. /\ UNCHANGED <<cfg, loaded, held, nodes, lock, delay>>
      /\ cmd' = c /\ prog' = Program(c) /\ retval' = {} /\ cfg \in Config
  BY DEF Run, IInv, TypeInv
<1>2. S' = S /\ (\A k : Left(k)' = Left(k)) /\ SimpleInstr' = SimpleInstr
        /\ (\A m : Configured(m)' = Configured(m))
  BY <1>1, SameConfig
<1>3. TypeInv'
  <2>1. settled' \in BOOLEAN
    BY DEF Run
  <2>2. QED BY <1>1, <1>2, <2>1 DEF IInv, TypeInv
<1>4. StopInv'
  BY <1>1, StopProgram DEF StopInv
<1>5. c \notin {None, "killed"}
  BY CommandsAssumption DEF StatusCommands, None
<1>6. StartInv'
  <2>1. CASE c = "start"
    <3>1. S \in Seq(StartInstr) /\ 1 \in 1..(Len(S) + 1) /\ prog' = S
      BY <1>1, <2>1, StartProgram DEF Program, S
    <3>2. S = Left(1)
      BY <3>1, SubSeqFull DEF Left
    <3>3. NodeMade(1)' /\ LoadedSoFar(1)'
      BY DEF NodeMade, LoadedSoFar
    <3>4. Running'
      BY <1>1, <3>1, <3>2, <3>3, NowLoading
    <3>5. QED BY <1>1, <2>1, <3>4 DEF StartInv, Running
  <2>2. CASE c \in {"restart", "condrestart"}
    <3>1. \/ c = "condrestart" /\ prog' = <<>>
          \/ prog' = (StopAllProg \o <<<<"reset", None>>>>) \o S
      BY <1>1, <2>2 DEF Program, S
    <3>2. ASSUME prog' = (StopAllProg \o <<<<"reset", None>>>>) \o S
          PROVE  Ends(prog', UnwindInstr, <<<<"reset", None>>>> \o S)
      <4>1. S \in Seq(AllInstr) /\ <<<<"reset", None>>>> \in Seq(AllInstr) /\ StopAllProg \in Seq(AllInstr)
        BY <1>1, StartProgram, UnloadProgram, SeqMonotonic DEF AllInstr
      <4>2. prog' = StopAllProg \o (<<<<"reset", None>>>> \o S)
        BY <3>2, <4>1, ConcatAssociative
      <4>3. QED BY <4>2, UnloadProgram DEF Ends
    <3>3. (cmd' = "condrestart" /\ prog' = <<>>) \/ (cmd' # "start" /\ Unwinding')
      BY <1>1, <1>2, <2>2, <3>1, <3>2 DEF Unwinding, Ends, UnwindInstr, BailInstr, UnloadInstr
    <3>4. QED BY <3>3 DEF StartInv
  <2>3. CASE c \notin {"start", "restart", "condrestart"}
    BY <1>1, <2>3 DEF StartInv
  <2>4. QED BY <2>1, <2>2, <2>3
<1>7. StopAllInv'
  <2>1. c = "stop-all" => Ends(prog', UnloadInstr, <<<<"rm_node", None>>, <<"stopped_all", None>>>>)
    BY <1>1, UnloadProgram DEF Program
  <2>2. QED BY <1>1, <2>1 DEF StopAllInv, Ends, UnloadInstr
<1>8. OtherInv'
  BY <1>1, <1>2, <1>5, OtherProgram DEF OtherInv
<1>9. QED BY <1>3, <1>4, <1>6, <1>7, <1>8 DEF IInv

(* The invariant holds initially and every step preserves it. *)
LEMMA IInvInit == Init => IInv
<1> SUFFICES ASSUME Init PROVE IInv
  OBVIOUS
<1>1. TypeInv
  <2>1. cfg \in Config /\ delay \in 0..DevTimeout
    BY ConfigsAssumption, TimeoutAssumption DEF Init
  <2>2. QED BY <2>1 DEF Init, TypeInv
<1>2. QED BY <1>1 DEF Init, IInv, StopInv, StartInv, StopAllInv, OtherInv, None

LEMMA IInvNext == IInv /\ [Next]_vars => IInv'
<1> SUFFICES ASSUME IInv, [Next]_vars PROVE IInv'
  OBVIOUS
<1>1. CASE Step
  <2>1. prog \in Seq(AllInstr) /\ prog # <<>>
    BY <1>1, ProgTyped, StepActions
  <2>2. TypeInv'
    BY <1>1, <2>1, TypeStep DEF IInv
  <2>3. StopInv'
    BY StopInvNext DEF IInv
  <2>4. QED BY <1>1, <2>2, <2>3, StartStep, StopAllStep, OtherStep DEF IInv
<1>2. CASE Environment
  BY <1>2, EnvironmentKeeps
<1>3. CASE \E c \in Commands : Run(c)
  BY <1>3, RunKeeps
<1>4. CASE UNCHANGED vars
  <2>1. /\ UNCHANGED <<cfg, loaded, held, nodes, lock, cmd, prog, retval, delay, settled>>
        /\ S' = S /\ (\A k : Left(k)' = Left(k)) /\ SimpleInstr' = SimpleInstr
        /\ (\A m : Configured(m)' = Configured(m))
    BY <1>4, SameConfig DEF vars
  <2>2. TypeInv' /\ StopInv' /\ OtherInv'
    BY <2>1, StopInvNext DEF IInv, TypeInv, OtherInv
  <2>3. StopAllInv'
    BY <2>1 DEF IInv, StopAllInv, NodeGone, Ends, UnloadInstr
  <2>4. \A k : Loading(k)' = Loading(k) /\ Bailing(k)' = Bailing(k)
    BY <2>1 DEF Loading, Bailing, NodeMade, LoadedSoFar, FeaturesSoFar, Ends, UnwindInstr, BailInstr, UnloadInstr
  <2>5. Unwinding' = Unwinding
    BY <2>1 DEF Unwinding, Ends, UnwindInstr, BailInstr, UnloadInstr
  <2>6. StartInv'
    BY <2>1, <2>4, <2>5 DEF IInv, StartInv
  <2>7. QED BY <2>2, <2>3, <2>6 DEF IInv
<1>5. QED BY <1>1, <1>2, <1>3, <1>4 DEF Next

(* The invariant gives the properties.                                     *)
LEMMA Exit ==
  ASSUME IInv, Exited({"start", "restart"})
  PROVE  \E k : k > 8 /\ k = Len(S) + 1 /\ Loading(k)
<1>1. /\ cfg \in Config /\ prog = <<>> /\ cmd \in {"start", "restart"}
  BY DEF IInv, TypeInv, Exited
<1>2. S \in Seq(AllInstr) /\ Len(S) \in Nat /\ Len(S) >= 8
  BY <1>1, StartProgram, SeqMonotonic DEF AllInstr
<1>3. ASSUME NEW k \in 1..(Len(S) + 1), Loading(k)
      PROVE  k > 8 /\ k = Len(S) + 1
  <2>1. prog = SubSeq(S, k, Len(S))
    BY <1>3 DEF Loading, Left
  <2>2. QED BY <1>1, <1>2, <2>1, SuffixStep
<1>4. ~Unwinding
  <2> DEFINE t == <<<<"reset", None>>>> \o S
  <2>1. <<"reset", None>> \in AllInstr
    BY DEF AllInstr
  <2>2. t \in Seq(AllInstr) /\ t # <<>>
    BY <1>2, <2>1, Cons
  <2> HIDE DEF t
  <2>3. QED BY <1>1, <2>2, EndsNonempty DEF Unwinding, t
<1>5. ASSUME NEW k \in {2, 5} PROVE ~Bailing(k)
  <2> DEFINE t == <<<<"bail", None>>>> \o Left(k)
  <2>1. <<"bail", None>> \in AllInstr /\ Left(k) \in Seq(AllInstr)
    BY <1>2, SuffixStep DEF AllInstr, Left
  <2>2. t \in Seq(AllInstr) /\ t # <<>>
    BY <2>1, Cons
  <2> HIDE DEF t
  <2>3. QED BY <1>1, <2>2, EndsNonempty DEF Bailing, t
<1>6. QED BY <1>1, <1>3, <1>4, <1>5 DEF IInv, StartInv

(* What the program is when an instruction is left.                        *)
LEMMA Where ==
  ASSUME IInv, prog # <<>>
  PROVE  \/ prog \in Seq(LateInstr) \/ prog \in Seq(SimpleInstr)
         \/ prog = <<<<"stopped_all", None>>>>
         \/ Head(prog) \in BailInstr \cup {<<"bail", None>>, <<"reset", None>>}
         \/ /\ Head(prog) \in UnwindInstr
            /\ Ends(Tail(prog), UnwindInstr, <<<<"reset", None>>>> \o S)
         \/ \E k \in 1..Len(S) : Loading(k) /\ Head(prog) = S[k]
<1>1. cfg \in Config
  BY DEF IInv, TypeInv
<1>2. S \in Seq(AllInstr) /\ Len(S) \in Nat /\ Len(S) >= 8
  BY <1>1, StartProgram, SeqMonotonic DEF AllInstr
<1>3. CASE cmd = "stop"
  <2>1. Seq(StopInstr) \subseteq Seq(LateInstr)
    BY SeqMonotonic DEF LateInstr
  <2>2. QED BY <1>3, <2>1 DEF IInv, StopInv
<1>4. CASE cmd = "stop-all"
  <2> DEFINE t == <<<<"rm_node", None>>, <<"stopped_all", None>>>>
  <2>1. t \in Seq(AllInstr) /\ Head(t) = <<"rm_node", None>>
    BY DEF AllInstr, UnwindInstr, BailInstr
  <2> HIDE DEF t
  <2>2. CASE Ends(prog, UnloadInstr, t)
    BY <2>1, <2>2, PrefixStep DEF BailInstr
  <2>3. QED BY <1>4, <2>2 DEF IInv, StopAllInv, t
<1>5. CASE Unwinding
  <2> DEFINE t == <<<<"reset", None>>>> \o S
  <2>1. <<"reset", None>> \in AllInstr
    BY DEF AllInstr
  <2>2. t \in Seq(AllInstr) /\ Head(t) = <<"reset", None>>
    BY <1>2, <2>1, Cons
  <2>3. Ends(prog, UnwindInstr, t)
    BY <1>5 DEF Unwinding
  <2> HIDE DEF t
  <2>4. prog = t \/ (Head(prog) \in UnwindInstr /\ Ends(Tail(prog), UnwindInstr, t))
    BY <2>2, <2>3, PrefixStep
  <2>5. QED BY <2>2, <2>4 DEF t
<1>6. ASSUME NEW k \in 1..(Len(S) + 1), Loading(k)
      PROVE  \E n \in 1..Len(S) : Loading(n) /\ Head(prog) = S[n]
  <2>1. prog = SubSeq(S, k, Len(S))
    BY <1>6 DEF Loading, Left
  <2>2. QED BY <1>2, <1>6, <2>1, SuffixStep
<1>7. ASSUME NEW k \in {2, 5}, Bailing(k)
      PROVE  Head(prog) \in BailInstr \cup {<<"bail", None>>}
  <2> DEFINE t == <<<<"bail", None>>>> \o Left(k)
  <2>1. <<"bail", None>> \in AllInstr /\ Left(k) \in Seq(AllInstr)
    BY <1>2, SuffixStep DEF AllInstr, Left
  <2>2. t \in Seq(AllInstr) /\ Head(t) = <<"bail", None>>
    BY <2>1, Cons
  <2>3. Ends(prog, BailInstr, t)
    BY <1>7 DEF Bailing
  <2> HIDE DEF t
  <2>4. prog = t \/ Head(prog) \in BailInstr
    BY <2>2, <2>3, PrefixStep
  <2>5. QED BY <2>2, <2>4
<1>8. CASE cmd \in {"start", "restart", "condrestart"}
  BY <1>5, <1>6, <1>7, <1>8 DEF IInv, StartInv
<1>9. QED BY <1>3, <1>4, <1>8 DEF IInv, OtherInv

(* The lock is taken only by start and its like, at the end of their load. *)
LEMMA AtLock ==
  ASSUME IInv, EndLoad
  PROVE  Loading(8) /\ prog \in Seq(AllInstr) /\ Tail(prog) \in Seq(FeatInstr)
<1>1. /\ prog \in Seq(AllInstr) /\ prog # <<>> /\ Head(prog)[1] = "end_load"
      /\ cfg \in Config
  BY ProgTyped DEF EndLoad, At, IInv, TypeInv
<1>2. S \in Seq(AllInstr) /\ Len(S) \in Nat /\ Len(S) >= 8
  BY <1>1, StartProgram, SeqMonotonic DEF AllInstr
<1>3. \A x \in UnwindInstr \cup LateInstr \cup SimpleInstr : x[1] # "end_load"
  BY DEF UnwindInstr, BailInstr, LateInstr, StopInstr, UnloadInstr, SimpleInstr, FeatInstr, StatusCommands
<1>4. BailInstr \subseteq UnwindInstr
  BY DEF UnwindInstr
<1>5. PICK k \in 1..Len(S) : Loading(k) /\ Head(prog) = S[k]
  BY <1>1, <1>3, <1>4, Where
<1>6. k \notin {1, 2, 3, 4, 5, 6, 7}
  BY <1>1, <1>5, StartProgram, SMTT(20)
<1>7. k \notin 9..Len(S)
  BY <1>1, <1>3, <1>5, StartProgram DEF SimpleInstr
<1>8. k = 8
  BY <1>2, <1>6, <1>7
<1>9. Tail(prog) = SubSeq(S, 9, Len(S))
  BY <1>1, <1>2, <1>5, <1>8, SuffixStep DEF Loading, Left
<1>10. \A i \in 9..Len(S) : S[i] \in FeatInstr
  BY <1>1, StartProgram
<1>11. SubSeq(S, 9, Len(S)) \in Seq(FeatInstr)
  BY <1>2, <1>10, SubSeqProperties
<1>12. QED BY <1>1, <1>5, <1>8, <1>9, <1>11

(* Every state is well-typed and every instruction that is left names a    *)
(* module or none.                                                         *)
THEOREM TypeCorrect == Spec => []TypeOK
<1>1. IInv => TypeOK
  <2> SUFFICES ASSUME IInv PROVE TypeOK
    OBVIOUS
  <2>1. prog \in Seq(AllInstr)
    BY ProgTyped
  <2>2. \A x \in AllInstr : x[2] \in Modules \cup {None}
    <3>1. cfg.features \subseteq Features
      BY DEF IInv, TypeInv, Config
    <3>2. QED BY <3>1 DEF AllInstr, StopInstr, UnwindInstr, BailInstr, UnloadInstr, StartInstr, FeatInstr,
            SimpleInstr, Modules, Interfaces, Features, Hardware, Base
  <2>3. \A i \in 1..Len(prog) : prog[i][2] \in Modules \cup {None}
    BY <2>1, <2>2
  <2>4. QED BY <2>3 DEF IInv, TypeInv, TypeOK
<1>2. QED BY <1>1, IInvInit, IInvNext, PTL DEF Spec

(* A start or restart that exits 0 has loaded every configured module and  *)
(* left the lock, unless both interfaces are configured.                   *)
THEOREM StartsFully == Spec => []StartedFully
<1>1. IInv => StartedFully
  <2> SUFFICES ASSUME IInv, Exited({"start", "restart"}), retval = {}, cfg.intf # Interfaces
               PROVE  lock = TRUE /\ cfg.intf \cup cfg.features \cup cfg.hw \cup {Base} \subseteq loaded
    BY DEF StartedFully
  <2>1. PICK k : k > 8 /\ k = Len(S) + 1 /\ Loading(k)
    BY Exit
  <2>2. Len(S) \in Nat
    BY StartProgram DEF IInv, TypeInv
  <2>3. LoadedSoFar(k) /\ k >= 9
    BY <2>1, <2>2 DEF Loading
  <2>4. k..Len(S) = {}
    BY <2>1, <2>2
  <2>5. cfg.intf \subseteq Interfaces /\ cfg.hw \subseteq Hardware
    BY DEF IInv, TypeInv, Config
  <2>6. lock = TRUE /\ FeaturesSoFar(k)
    BY <2>3 DEF LoadedSoFar
  <2>7. cfg.features \subseteq loaded
    BY <2>4, <2>6 DEF FeaturesSoFar
  <2>8. k >= 2 /\ k >= 3 /\ k >= 4 /\ k >= 6 /\ k >= 8
    BY <2>2, <2>1
  <2>9. Base \in loaded /\ cfg.hw \subseteq loaded
    BY <2>3, <2>5, <2>8 DEF LoadedSoFar, Hardware
  <2>10. cfg.intf \subseteq loaded
    BY <2>3, <2>5, <2>8 DEF LoadedSoFar, Interfaces
  <2>11. QED BY <2>6, <2>7, <2>9, <2>10
<1>2. QED BY <1>1, IInvInit, IInvNext, PTL DEF Spec

(* Without udev, a start whose status lacks bit 2 has made /dev/ipmi0 when *)
(* it has loaded ipmi_devintf.                                             *)
THEOREM NodesReported == Spec => []NodeReported
<1>1. IInv => NodeReported
  <2> SUFFICES ASSUME IInv, Exited({"start"}), ~cfg.udev, "devintf" \in cfg.intf \cap loaded,
                      4 \notin retval
               PROVE  "ipmi0" \in nodes
    BY DEF NodeReported
  <2>1. Exited({"start", "restart"})
    BY DEF Exited
  <2>2. PICK k : k > 8 /\ k = Len(S) + 1 /\ Loading(k)
    BY <2>1, Exit
  <2>3. Len(S) \in Nat
    BY StartProgram DEF IInv, TypeInv
  <2>4. QED BY <2>2, <2>3 DEF Loading, NodeMade
<1>2. QED BY <1>1, IInvInit, IInvNext, PTL DEF Spec

(* A stop-all that exits without bit 5 has unloaded every module, removed  *)
(* the lock and, without udev, /dev/ipmi0.                                 *)
THEOREM StopAllCleans == Spec => []StopAllClean
<1>1. IInv => StopAllClean
  <2> SUFFICES ASSUME IInv, Exited({"stop-all"}), 32 \notin retval PROVE lock = FALSE /\ loaded = {} /\ NodeGone
    BY DEF StopAllClean, NodeGone
  <2>1. prog = <<>> /\ cmd = "stop-all"
    BY DEF Exited
  <2>2. ~Ends(prog, UnloadInstr, <<<<"rm_node", None>>, <<"stopped_all", None>>>>)
    <3> DEFINE t == <<<<"rm_node", None>>, <<"stopped_all", None>>>>
    <3>1. t \in Seq(AllInstr) /\ t # <<>>
      BY DEF AllInstr, UnwindInstr, BailInstr
    <3> HIDE DEF t
    <3>2. QED BY <2>1, <3>1, EndsNonempty DEF t
  <2>3. ~lock /\ loaded = {} /\ NodeGone
    BY <2>1, <2>2 DEF IInv, StopAllInv
  <2>4. QED BY <2>3 DEF IInv, TypeInv
<1>2. QED BY <1>1, IInvInit, IInvNext, PTL DEF Spec

-----------------------------------------------------------------------------
(* The lock and the kernel *)

Agree     == IF lock THEN cfg.hw \subseteq loaded ELSE cfg.intf \cap loaded = {}
DownInstr == LateInstr \cup UnwindInstr

(* Once a start or stop has settled the matter, what is left of it and what *)
(* runs after it touches hardware modules only to load them; or the lock is *)
(* gone, and what is left until a restart's start only unloads.             *)
LockInv ==
    settled => /\ Agree
               /\ \/ prog \in Seq(SimpleInstr)
                  \/ lock = FALSE /\ (prog \in Seq(DownInstr) \/ Unwinding)

(* The commands and steps that settle nothing keep the two together. *)
LEMMA SimpleKeeps ==
  ASSUME IInv, Step, prog \in Seq(SimpleInstr), Agree
  PROVE  Agree' /\ prog' \in Seq(SimpleInstr)
<1>1. /\ TypeInv /\ prog \in Seq(AllInstr) /\ prog # <<>> /\ cfg' = cfg
      /\ cfg.intf \subseteq Interfaces /\ cfg.features \subseteq Features /\ cfg.hw \subseteq Hardware
  BY ProgTyped, StepActions DEF IInv, TypeInv, Config
<1>2. Head(prog) \in SimpleInstr /\ Tail(prog) \in Seq(SimpleInstr)
  BY <1>1
<1>3. /\ First \in {"hw", "start_feature", "stop_feature", "refuse"} \cup StatusCommands
      /\ First = "start_feature" => Operand \in cfg.features
      /\ First = "stop_feature" => Operand \in Features
  BY <1>2 DEF First, Operand, SimpleInstr, FeatInstr, StatusCommands
<1>4. LoadHwModule \/ LoadFeature \/ StopFeature \/ Refuse \/ Asked
  BY <1>3, StepActions
<1>5. prog' = Tail(prog) /\ lock' = lock
  BY <1>1, <1>4, SkipStep DEF LoadHwModule, LoadFeature, StopFeature, Refuse, Asked, Status, Skip
<1>6. \A m \in Modules : Configured(m) /\ CanLoad(m, loaded') =>
        loaded \subseteq loaded' /\ loaded' \subseteq loaded \cup {m, Base}
  BY <1>1, Loads
<1>7. \A m \in cfg.hw \cup cfg.features : m \in Modules /\ Configured(m)
  BY <1>1 DEF Modules, Configured
<1>8. /\ \A m \in Hardware \cup Features \cup {Base} : m \notin Interfaces
      /\ \A m \in Features \cup {Base} : m \notin Hardware
  BY DEF Hardware, Features, Interfaces, Base
<1>9. cfg.intf \cap loaded' \subseteq loaded /\ (cfg.hw \cap loaded \subseteq loaded')
  <2>1. CASE LoadHwModule
    BY <1>1, <1>6, <1>7, <1>8, <2>1 DEF LoadHwModule
  <2>2. CASE LoadFeature
    <3>1. Operand \in cfg.features
      BY <1>3, <2>2 DEF LoadFeature, At, First
    <3>2. QED BY <1>1, <1>6, <1>7, <1>8, <2>2, <3>1 DEF LoadFeature
  <2>3. CASE StopFeature
    <3>1. Operand \in Features
      BY <1>3, <2>3 DEF StopFeature, At, First
    <3>2. loaded' \subseteq loaded /\ loaded \ {Operand, Base} \subseteq loaded'
      BY <1>1, <2>3, Unloads DEF StopFeature
    <3>3. QED BY <1>1, <1>8, <3>1, <3>2
  <2>4. CASE Refuse \/ Asked
    BY <2>4 DEF Refuse, Asked, Status
  <2>5. QED BY <1>4, <2>1, <2>2, <2>3, <2>4
<1>10. QED BY <1>1, <1>2, <1>5, <1>9 DEF Agree

(* Without the lock, what only unloads keeps the interfaces away. *)
LEMMA DownKeeps ==
  ASSUME IInv, Step, lock = FALSE, Agree, prog \in Seq(DownInstr) \/ Unwinding, ~Reset
  PROVE  Agree' /\ lock' = FALSE /\ (prog' \in Seq(DownInstr) \/ Unwinding')
<1>1. /\ TypeInv /\ prog \in Seq(AllInstr) /\ prog # <<>> /\ cfg' = cfg /\ cfg \in Config
  BY ProgTyped, StepActions DEF IInv, TypeInv
<1>2. loaded' \subseteq loaded /\ lock' = FALSE => Agree'
  BY <1>1 DEF Agree
<1>3. \A m : Unloaded(m) \subseteq loaded
  BY <1>1, Unloads
<1>4. CASE prog \in Seq(DownInstr)
  <2>1. Head(prog) \in DownInstr /\ Tail(prog) \in Seq(DownInstr)
    BY <1>1, <1>4
  <2>2. First \in {"rm", "stop_feature", "rm_node", "if_no_features", "stopped", "stopped_all"}
    BY <2>1 DEF First, DownInstr, LateInstr, StopInstr, UnwindInstr, BailInstr, UnloadInstr
  <2>3. Remove \/ StopFeature \/ RemoveNode \/ IfNoFeatures \/ StopEnd \/ StopAll
    BY <2>2, StepActions
  <2>4. loaded' \subseteq loaded /\ lock' = FALSE
    BY <1>3, <2>3 DEF Remove, StopFeature, RemoveNode, IfNoFeatures, StopEnd, StopAll, Stopped
  <2>5. CASE ~IfNoFeatures
    <3>1. prog' = Tail(prog)
      BY <1>1, <2>3, <2>5, SkipStep DEF Remove, StopFeature, RemoveNode, StopEnd, StopAll, Stopped, Skip, Settle
    <3>2. QED BY <1>2, <2>1, <2>4, <3>1
  <2>6. CASE IfNoFeatures
    <3>1. StopFeatures \o RmModules \in Seq(DownInstr)
      BY LateProgram, SeqMonotonic DEF DownInstr, LateInstr
    <3>2. \E p \in Seq(DownInstr) : prog' = p \o Tail(prog)
      <4>1. prog' = (IF loaded \cap Features = {} THEN StopFeatures \o RmModules ELSE <<>>) \o Tail(prog)
        BY <2>6 DEF IfNoFeatures, Then
      <4>2. <<>> \in Seq(DownInstr)
        OBVIOUS
      <4>3. QED BY <3>1, <4>1, <4>2
    <3>3. prog' \in Seq(DownInstr)
      BY <2>1, <3>2, ConcatProperties
    <3>4. QED BY <1>2, <2>4, <3>3
  <2>7. QED BY <2>5, <2>6
<1>5. CASE Unwinding
  <2> DEFINE t == <<<<"reset", None>>>> \o S
  <2>1. S \in Seq(AllInstr) /\ <<"reset", None>> \in AllInstr
    BY <1>1, StartProgram, SeqMonotonic DEF AllInstr
  <2>2. t \in Seq(AllInstr) /\ Head(t) = <<"reset", None>>
    BY <2>1, Cons
  <2>3. Ends(prog, UnwindInstr, t)
    BY <1>5 DEF Unwinding
  <2>4. S' = S /\ UnwindInstr' = UnwindInstr
    BY <1>1, SameConfig DEF UnwindInstr, BailInstr, UnloadInstr
  <2> HIDE DEF t
  <2>5. prog # t
    BY <2>2, StepActions DEF First
  <2>6. Head(prog) \in UnwindInstr /\ Ends(Tail(prog), UnwindInstr, t)
    BY <2>2, <2>3, <2>5, PrefixStep
  <2>7. First \in {"rm", "stop_feature", "rm_node", "stopped_all"}
    BY <2>6 DEF First, UnwindInstr, BailInstr, UnloadInstr
  <2>8. Remove \/ StopFeature \/ RemoveNode \/ StopAll
    BY <2>7, StepActions
  <2>9. lock' = FALSE
    BY <2>8 DEF Remove, StopFeature, RemoveNode, StopAll, Stopped
  <2>10. loaded' \subseteq loaded /\ prog' = Tail(prog)
    BY <1>1, <2>6, UnwindStep
  <2>11. Unwinding'
    BY <2>4, <2>6, <2>10 DEF Unwinding, Ends, t
  <2>12. QED BY <1>2, <2>9, <2>10, <2>11
<1>6. QED BY <1>4, <1>5

(* The ends of a start and of a stop settle the matter. *)
LEMMA SettledHere ==
  ASSUME IInv, Step, EndLoad \/ StopEnd \/ StopAll, settled'
  PROVE  LockInv'
<1>1. /\ TypeInv /\ prog \in Seq(AllInstr) /\ prog # <<>> /\ cfg' = cfg /\ cfg \in Config
  BY ProgTyped, StepActions DEF IInv, TypeInv
<1>2. S' = S /\ SimpleInstr' = SimpleInstr /\ DownInstr' = DownInstr /\ UnwindInstr' = UnwindInstr
  BY <1>1, SameConfig DEF DownInstr, LateInstr, StopInstr, UnwindInstr, BailInstr, UnloadInstr
<1>3. CASE EndLoad
  <2>1. 1 \notin retval /\ lock' = TRUE /\ loaded' = loaded /\ prog' = Tail(prog)
    BY <1>3 DEF EndLoad, Settle
  <2>2. LoadedSoFar(8) /\ Tail(prog) \in Seq(FeatInstr)
    BY <1>3, <2>1, AtLock DEF Loading
  <2>3. cfg.hw \subseteq loaded
    BY <1>1, <2>2 DEF LoadedSoFar, Config, Hardware
  <2>4. prog' \in Seq(SimpleInstr)
    BY <2>1, <2>2, SeqMonotonic DEF SimpleInstr
  <2>5. QED BY <1>1, <1>2, <2>1, <2>3, <2>4 DEF LockInv, Agree
<1>4. CASE StopEnd \/ StopAll
  <2>1. lock' = FALSE /\ loaded' = loaded /\ cfg.intf \cap loaded = {} /\ prog' = Tail(prog)
    BY <1>4 DEF StopEnd, StopAll, Stopped, Settle
  <2>2. Agree'
    BY <1>1, <2>1 DEF Agree
  <2>3. Head(prog)[1] \in {"stopped", "stopped_all"}
    BY <1>4 DEF StopEnd, StopAll, Stopped, At
  <2>4. /\ \A x \in StartInstr \cup BailInstr \cup SimpleInstr : x[1] \notin {"stopped", "stopped_all"}
        /\ S \in Seq(StartInstr)
    BY <1>1, StartProgram
       DEF StartInstr, BailInstr, UnloadInstr, SimpleInstr, FeatInstr, StatusCommands
  <2>5. \A k \in 1..Len(S) : S[k] \in StartInstr
    BY <2>4
  <2>6. prog \in Seq(SimpleInstr) => Head(prog) \in SimpleInstr
    BY <1>1
  <2>7. \/ prog \in Seq(LateInstr) \/ prog = <<<<"stopped_all", None>>>>
        \/ Ends(Tail(prog), UnwindInstr, <<<<"reset", None>>>> \o S)
    BY <1>1, <2>3, <2>4, <2>5, <2>6, Where
  <2>8. CASE prog \in Seq(LateInstr)
    <3>1. prog' \in Seq(LateInstr)
      BY <1>1, <2>1, <2>8
    <3>2. prog' \in Seq(DownInstr)
      BY <3>1, SeqMonotonic DEF DownInstr
    <3>3. QED BY <1>2, <2>1, <2>2, <3>2 DEF LockInv
  <2>9. CASE prog = <<<<"stopped_all", None>>>>
    <3>1. prog' = <<>>
      BY <2>1, <2>9
    <3>2. prog' \in Seq(SimpleInstr)
      BY <3>1
    <3>3. QED BY <1>2, <2>2, <3>2 DEF LockInv
  <2>10. CASE Ends(Tail(prog), UnwindInstr, <<<<"reset", None>>>> \o S)
    <3>1. Unwinding'
      BY <1>2, <2>1, <2>10 DEF Unwinding, Ends
    <3>2. QED BY <2>1, <2>2, <3>1 DEF LockInv
  <2>11. QED BY <2>7, <2>8, <2>9, <2>10
<1>5. QED BY <1>3, <1>4

(* LockInv is inductive relative to IInv. *)
LEMMA LockNext == IInv /\ LockInv /\ [Next]_vars => LockInv'
<1> SUFFICES ASSUME IInv, LockInv, [Next]_vars, settled' PROVE LockInv'
  BY DEF LockInv
<1>1. CASE Step
  <2>1. cfg' = cfg
    BY <1>1, StepActions
  <2>2. SimpleInstr' = SimpleInstr /\ DownInstr' = DownInstr
    BY <2>1, SameConfig DEF DownInstr, LateInstr, StopInstr, UnwindInstr, BailInstr, UnloadInstr
  <2>3. CASE EndLoad \/ StopEnd \/ StopAll
    BY <1>1, <2>3, SettledHere
  <2>4. CASE ~(EndLoad \/ StopEnd \/ StopAll)
    <3>1. ~Reset
      BY DEF Reset, Settle
    <3>2. settled' = settled
      BY <1>1, <2>4, <3>1 DEF Step, StopEnd, StopAll, LoadBase, LoadHwModule, HwCheck, Bail, LoadDevintf, Wait,
         LoadImb, LoadFeature, StopFeature, Remove, RemoveNode, IfNoFeatures, Refuse, Status, Skip, Then
    <3>3. /\ Agree
          /\ prog \in Seq(SimpleInstr) \/ (lock = FALSE /\ (prog \in Seq(DownInstr) \/ Unwinding))
      BY <3>2 DEF LockInv
    <3>4. CASE prog \in Seq(SimpleInstr)
      BY <1>1, <2>2, <3>3, <3>4, SimpleKeeps DEF LockInv
    <3>5. CASE prog \notin Seq(SimpleInstr)
      BY <1>1, <2>2, <3>1, <3>3, <3>5, DownKeeps DEF LockInv
    <3>6. QED BY <3>4, <3>5
  <2>5. QED BY <2>3, <2>4
<1>2. CASE Environment \/ UNCHANGED vars
  <2>1. UNCHANGED <<cfg, loaded, lock, settled>> /\ (prog' = prog \/ prog' = <<>>)
    BY <1>2 DEF Environment, Udev, Hold, Release, Killed, vars
  <2>2. SimpleInstr' = SimpleInstr /\ DownInstr' = DownInstr /\ S' = S /\ UnwindInstr' = UnwindInstr
    BY <2>1, SameConfig DEF DownInstr, LateInstr, StopInstr, UnwindInstr, BailInstr, UnloadInstr
  <2>3. Agree'
    BY <2>1 DEF LockInv, Agree
  <2>4. CASE prog' = <<>>
    <3>1. prog' \in Seq(SimpleInstr)
      BY <2>4
    <3>2. QED BY <2>2, <2>3, <3>1 DEF LockInv
  <2>5. CASE prog' = prog
    <3>1. Unwinding' = Unwinding
      BY <2>2, <2>5 DEF Unwinding, Ends
    <3>2. QED BY <2>1, <2>2, <2>3, <2>5, <3>1 DEF LockInv
  <2>6. QED BY <2>1, <2>4, <2>5
<1>3. ASSUME NEW c \in Commands, Run(c) PROVE LockInv'
  <2>1. UNCHANGED <<cfg, loaded, lock>> /\ settled /\ prog' = Program(c) /\ (c \notin Controls \/ prog' = <<>>)
    BY <1>3 DEF Run
  <2>2. SimpleInstr' = SimpleInstr
    BY <2>1, SameConfig
  <2>3. Agree'
    BY <2>1 DEF LockInv, Agree
  <2>4. prog' \in Seq(SimpleInstr)
    <3>1. CASE prog' = <<>>
      BY <3>1
    <3>2. CASE c \notin Controls
      BY <2>1, <3>2, OtherProgram DEF Controls
    <3>3. QED BY <2>1, <3>1, <3>2
  <2>5. QED BY <2>2, <2>3, <2>4 DEF LockInv
<1>4. QED BY <1>1, <1>2, <1>3 DEF Next

(* After a start or stop that came to its end, the lock and the kernel     *)
(* agree, whatever runs, is held open or is killed until the next begins.  *)
THEOREM LockAndKernel == Spec => []LockAgrees
<1>1. Init => LockInv
  <2> SUFFICES ASSUME Init PROVE LockInv
    OBVIOUS
  <2>1. prog \in Seq(SimpleInstr) /\ Agree
    BY DEF Init, Agree
  <2>2. QED BY <2>1 DEF LockInv
<1>2. LockInv => LockAgrees
  BY DEF LockInv, Agree, LockAgrees
<1>3. QED BY <1>1, <1>2, LockNext, IInvInit, IInvNext, PTL DEF Spec
===============================================================================
