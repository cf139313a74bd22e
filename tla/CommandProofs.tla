---------------------------- MODULE CommandProofs ----------------------------
(***************************************************************************)
(* Every command of the offline systemctl comes nearer to its end with     *)
(* every step, and nothing comes nearer for ever: for every set of images, *)
(* command lines and bounds.  What liveness needs besides is fairness.     *)
(***************************************************************************)
EXTENDS SystemctlProofs, FiniteSetTheorems

(* There are finitely many names. *)
LEMMA NamesFinite == IsFiniteSet(Names)
<1>1. IsFiniteSet({Plain}) /\ IsFiniteSet({Bare})
  BY FS_Singleton
<1>2. IsFiniteSet({Plain} \cup {Bare})
  BY <1>1, FS_Union
<1>3. IsFiniteSet(Instances \cup ({Plain} \cup {Bare}))
  BY <1>2, NamesAssumption, FS_Union
<1>4. Instances \cup ({Plain} \cup {Bare}) = Instances \cup {Plain, Bare}
  OBVIOUS
<1>5. QED BY <1>3, <1>4, NamesAssumption, FS_Product DEF Names

(* The units that are not begun can be counted. *)
LEMMA UnitsCount ==
  ASSUME TypeOK
  PROVE  /\ IsFiniteSet(services) /\ Cardinality(services) \in Nat
         /\ Len(args) \in Nat /\ Len(args) + Cardinality(services) \in Nat
<1>1. services \in SUBSET Names /\ Len(args) \in Nat
  BY DEF TypeOK
<1>2. IsFiniteSet(services)
  BY <1>1, NamesFinite, FS_Subset
<1>3. Cardinality(services) \in Nat
  BY <1>2, FS_CardinalityType
<1>4. QED BY <1>1, <1>2, <1>3

(* Where the calls stand in what is left: the outermost of n has place 2,   *)
(* the innermost place n + 1.                                              *)
LEMMA LeftAt ==
  /\ DOMAIN Left = 1..(MaxDepth + 1) /\ MaxDepth \in Nat
  /\ Left[1] = Len(args) + Cardinality(services)
  /\ \A d \in 2..(MaxDepth + 1) :
       Left[d] = IF d <= Len(stack) + 1 THEN 1 + Len(stack[Len(stack) + 2 - d].jobs) ELSE 0
  BY BoundsAssumption DEF Left

(* What is left is a vector of numbers. *)
LEMMA LeftType ==
  ASSUME TypeOK
  PROVE  Left \in [1..(MaxDepth + 1) -> Nat]
<1>1. ASSUME NEW d \in 2..(MaxDepth + 1), d <= Len(stack) + 1
      PROVE  1 + Len(stack[Len(stack) + 2 - d].jobs) \in Nat
  <2>1. Len(stack) \in Nat /\ Len(stack) + 2 - d \in 1..Len(stack)
    BY <1>1, LeftAt DEF TypeOK
  <2>2. stack[Len(stack) + 2 - d] \in Frame
    BY <2>1 DEF TypeOK
  <2>3. stack[Len(stack) + 2 - d].jobs \in Seq(Job)
    BY <2>2 DEF Frame
  <2>4. QED BY <2>3
<1>2. \A d \in 1..(MaxDepth + 1) : Left[d] \in Nat
  <2>1. TAKE d \in 1..(MaxDepth + 1)
  <2>2. CASE d = 1
    BY <2>2, UnitsCount, LeftAt
  <2>3. CASE d # 1
    <3>1. d \in 2..(MaxDepth + 1)
      BY <2>3, LeftAt
    <3>2. CASE d <= Len(stack) + 1
      BY <1>1, <3>1, <3>2, LeftAt
    <3>3. CASE ~(d <= Len(stack) + 1)
      BY <3>1, <3>3, LeftAt
    <3>4. QED BY <3>2, <3>3
  <2>4. QED BY <2>2, <2>3
<1>3. QED BY <1>2 DEF Left

(* Where a call stands below the innermost of n. *)
LEMMA Below ==
  ASSUME NEW n \in Nat, NEW m \in Nat, n <= m, NEW e \in 1..n, e # 1
  PROVE  /\ e \in 2..n /\ e \in 2..(n + 1) /\ e \in 2..(m + 1) /\ n + 2 - e \in 2..n
         /\ e <= (n - 1) + 1 /\ (n - 1) + 2 - e = (n + 2 - e) - 1
  OBVIOUS

(* One unit less is nearer to the end, whatever it puts on the stack. *)
LEMMA UnitTaken ==
  ASSUME TypeOK, TypeOK',
         Len(args') + Cardinality(services') < Len(args) + Cardinality(services)
  PROVE  Lower(Left', Left)
<1>1. Left'[1] < Left[1]
  BY LeftAt, BoundsAssumption DEF Left
<1>2. 1 \in DOMAIN Left /\ 1..(1 - 1) = {}
  BY LeftAt
<1>3. QED BY <1>1, <1>2 DEF Lower

(* So is a line less of the innermost call, whatever it calls. *)
Worked ==
    /\ Head(stack).jobs # <<>>
    /\ stack' = Advanced \/ \E f \in Frame : stack' = <<f>> \o Advanced
LEMMA LineDone ==
  ASSUME TypeOK, InEnable, Len(stack) <= MaxDepth, UNCHANGED <<args, services>>, Worked
  PROVE  Lower(Left', Left)
<1> DEFINE n == Len(stack)
<1>1. n \in Nat /\ n >= 1 /\ stack \in Seq(Frame) /\ Head(stack) = stack[1]
  BY DEF InEnable, TypeOK
<1>2. n + 1 \in 2..(MaxDepth + 1) /\ n + 1 \in DOMAIN Left
  BY <1>1, LeftAt
<1>3. /\ Len(Advanced) = n /\ Advanced \in Seq(Frame)
      /\ Advanced[1].jobs = Tail(stack[1].jobs) /\ \A i \in 2..n : Advanced[i] = stack[i]
  <2> DEFINE g == [Head(stack) EXCEPT !.jobs = Tail(@)]
  <2>1. Head(stack) \in Frame /\ Tail(stack) \in Seq(Frame) /\ Advanced \in Seq(Frame)
    BY TopFrame DEF Worked
  <2>2. g.jobs = Tail(stack[1].jobs)
    BY <1>1, <2>1 DEF Frame
  <2>3. Len(Tail(stack)) = n - 1 /\ \A i \in 2..n : Tail(stack)[i - 1] = stack[i]
    BY <1>1
  <2>4. Advanced = <<g>> \o Tail(stack)
    BY DEF Advanced
  <2>5. Len(<<g>> \o Tail(stack)) = n /\ (<<g>> \o Tail(stack))[1] = g
        /\ \A i \in 2..n : (<<g>> \o Tail(stack))[i] = Tail(stack)[i - 1]
    BY <1>1, <2>1, <2>3
  <2>6. QED BY <2>1, <2>2, <2>3, <2>4, <2>5
<1>4. \E k \in {0, 1} : Len(stack') = n + k /\ \A i \in 1..n : stack'[i + k] = Advanced[i]
  <2>1. CASE stack' = Advanced
    BY <1>1, <1>3, <2>1
  <2>2. ASSUME NEW f \in Frame, stack' = <<f>> \o Advanced
        PROVE  Len(stack') = n + 1 /\ \A i \in 1..n : stack'[i + 1] = Advanced[i]
    BY <1>1, <1>3, <2>2
  <2>3. QED BY <2>1, <2>2 DEF Worked
<1>5. PICK k \in {0, 1} : Len(stack') = n + k /\ \A i \in 1..n : stack'[i + k] = Advanced[i]
  BY <1>4
<1>6. ASSUME NEW d \in 2..(n + 1)
      PROVE  Left'[d] = 1 + Len(Advanced[n + 2 - d].jobs)
  <2>1. d \in 2..(MaxDepth + 1) /\ d <= Len(stack') + 1
    BY <1>1, <1>5, <1>6, LeftAt
  <2>2. Left'[d] = 1 + Len(stack'[Len(stack') + 2 - d].jobs)
    BY <2>1, BoundsAssumption DEF Left
  <2>3. n + 2 - d \in 1..n /\ Len(stack') + 2 - d = (n + 2 - d) + k
    BY <1>1, <1>5, <1>6
  <2>4. stack'[Len(stack') + 2 - d] = Advanced[n + 2 - d]
    BY <1>5, <2>3
  <2>5. QED BY <2>2, <2>4
<1>7. ASSUME NEW e \in 1..n PROVE Left'[e] = Left[e]
  <2>1. CASE e = 1
    BY <2>1, LeftAt, BoundsAssumption DEF Left
  <2>2. CASE e # 1
    <3>1. e \in 2..(n + 1) /\ e \in 2..(MaxDepth + 1) /\ n + 2 - e \in 2..n
      BY <1>1, <2>2, LeftAt, Below
    <3>2. Left[e] = 1 + Len(stack[n + 2 - e].jobs)
      BY <1>1, <3>1, LeftAt
    <3>3. QED BY <1>3, <1>6, <3>1, <3>2
  <2>3. QED BY <2>1, <2>2
<1>8. Left'[n + 1] < Left[n + 1]
  <2>1. stack[1].jobs \in Seq(Job) /\ stack[1].jobs # <<>>
    <3>1. stack[1] \in Frame
      BY <1>1, TopFrame DEF Worked
    <3>2. QED BY <1>1, <3>1 DEF Worked, Frame
  <2>2. Len(Tail(stack[1].jobs)) < Len(stack[1].jobs) /\ Len(stack[1].jobs) \in Nat
        /\ Len(Tail(stack[1].jobs)) \in Nat
    BY <2>1
  <2>3. n + 1 \in 2..(n + 1) /\ n + 2 - (n + 1) = 1
    BY <1>1
  <2>4. Left'[n + 1] = 1 + Len(Tail(stack[1].jobs))
    BY <1>3, <1>6, <2>3
  <2>5. Left[n + 1] = 1 + Len(stack[1].jobs)
    BY <1>1, <1>2, <2>3, LeftAt
  <2>6. QED BY <2>2, <2>4, <2>5
<1>9. 1..((n + 1) - 1) = 1..n
  BY <1>1
<1>10. QED BY <1>2, <1>7, <1>8, <1>9 DEF Lower

(* And so is the end of a call. *)
LEMMA CallDone ==
  ASSUME TypeOK, InEnable, Len(stack) <= MaxDepth, UNCHANGED <<args, services>>,
         Head(stack).jobs = <<>>, stack' = Tail(stack)
  PROVE  Lower(Left', Left)
<1> DEFINE n == Len(stack)
<1>1. n \in Nat /\ n >= 1 /\ stack \in Seq(Frame) /\ Head(stack) = stack[1]
  BY DEF InEnable, TypeOK
<1>2. n + 1 \in 2..(MaxDepth + 1) /\ n + 1 \in DOMAIN Left
  BY <1>1, LeftAt
<1>3. Len(stack') = n - 1 /\ \A i \in 2..n : stack'[i - 1] = stack[i]
  BY <1>1
<1>4. ASSUME NEW e \in 1..n PROVE Left'[e] = Left[e]
  <2>1. CASE e = 1
    BY <2>1, LeftAt, BoundsAssumption DEF Left
  <2>2. CASE e # 1
    <3>1. e \in 2..n /\ e \in 2..(MaxDepth + 1) /\ n + 2 - e \in 2..n /\ e <= Len(stack') + 1
      BY <1>1, <1>3, <2>2, LeftAt, Below
    <3>2. Left[e] = 1 + Len(stack[n + 2 - e].jobs)
      BY <1>1, <3>1, LeftAt
    <3>3. Left'[e] = 1 + Len(stack'[Len(stack') + 2 - e].jobs)
      BY <3>1, BoundsAssumption DEF Left
    <3>4. Len(stack') + 2 - e = (n + 2 - e) - 1
      BY <1>1, <1>3, <3>1
    <3>5. QED BY <1>3, <3>1, <3>2, <3>3, <3>4
  <2>3. QED BY <2>1, <2>2
<1>5. Left'[n + 1] < Left[n + 1]
  <2>1. ~(n + 1 <= Len(stack') + 1) /\ n + 2 - (n + 1) = 1 /\ Len(<<>>) = 0
    BY <1>1, <1>3
  <2>2. Left'[n + 1] = 0
    BY <1>2, <2>1, BoundsAssumption DEF Left
  <2>3. Left[n + 1] = 1 + 0
    BY <1>1, <1>2, <2>1, LeftAt
  <2>4. QED BY <2>2, <2>3
<1>6. 1..((n + 1) - 1) = 1..n
  BY <1>1
<1>7. QED BY <1>2, <1>4, <1>5, <1>6 DEF Lower

-----------------------------------------------------------------------------
(* How the steps of a command move its stack *)

(* A call that does not end the command leaves the stack below it, with a  *)
(* frame more if the interpreter has room for it.                          *)
LEMMA CallMoves ==
  ASSUME TypeOK, NEW n \in Names, NEW caller \in Names \cup {NoCaller},
         NEW below, Call(n, caller, below)
  PROVE  \/ status' # "running" /\ stack' = <<>>
         \/ stack' = below /\ UNCHANGED status
         \/ Len(below) < MaxDepth /\ \E f \in Frame : stack' = <<f>> \o below
<1>1. CASE /\ RegularIn(links, FileOf(n)) /\ ~NoInstance(FirstIn(links, FileOf(n)), n)
           /\ Len(below) < MaxDepth /\ stack' = <<NewFrame(n, caller)>> \o below
  <2>1. NewFrame(n, caller) \in Frame
    BY <1>1, NewFrameType DEF TypeOK
  <2>2. QED BY <1>1, <2>1
<1>2. QED BY <1>1 DEF Call, Abort

LEMMA AddLinkMoves ==
  ASSUME NEW p, NEW t, NEW after, AddLink(p, t, after)
  PROVE  (status' # "running" /\ stack' = <<>>) \/ stack' = after
  BY DEF AddLink, Abort

(* The steps inside a call: one of its lines, or its end. *)
LEMMA CallSteps ==
  ASSUME TypeOK, DepStep \/ AlsoStep \/ AliasStep \/ Return
  PROVE  /\ InEnable /\ UNCHANGED <<args, services>>
         /\ \/ status' # "running" /\ stack' = <<>>
            \/ Head(stack).jobs # <<>> /\ stack' = Advanced
            \/ /\ Head(stack).jobs # <<>> /\ Len(Advanced) < MaxDepth
               /\ \E f \in Frame : stack' = <<f>> \o Advanced
            \/ Head(stack).jobs = <<>> /\ stack' = Tail(stack)
<1>1. CASE DepStep
  BY <1>1, AddLinkMoves DEF DepStep, Doing
<1>2. CASE AliasStep
  BY <1>2, AddLinkMoves DEF AliasStep, Doing
<1>3. CASE AlsoStep
  <2>1. TopJob.name \in Names /\ Head(stack).unit \in Names
    BY <1>3, TopFrame DEF AlsoStep, Doing, Job, Frame
  <2>2. QED BY <1>3, <2>1, CallMoves DEF AlsoStep, Doing
<1>4. CASE Return
  BY <1>4 DEF Return
<1>5. QED BY <1>1, <1>2, <1>3, <1>4

(* The steps that begin a unit, with an empty stack. *)
LEMMA UnitSteps ==
  ASSUME TypeOK, MaskNext \/ EnableNext \/ \E n \in Names : PresetNext(n)
  PROVE  /\ Len(args') + Cardinality(services') < Len(args) + Cardinality(services)
         /\ \/ stack' = <<>> \/ stack' = stack
            \/ \E f \in Frame : stack' = <<f>> \o <<>>
<1>1. ASSUME MaskNext \/ EnableNext
      PROVE  Len(args') + Cardinality(services') < Len(args) + Cardinality(services)
  <2>1. args \in Seq(Names) /\ args # <<>> /\ args' = Tail(args) /\ services' = services
    BY <1>1 DEF MaskNext, EnableNext, TypeOK
  <2>2. Len(Tail(args)) = Len(args) - 1
    BY <2>1
  <2>3. QED BY <2>1, <2>2, UnitsCount
<1>2. CASE MaskNext
  BY <1>1, <1>2, AddLinkMoves DEF MaskNext
<1>3. CASE EnableNext
  <2>1. Head(args) \in Names
    BY <1>3 DEF EnableNext, TypeOK
  <2>2. QED BY <1>1, <1>3, <2>1, CallMoves DEF EnableNext
<1>4. ASSUME NEW n \in Names, PresetNext(n)
      PROVE  /\ Len(args') + Cardinality(services') < Len(args) + Cardinality(services)
             /\ \/ stack' = <<>> \/ stack' = stack
                \/ \E f \in Frame : stack' = <<f>> \o <<>>
  <2>1. n \in services /\ services' = services \ {n} /\ args' = args
    BY <1>4 DEF PresetNext
  <2>2. Cardinality(services') = Cardinality(services) - 1
    BY <2>1, UnitsCount, FS_RemoveElement
  <2>3. Len(args') + Cardinality(services') < Len(args) + Cardinality(services)
    BY <2>1, <2>2, UnitsCount
  <2>4. QED BY <1>4, <2>3, CallMoves DEF PresetNext
<1>5. QED BY <1>2, <1>3, <1>4

(* The stack is never deeper than the interpreter allows. *)
Shallow == Len(stack) <= MaxDepth
LEMMA ShallowNext == TypeOK /\ Shallow /\ [Next]_vars => Shallow'
<1> SUFFICES ASSUME TypeOK, Shallow, [Next]_vars PROVE Shallow'
  OBVIOUS
<1>1. Len(<<>>) = 0 /\ MaxDepth \in Nat /\ MaxDepth >= 1 /\ Len(stack) \in Nat
  BY BoundsAssumption DEF TypeOK
<1>2. ASSUME stack' = <<>> \/ stack' = stack PROVE Shallow'
  BY <1>1, <1>2 DEF Shallow
<1>3. ASSUME NEW f \in Frame, stack' = <<f>> \o <<>> PROVE Shallow'
  BY <1>1, <1>3 DEF Shallow
<1>4. CASE MaskNext \/ EnableNext \/ \E n \in Names : PresetNext(n)
  BY <1>2, <1>3, <1>4, UnitSteps
<1>5. CASE DepStep \/ AlsoStep \/ AliasStep \/ Return
  <2>1. InEnable
    BY <1>5, CallSteps
  <2>2. Tail(stack) \in Seq(Frame) /\ Len(Tail(stack)) = Len(stack) - 1
    BY <2>1 DEF InEnable, TypeOK
  <2>3. ASSUME Head(stack).jobs # <<>>
        PROVE  Advanced \in Seq(Frame) /\ Len(Advanced) = Len(stack)
    <3>1. Advanced \in Seq(Frame)
      BY <2>1, <2>3, TopFrame
    <3>2. QED BY <1>1, <2>2, <3>1 DEF Advanced
  <2>4. CASE Head(stack).jobs # <<>> /\ stack' = Advanced
    BY <2>3, <2>4 DEF Shallow
  <2>5. ASSUME NEW f \in Frame, Head(stack).jobs # <<>>, Len(Advanced) < MaxDepth,
               stack' = <<f>> \o Advanced
        PROVE  Shallow'
    <3>1. Len(stack') = 1 + Len(Advanced) /\ Len(Advanced) \in Nat
      BY <2>3, <2>5
    <3>2. QED BY <1>1, <2>5, <3>1 DEF Shallow
  <2>6. CASE stack' = Tail(stack)
    BY <1>1, <2>2, <2>6 DEF Shallow
  <2>7. QED BY <1>2, <1>5, <2>4, <2>5, <2>6, CallSteps
<1>6. CASE Finish \/ Killed \/ (\E r \in Requests : Start(r)) \/ UNCHANGED vars
  BY <1>2, <1>6 DEF Finish, Killed, Abort, Start, vars
<1>7. QED BY <1>4, <1>5, <1>6 DEF Next, Step

LEMMA ShallowInit == Init => Shallow
  BY BoundsAssumption DEF Init, Shallow

(* Every step of a running command ends it or leaves less to do. *)
THEOREM CommandsGetNearer == Spec => CommandsAdvance
<1> DEFINE A == status = "running" => status' # "running" \/ Lower(Left', Left)
<1>1. TypeOK /\ TypeOK' /\ Shallow /\ [Next]_vars => [A]_vars
  <2> SUFFICES ASSUME TypeOK, TypeOK', Shallow, Next, status = "running", status' = "running"
               PROVE  Lower(Left', Left)
    OBVIOUS
  <2>1. CASE MaskNext \/ EnableNext \/ \E n \in Names : PresetNext(n)
    BY <2>1, UnitSteps, UnitTaken
  <2>2. CASE DepStep \/ AlsoStep \/ AliasStep \/ Return
    <3>1. InEnable /\ UNCHANGED <<args, services>>
      BY <2>2, CallSteps
    <3>2. Worked \/ (Head(stack).jobs = <<>> /\ stack' = Tail(stack))
      BY <2>2, CallSteps DEF Worked
    <3>3. QED BY <3>1, <3>2, LineDone, CallDone DEF Shallow
  <2>3. ~Finish /\ ~Killed /\ \A r \in Requests : ~Start(r)
    BY DEF Finish, Killed, Abort, Start
  <2>4. QED BY <2>1, <2>2, <2>3 DEF Next, Step
<1>2. QED BY <1>1, TypeCorrect, ShallowInit, ShallowNext, PTL DEF Spec, CommandsAdvance

(* What is left of a command is always a vector of MaxDepth + 1 numbers,    *)
(* which has room for every active call.                                   *)
THEOREM CommandsMeasured ==
  Spec => [](Left \in [1..(MaxDepth + 1) -> Nat] /\ Len(stack) <= MaxDepth)
<1>1. TypeOK /\ Shallow => Left \in [1..(MaxDepth + 1) -> Nat] /\ Len(stack) <= MaxDepth
  BY LeftType DEF Shallow
<1>2. QED BY <1>1, TypeCorrect, ShallowInit, ShallowNext, PTL DEF Spec

(* Lower is well-founded, so that a step that lowers what is left of a      *)
(* command, as CommandsGetNearer says every step does, brings it nearer to *)
(* its end.                                                                *)
LEMMA LowerWellFounded ==
  ~ \E left \in [Nat -> [1..(MaxDepth + 1) -> Nat]] :
      \A i \in Nat : Lower(left[i + 1], left[i])
<1> DEFINE R == OpToRel(<, Nat)
           k == MaxDepth + 1
           Vectors == [1..k -> Nat]
<1>1. k \in Nat
  BY BoundsAssumption
<1>2. IsWellFoundedOn(R, Nat)
  BY NatLessThanWellFounded
<1>3. IsWellFoundedOn(LexProductOrdering(R, Nat, k), Vectors)
  <2> HIDE DEF R, k
  <2>1. QED BY <1>1, <1>2, WFLexProductOrdering
<1>4. ASSUME NEW v \in Vectors, NEW w \in Vectors, Lower(v, w)
      PROVE  <<v, w>> \in LexProductOrdering(R, Nat, k)
  <2>1. PICK d \in 1..k : v[d] < w[d] /\ \A e \in 1..(d - 1) : v[e] = w[e]
    BY <1>4 DEF Lower
  <2>2. <<v[d], w[d]>> \in R
    BY <2>1 DEF OpToRel
  <2>3. QED BY <2>1, <2>2 DEF LexProductOrdering
<1>5. SUFFICES ASSUME NEW left \in [Nat -> Vectors],
                      \A i \in Nat : Lower(left[i + 1], left[i])
               PROVE  FALSE
  OBVIOUS
<1>6. \A i \in Nat : <<left[i + 1], left[i]>> \in LexProductOrdering(R, Nat, k)
  <2> HIDE DEF R, k, Vectors
  <2>1. ASSUME NEW i \in Nat
        PROVE  <<left[i + 1], left[i]>> \in LexProductOrdering(R, Nat, k)
    <3>1. left[i] \in Vectors /\ left[i + 1] \in Vectors /\ Lower(left[i + 1], left[i])
      BY <1>5
    <3>2. QED BY <1>4, <3>1
  <2>2. QED BY <2>1
<1>7. QED BY <1>3, <1>6 DEF IsWellFoundedOn
=============================================================================
