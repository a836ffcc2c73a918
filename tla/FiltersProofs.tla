---------------------------- MODULE FiltersProofs ----------------------------
(***************************************************************************)
(* Filters keep their meaning when they are converted to a text and back.  *)
(*   1. Induction over the natural numbers, and the equations of the       *)
(*      recursive functions of Filters.                                    *)
(*   2. Trees: the bound on the depth makes no difference to what a tree   *)
(*      gives and how it is written.                                       *)
(*   3. Texts: what the scan does with a stretch of a text (Moves, Quiet), *)
(*      and what a text is taken apart into (Piece, Splits, Reads).        *)
(*   4. A tree is written as a text that says the same of every record     *)
(*      (Says), which is what the parser and the evaluation of the text    *)
(*      find in it.                                                        *)
(*   5. The inductive invariant RoundTripInv and the theorems.             *)
(***************************************************************************)
EXTENDS Filters, WellFoundedInduction, SequenceTheorems, TLAPS

-----------------------------------------------------------------------------
(* A set of natural numbers that is not empty has a least element. *)
LEMMA LeastNumber ==
    ASSUME NEW T \in SUBSET Nat, T # {}
    PROVE  \E x \in T : \A y \in T : x <= y
<1> DEFINE Less == {ss \in Nat \X Nat : ss[1] < ss[2]}
<1>1. IsWellFoundedOn(Less, Nat)
    BY NatLessThanWellFounded DEF OpToRel
<1>2. \A x, y \in Nat : ~(<<y, x>> \in Less) => x <= y
    OBVIOUS
<1> HIDE DEF Less
<1>3. T \subseteq Nat
    OBVIOUS
<1>4. \E x \in T : \A y \in T : ~(<<y, x>> \in Less)
    BY <1>1, <1>3, WFMin, Zenon
<1>5. PICK x \in T : \A y \in T : ~(<<y, x>> \in Less)
    BY <1>4
<1>6. \A y \in T : x <= y
    BY Zenon, <1>2, <1>3, <1>5
<1> QED BY <1>6

(* Induction: a set that has 0, and with every number the next one, has    *)
(* them all.                                                               *)
THEOREM Induction ==
    ASSUME NEW S, 0 \in S, \A n \in Nat : n \in S => n + 1 \in S
    PROVE  \A n \in Nat : n \in S
<1> SUFFICES ASSUME Nat \ S # {}
             PROVE  FALSE
    OBVIOUS
<1>1. PICK x \in Nat \ S : \A y \in Nat \ S : x <= y
    BY Zenon, LeastNumber
<1>2. x # 0 /\ x - 1 \in Nat
    BY <1>1
<1>3. x - 1 \in S
    BY <1>1, <1>2
<1>4. (x - 1) + 1 \in S
    BY <1>2, <1>3
<1> QED BY <1>1, <1>2, <1>4

-----------------------------------------------------------------------------
(* The recursive functions follow their equations.                         *)
NodesStep(v, n) == IF n = 0 THEN {} ELSE Conditions \cup GroupsOf(v)

ExpressibleStep(v, n) ==
    IF n = 0 THEN {}
    ELSE {c \in Conditions : c.op \in SymbolOps \cup {"exists"}}
            \cup {g \in GroupsOf(v) : Len(g.conditions) > 1}

EvaluatedStep(v, n) ==
    [node \in FilterNodes[n] |-> [data \in Data |->
        IF node.type = "condition" THEN evaluateCondition(node, data)
        ELSE evaluateGroup(node.operator,
                [i \in DOMAIN node.conditions |-> v[node.conditions[i]][data]])]]

ExpressionsStep(v, n) ==
    [node \in FilterNodes[n] |->
        IF node.type = "condition" THEN <<conditionToExpression(node)>>
        ELSE IF Len(node.conditions) = 1 THEN v[node.conditions[1]]
        ELSE Join([i \in DOMAIN node.conditions |->
                        Nested(node.conditions[i], node.operator, v[node.conditions[i]])],
                  Separator(node.operator))]

JoinedStep(v, k) ==
    [parts \in Seq(Texts) |-> [separator \in Tokens |->
        CASE k = 0 -> <<>>
          [] k = 1 -> parts[1]
          [] OTHER -> v[parts][separator] \o <<separator>> \o parts[k]]]

ScannedStep(v, i) ==
    [text \in Texts |-> [separator \in Tokens |-> [nested \in BOOLEAN |->
        IF i = 0 THEN Scan(<<>>, <<>>, 0)
        ELSE ScanToken(v[text][separator][nested], text[i], separator, nested)]]]

ParsedStep(v, n) ==
    [text \in Texts |->
        LET ors == splitLogical(text, Separator("or"))
            ands == splitLogical(text, Separator("and"))
        IN  IF n = 0 THEN Unreadable
            ELSE IF Len(ors) > 1 THEN parseLogicalGroup([i \in DOMAIN ors |-> v[ors[i]]], "or")
            ELSE IF Len(ands) > 1 THEN parseLogicalGroup([i \in DOMAIN ands |-> v[ands[i]]], "and")
            ELSE IF text[1] = Open /\ text[Len(text)] = Close THEN v[SubSeq(text, 2, Len(text) - 1)]
            ELSE parseSingleCondition(text)]

(* There is none before 0.                                                 *)
Before(n, x) == IF n = 0 THEN {} ELSE x

(* One step of all of them, from the values before it.                     *)
AllSteps(v, n) ==
    [nodes |-> NodesStep(Before(n, v.nodes), n),
     expressible |-> ExpressibleStep(Before(n, v.expressible), n),
     evaluated |-> EvaluatedStep(Before(n, v.evaluated), n),
     expressions |-> ExpressionsStep(Before(n, v.expressions), n),
     joined |-> JoinedStep(Before(n, v.joined), n),
     scanned |-> ScannedStep(Before(n, v.scanned), n),
     parsed |-> ParsedStep(Before(n, v.parsed), n)]
Steps == INSTANCE NatRecursion WITH Step <- AllSteps

LEMMA StepsFollow ==
    \A n \in Nat :
        /\ Steps!Rec[n].nodes = NodesStep(Before(n, Steps!Rec[n - 1].nodes), n)
        /\ Steps!Rec[n].expressible = ExpressibleStep(Before(n, Steps!Rec[n - 1].expressible), n)
        /\ Steps!Rec[n].evaluated = EvaluatedStep(Before(n, Steps!Rec[n - 1].evaluated), n)
        /\ Steps!Rec[n].expressions = ExpressionsStep(Before(n, Steps!Rec[n - 1].expressions), n)
        /\ Steps!Rec[n].joined = JoinedStep(Before(n, Steps!Rec[n - 1].joined), n)
        /\ Steps!Rec[n].scanned = ScannedStep(Before(n, Steps!Rec[n - 1].scanned), n)
        /\ Steps!Rec[n].parsed = ParsedStep(Before(n, Steps!Rec[n - 1].parsed), n)
<1>1. \A v, w : AllSteps(v, 0) = AllSteps(w, 0)
    BY DEF AllSteps, Before
<1>2. \A n \in Nat : Steps!Rec[n] = AllSteps(Steps!Rec[n - 1], n)
    BY <1>1, Steps!Recursion, Induction DEF Steps!Starts, Steps!InductionHolds
<1>3. ASSUME NEW v, NEW n
      PROVE  /\ AllSteps(v, n).nodes = NodesStep(Before(n, v.nodes), n)
             /\ AllSteps(v, n).expressible = ExpressibleStep(Before(n, v.expressible), n)
             /\ AllSteps(v, n).evaluated = EvaluatedStep(Before(n, v.evaluated), n)
             /\ AllSteps(v, n).expressions = ExpressionsStep(Before(n, v.expressions), n)
             /\ AllSteps(v, n).joined = JoinedStep(Before(n, v.joined), n)
             /\ AllSteps(v, n).scanned = ScannedStep(Before(n, v.scanned), n)
             /\ AllSteps(v, n).parsed = ParsedStep(Before(n, v.parsed), n)
    BY DEF AllSteps
<1> QED BY <1>2, <1>3

LEMMA NodesEq ==
    /\ FilterNodes[0] = {}
    /\ \A n \in Nat : FilterNodes[n + 1] = Conditions \cup GroupsOf(FilterNodes[n])
<1>1. FilterNodes = CHOOSE f : f = [n \in Nat |-> NodesStep(f[n - 1], n)]
    BY DEF FilterNodes, NodesStep
<1>2. \A v, w : NodesStep(v, 0) = NodesStep(w, 0)
    BY DEF NodesStep
<1>3. \A n \in Nat : FilterNodes[n] = NodesStep(FilterNodes[n - 1], n)
  <2> DEFINE f == [n \in Nat |-> Steps!Rec[n].nodes]
  <2>1. ASSUME NEW n \in Nat PROVE f[n] = NodesStep(f[n - 1], n)
    <3>1. CASE n = 0
        BY <1>2, <3>1, StepsFollow
    <3>2. CASE n # 0
        BY <3>2, StepsFollow DEF Before
    <3> QED BY <3>1, <3>2
  <2>2. f = [n \in Nat |-> f[n]]
      OBVIOUS
  <2> HIDE DEF f
  <2>3. f = [n \in Nat |-> NodesStep(f[n - 1], n)]
      BY <2>1, <2>2
  <2>4. FilterNodes = [n \in Nat |-> NodesStep(FilterNodes[n - 1], n)]
      BY <1>1, <2>3
  <2> QED BY <2>4
<1>4. \A n \in Nat : n + 1 # 0 /\ n + 1 \in Nat /\ (n + 1) - 1 = n
    OBVIOUS
<1>5. FilterNodes[0] = {}
    BY Zenon, <1>3 DEF NodesStep
<1>6. ASSUME NEW n \in Nat PROVE FilterNodes[n + 1] = Conditions \cup GroupsOf(FilterNodes[n])
  <2>1. FilterNodes[n + 1] = NodesStep(FilterNodes[(n + 1) - 1], n + 1)
    BY <1>3, <1>4
  <2> QED BY <2>1, <1>4 DEF NodesStep
<1> QED BY <1>5, <1>6

Comparisons == {c \in Conditions : c.op \in SymbolOps \cup {"exists"}}
GroupsOfSeveral(nodes) == {g \in GroupsOf(nodes) : Len(g.conditions) > 1}

LEMMA ExpressibleEq ==
    /\ Expressible[0] = {}
    /\ \A n \in Nat : Expressible[n + 1] = Comparisons \cup GroupsOfSeveral(Expressible[n])
<1>1. Expressible = CHOOSE f : f = [n \in Nat |-> ExpressibleStep(f[n - 1], n)]
    BY DEF Expressible, ExpressibleStep
<1>2. \A v, w : ExpressibleStep(v, 0) = ExpressibleStep(w, 0)
    BY DEF ExpressibleStep
<1>3. \A n \in Nat : Expressible[n] = ExpressibleStep(Expressible[n - 1], n)
  <2> DEFINE f == [n \in Nat |-> Steps!Rec[n].expressible]
  <2>1. ASSUME NEW n \in Nat PROVE f[n] = ExpressibleStep(f[n - 1], n)
    <3>1. CASE n = 0
        BY <1>2, <3>1, StepsFollow
    <3>2. CASE n # 0
        BY <3>2, StepsFollow DEF Before
    <3> QED BY <3>1, <3>2
  <2>2. f = [n \in Nat |-> f[n]]
      OBVIOUS
  <2> HIDE DEF f
  <2>3. f = [n \in Nat |-> ExpressibleStep(f[n - 1], n)]
      BY <2>1, <2>2
  <2>4. Expressible = [n \in Nat |-> ExpressibleStep(Expressible[n - 1], n)]
      BY <1>1, <2>3
  <2> QED BY <2>4
<1>4. \A n \in Nat : n + 1 # 0 /\ n + 1 \in Nat /\ (n + 1) - 1 = n
    OBVIOUS
<1>5. Expressible[0] = {}
    BY Zenon, <1>3 DEF ExpressibleStep
<1>6. ASSUME NEW n \in Nat PROVE Expressible[n + 1] = Comparisons \cup GroupsOfSeveral(Expressible[n])
  <2>1. Expressible[n + 1] = ExpressibleStep(Expressible[(n + 1) - 1], n + 1)
    BY <1>3, <1>4
  <2> QED BY <2>1, <1>4 DEF ExpressibleStep, Comparisons, GroupsOfSeveral
<1> QED BY <1>5, <1>6

LEMMA EvaluatedEq ==
    \A n \in Nat : evaluated[n + 1] = EvaluatedStep(evaluated[n], n + 1)
<1>1. evaluated = CHOOSE f : f = [n \in Nat |-> EvaluatedStep(f[n - 1], n)]
    BY DEF evaluated, EvaluatedStep
<1>2. \A v, w : EvaluatedStep(v, 0) = EvaluatedStep(w, 0)
    BY NodesEq DEF EvaluatedStep
<1>3. \A n \in Nat : evaluated[n] = EvaluatedStep(evaluated[n - 1], n)
  <2> DEFINE f == [n \in Nat |-> Steps!Rec[n].evaluated]
  <2>1. ASSUME NEW n \in Nat PROVE f[n] = EvaluatedStep(f[n - 1], n)
    <3>1. CASE n = 0
        BY <1>2, <3>1, StepsFollow
    <3>2. CASE n # 0
        BY <3>2, StepsFollow DEF Before
    <3> QED BY <3>1, <3>2
  <2>2. f = [n \in Nat |-> f[n]]
      OBVIOUS
  <2> HIDE DEF f
  <2>3. f = [n \in Nat |-> EvaluatedStep(f[n - 1], n)]
      BY <2>1, <2>2
  <2>4. evaluated = [n \in Nat |-> EvaluatedStep(evaluated[n - 1], n)]
      BY <1>1, <2>3
  <2> QED BY <2>4
<1>4. \A n \in Nat : n + 1 # 0 /\ n + 1 \in Nat /\ (n + 1) - 1 = n
    OBVIOUS
<1> QED BY <1>3, <1>4

LEMMA ExpressionsEq ==
    \A n \in Nat : expressions[n + 1] = ExpressionsStep(expressions[n], n + 1)
<1>1. expressions = CHOOSE f : f = [n \in Nat |-> ExpressionsStep(f[n - 1], n)]
    BY DEF expressions, ExpressionsStep
<1>2. \A v, w : ExpressionsStep(v, 0) = ExpressionsStep(w, 0)
    BY NodesEq DEF ExpressionsStep
<1>3. \A n \in Nat : expressions[n] = ExpressionsStep(expressions[n - 1], n)
  <2> DEFINE f == [n \in Nat |-> Steps!Rec[n].expressions]
  <2>1. ASSUME NEW n \in Nat PROVE f[n] = ExpressionsStep(f[n - 1], n)
    <3>1. CASE n = 0
        BY <1>2, <3>1, StepsFollow
    <3>2. CASE n # 0
        BY <3>2, StepsFollow DEF Before
    <3> QED BY <3>1, <3>2
  <2>2. f = [n \in Nat |-> f[n]]
      OBVIOUS
  <2> HIDE DEF f
  <2>3. f = [n \in Nat |-> ExpressionsStep(f[n - 1], n)]
      BY <2>1, <2>2
  <2>4. expressions = [n \in Nat |-> ExpressionsStep(expressions[n - 1], n)]
      BY <1>1, <2>3
  <2> QED BY <2>4
<1>4. \A n \in Nat : n + 1 # 0 /\ n + 1 \in Nat /\ (n + 1) - 1 = n
    OBVIOUS
<1> QED BY <1>3, <1>4

LEMMA JoinedEq ==
    ASSUME NEW parts \in Seq(Texts), NEW separator \in Tokens
    PROVE  /\ joined[1][parts][separator] = parts[1]
           /\ \A k \in Nat : k > 0 => joined[k + 1][parts][separator] =
                                joined[k][parts][separator] \o <<separator>> \o parts[k + 1]
<1>1. joined = CHOOSE f : f = [n \in Nat |-> JoinedStep(f[n - 1], n)]
    BY DEF joined, JoinedStep
<1>2. \A v, w : JoinedStep(v, 0) = JoinedStep(w, 0)
    BY DEF JoinedStep
<1>3. \A n \in Nat : joined[n] = JoinedStep(joined[n - 1], n)
  <2> DEFINE f == [n \in Nat |-> Steps!Rec[n].joined]
  <2>1. ASSUME NEW n \in Nat PROVE f[n] = JoinedStep(f[n - 1], n)
    <3>1. CASE n = 0
        BY <1>2, <3>1, StepsFollow
    <3>2. CASE n # 0
        BY <3>2, StepsFollow DEF Before
    <3> QED BY <3>1, <3>2
  <2>2. f = [n \in Nat |-> f[n]]
      OBVIOUS
  <2> HIDE DEF f
  <2>3. f = [n \in Nat |-> JoinedStep(f[n - 1], n)]
      BY Zenon, <2>1, <2>2
  <2>4. joined = [n \in Nat |-> JoinedStep(joined[n - 1], n)]
      BY Zenon, <1>1, <2>3
  <2> QED BY <2>4
<1>4. joined[1][parts][separator] = parts[1]
  <2>1. joined[1] = JoinedStep(joined[1 - 1], 1)
      BY <1>3
  <2>2. JoinedStep(joined[1 - 1], 1)[parts][separator] = parts[1]
      BY DEF JoinedStep
  <2> QED BY <2>1, <2>2
<1>5. ASSUME NEW k \in Nat, k > 0
      PROVE  joined[k + 1][parts][separator] = joined[k][parts][separator] \o <<separator>> \o parts[k + 1]
  <2>1. joined[k + 1] = JoinedStep(joined[k], k + 1)
      BY <1>3
  <2>2. k + 1 # 0 /\ k + 1 # 1
      BY <1>5
  <2> DEFINE m == k + 1
             v == joined[k]
  <2>3. m # 0 /\ m # 1
      BY <2>2
  <2> HIDE DEF m, v
  <2>4. JoinedStep(v, m)[parts][separator] = v[parts][separator] \o <<separator>> \o parts[m]
      BY Zenon, <2>3 DEF JoinedStep
  <2> QED BY Zenon, <2>1, <2>4 DEF m, v
<1> QED BY Zenon, <1>4, <1>5

LEMMA ScannedEq ==
    ASSUME NEW text \in Texts, NEW separator \in Tokens, NEW nested \in BOOLEAN
    PROVE  /\ scanned[0][text][separator][nested] = Scan(<<>>, <<>>, 0)
           /\ \A i \in Nat : scanned[i + 1][text][separator][nested] =
                ScanToken(scanned[i][text][separator][nested], text[i + 1], separator, nested)
<1>1. scanned = CHOOSE f : f = [n \in Nat |-> ScannedStep(f[n - 1], n)]
    BY DEF scanned, ScannedStep
<1>2. \A v, w : ScannedStep(v, 0) = ScannedStep(w, 0)
    BY DEF ScannedStep
<1>3. \A n \in Nat : scanned[n] = ScannedStep(scanned[n - 1], n)
  <2> DEFINE f == [n \in Nat |-> Steps!Rec[n].scanned]
  <2>1. ASSUME NEW n \in Nat PROVE f[n] = ScannedStep(f[n - 1], n)
    <3>1. CASE n = 0
        BY <1>2, <3>1, StepsFollow
    <3>2. CASE n # 0
        BY <3>2, StepsFollow DEF Before
    <3> QED BY <3>1, <3>2
  <2>2. f = [n \in Nat |-> f[n]]
      OBVIOUS
  <2> HIDE DEF f
  <2>3. f = [n \in Nat |-> ScannedStep(f[n - 1], n)]
      BY <2>1, <2>2
  <2>4. scanned = [n \in Nat |-> ScannedStep(scanned[n - 1], n)]
      BY <1>1, <2>3
  <2> QED BY <2>4
<1>4. scanned[0][text][separator][nested] = Scan(<<>>, <<>>, 0)
  <2>1. scanned[0] = ScannedStep(scanned[0 - 1], 0)
      BY <1>3
  <2>2. ScannedStep(scanned[0 - 1], 0)[text][separator][nested] = Scan(<<>>, <<>>, 0)
      BY DEF ScannedStep
  <2> QED BY <2>1, <2>2
<1>5. ASSUME NEW i \in Nat
      PROVE  scanned[i + 1][text][separator][nested] =
                ScanToken(scanned[i][text][separator][nested], text[i + 1], separator, nested)
  <2>1. scanned[i + 1] = ScannedStep(scanned[i], i + 1)
      BY <1>3
  <2>2. i + 1 # 0
      OBVIOUS
  <2> QED BY <2>1, <2>2 DEF ScannedStep
<1> QED BY <1>4, <1>5

LEMMA ParsedEq ==
    \A n \in Nat : parsed[n + 1] = ParsedStep(parsed[n], n + 1)
<1>1. parsed = CHOOSE f : f = [n \in Nat |-> ParsedStep(f[n - 1], n)]
    BY DEF parsed, ParsedStep
<1>2. \A v, w : ParsedStep(v, 0) = ParsedStep(w, 0)
    BY DEF ParsedStep
<1>3. \A n \in Nat : parsed[n] = ParsedStep(parsed[n - 1], n)
  <2> DEFINE f == [n \in Nat |-> Steps!Rec[n].parsed]
  <2>1. ASSUME NEW n \in Nat PROVE f[n] = ParsedStep(f[n - 1], n)
    <3>1. CASE n = 0
        BY <1>2, <3>1, StepsFollow
    <3>2. CASE n # 0
        BY <3>2, StepsFollow DEF Before
    <3> QED BY <3>1, <3>2
  <2>2. f = [n \in Nat |-> f[n]]
      OBVIOUS
  <2> HIDE DEF f
  <2>3. f = [n \in Nat |-> ParsedStep(f[n - 1], n)]
      BY <2>1, <2>2
  <2>4. parsed = [n \in Nat |-> ParsedStep(parsed[n - 1], n)]
      BY <1>1, <2>3
  <2> QED BY <2>4
<1>4. \A n \in Nat : n + 1 # 0 /\ n + 1 \in Nat /\ (n + 1) - 1 = n
    OBVIOUS
<1> QED BY <1>3, <1>4

-----------------------------------------------------------------------------
(* Trees.                                                                  *)
LEMMA ConditionFields ==
    ASSUME NEW c \in Conditions
    PROVE  c.type = "condition" /\ c.op \in Ops /\ c.value \in Values
BY DEF Conditions

LEMMA GroupFields ==
    ASSUME NEW nodes, NEW g \in GroupsOf(nodes)
    PROVE  /\ g.type = "group" /\ g.type # "condition" /\ g.operator \in {"and", "or"}
           /\ g.conditions \in Seq(nodes) /\ DOMAIN g.conditions = 1..Len(g.conditions)
           /\ g = Group(g.operator, g.conditions)
           /\ \A i \in DOMAIN g.conditions : g.conditions[i] \in nodes
BY DEF GroupsOf, Group

LEMMA GroupsOfMonotone ==
    ASSUME NEW S, NEW T, S \subseteq T
    PROVE  GroupsOf(S) \subseteq GroupsOf(T)
<1>1. Seq(S) \subseteq Seq(T)
    OBVIOUS
<1> QED BY <1>1 DEF GroupsOf

LEMMA NodesGrowOne ==
    \A n \in Nat : FilterNodes[n] \subseteq FilterNodes[n + 1]
<1> DEFINE S == {n \in Nat : FilterNodes[n] \subseteq FilterNodes[n + 1]}
<1>1. 0 \in S
    BY NodesEq
<1>2. ASSUME NEW n \in Nat, n \in S
      PROVE  n + 1 \in S
  <2>1. FilterNodes[n + 1] = Conditions \cup GroupsOf(FilterNodes[n])
      BY NodesEq
  <2>2. FilterNodes[(n + 1) + 1] = Conditions \cup GroupsOf(FilterNodes[n + 1])
      BY NodesEq
  <2>3. GroupsOf(FilterNodes[n]) \subseteq GroupsOf(FilterNodes[n + 1])
      BY <1>2, GroupsOfMonotone
  <2> QED BY <2>1, <2>2, <2>3
<1> HIDE DEF S
<1>3. \A n \in Nat : n \in S
    BY <1>1, <1>2, Induction
<1> QED BY <1>3 DEF S

LEMMA NodesGrow ==
    ASSUME NEW n \in Nat
    PROVE  \A k \in Nat : FilterNodes[n] \subseteq FilterNodes[n + k]
<1> DEFINE S == {k \in Nat : FilterNodes[n] \subseteq FilterNodes[n + k]}
<1>1. 0 \in S
    OBVIOUS
<1>2. ASSUME NEW k \in Nat, k \in S
      PROVE  k + 1 \in S
  <2>1. FilterNodes[n + k] \subseteq FilterNodes[(n + k) + 1]
      BY NodesGrowOne
  <2>2. (n + k) + 1 = n + (k + 1)
      OBVIOUS
  <2> QED BY <1>2, <2>1, <2>2
<1> HIDE DEF S
<1>3. \A k \in Nat : k \in S
    BY <1>1, <1>2, Induction
<1> QED BY <1>3 DEF S

LEMMA EvaluatedOne ==
    ASSUME NEW n \in Nat, NEW d \in Data
    PROVE  /\ \A c \in Conditions : evaluated[n + 1][c][d] = evaluateCondition(c, d)
           /\ \A g \in GroupsOf(FilterNodes[n]) :
                evaluated[n + 1][g][d] =
                    evaluateGroup(g.operator, [i \in DOMAIN g.conditions |-> evaluated[n][g.conditions[i]][d]])
<1>1. evaluated[n + 1] = EvaluatedStep(evaluated[n], n + 1)
    BY EvaluatedEq
<1>2. FilterNodes[n + 1] = Conditions \cup GroupsOf(FilterNodes[n])
    BY Zenon, NodesEq
<1>3. ASSUME NEW c \in Conditions
      PROVE  evaluated[n + 1][c][d] = evaluateCondition(c, d)
  <2>1. c.type = "condition" /\ c \in FilterNodes[n + 1]
      BY <1>2, ConditionFields
  <2> QED BY <1>1, <2>1 DEF EvaluatedStep
<1>4. ASSUME NEW g \in GroupsOf(FilterNodes[n])
      PROVE  evaluated[n + 1][g][d] =
                evaluateGroup(g.operator, [i \in DOMAIN g.conditions |-> evaluated[n][g.conditions[i]][d]])
  <2>1. g.type # "condition" /\ g \in FilterNodes[n + 1]
      BY <1>2, GroupFields
  <2> QED BY <1>1, <2>1 DEF EvaluatedStep
<1> QED BY <1>3, <1>4

LEMMA EvaluatedGrowOne ==
    ASSUME NEW d \in Data
    PROVE  \A n \in Nat : \A node \in FilterNodes[n] : evaluated[n + 1][node][d] = evaluated[n][node][d]
<1> DEFINE S == {n \in Nat : \A node \in FilterNodes[n] : evaluated[n + 1][node][d] = evaluated[n][node][d]}
<1>1. 0 \in S
    BY NodesEq
<1>2. ASSUME NEW n \in Nat, n \in S
      PROVE  n + 1 \in S
  <2> SUFFICES ASSUME NEW node \in FilterNodes[n + 1]
               PROVE  evaluated[(n + 1) + 1][node][d] = evaluated[n + 1][node][d]
      OBVIOUS
  <2>1. node \in Conditions \/ node \in GroupsOf(FilterNodes[n])
      BY NodesEq
  <2>2. CASE node \in Conditions
      BY <2>2, EvaluatedOne
  <2>3. CASE node \in GroupsOf(FilterNodes[n])
    <3>1. node \in GroupsOf(FilterNodes[n + 1])
        BY <2>3, NodesGrowOne, GroupsOfMonotone
    <3>2. \A i \in DOMAIN node.conditions :
             evaluated[n + 1][node.conditions[i]][d] = evaluated[n][node.conditions[i]][d]
        BY <2>3, <1>2, GroupFields
    <3>3. [i \in DOMAIN node.conditions |-> evaluated[n + 1][node.conditions[i]][d]]
            = [i \in DOMAIN node.conditions |-> evaluated[n][node.conditions[i]][d]]
        BY <3>2
    <3>4. evaluated[(n + 1) + 1][node][d] =
            evaluateGroup(node.operator, [i \in DOMAIN node.conditions |-> evaluated[n + 1][node.conditions[i]][d]])
        BY <3>1, EvaluatedOne
    <3>5. evaluated[n + 1][node][d] =
            evaluateGroup(node.operator, [i \in DOMAIN node.conditions |-> evaluated[n][node.conditions[i]][d]])
        BY <2>3, EvaluatedOne
    <3> QED BY <3>3, <3>4, <3>5
  <2> QED BY <2>1, <2>2, <2>3
<1> HIDE DEF S
<1>3. \A n \in Nat : n \in S
    BY <1>1, <1>2, Induction
<1> QED BY <1>3 DEF S

LEMMA EvaluatedGrow ==
    ASSUME NEW d \in Data, NEW n \in Nat, NEW node \in FilterNodes[n]
    PROVE  \A k \in Nat : evaluated[n + k][node][d] = evaluated[n][node][d]
<1> DEFINE S == {k \in Nat : evaluated[n + k][node][d] = evaluated[n][node][d]}
<1>1. 0 \in S
    OBVIOUS
<1>2. ASSUME NEW k \in Nat, k \in S
      PROVE  k + 1 \in S
  <2>1. node \in FilterNodes[n + k]
      BY NodesGrow
  <2>2. evaluated[(n + k) + 1][node][d] = evaluated[n + k][node][d]
      BY <2>1, EvaluatedGrowOne
  <2>3. (n + k) + 1 = n + (k + 1)
      OBVIOUS
  <2> QED BY <1>2, <2>2, <2>3
<1> HIDE DEF S
<1>3. \A k \in Nat : k \in S
    BY <1>1, <1>2, Induction
<1> QED BY <1>3 DEF S

(* So what a tree gives does not depend on how deep it might have been. *)
LEMMA EvaluateNodeEq ==
    ASSUME MaxNesting \in Nat, NEW n \in Nat, n + 1 <= MaxNesting, NEW d \in Data
    PROVE  /\ \A c \in Conditions : evaluateNode(c, d) = evaluateCondition(c, d)
           /\ \A g \in GroupsOf(FilterNodes[n]) :
                evaluateNode(g, d) =
                    evaluateGroup(g.operator, [i \in DOMAIN g.conditions |-> evaluateNode(g.conditions[i], d)])
<1> DEFINE k == MaxNesting - (n + 1)
<1>1. k \in Nat /\ k + 1 \in Nat /\ (n + 1) + k = MaxNesting /\ n + (k + 1) = MaxNesting
    OBVIOUS
<1> HIDE DEF k
<1>2. FilterNodes[n + 1] = Conditions \cup GroupsOf(FilterNodes[n])
    BY NodesEq
<1>3. \A node \in FilterNodes[n + 1] : evaluateNode(node, d) = evaluated[n + 1][node][d]
    BY <1>1, EvaluatedGrow DEF evaluateNode
<1>4. \A node \in FilterNodes[n] : evaluateNode(node, d) = evaluated[n][node][d]
    BY <1>1, EvaluatedGrow DEF evaluateNode
<1>5. \A c \in Conditions : evaluateNode(c, d) = evaluateCondition(c, d)
    BY <1>2, <1>3, EvaluatedOne
<1>6. ASSUME NEW g \in GroupsOf(FilterNodes[n])
      PROVE  evaluateNode(g, d) =
                evaluateGroup(g.operator, [i \in DOMAIN g.conditions |-> evaluateNode(g.conditions[i], d)])
  <2>1. evaluateNode(g, d) = evaluated[n + 1][g][d]
      BY <1>2, <1>3
  <2>2. evaluated[n + 1][g][d] =
            evaluateGroup(g.operator, [i \in DOMAIN g.conditions |-> evaluated[n][g.conditions[i]][d]])
      BY EvaluatedOne
  <2>3. \A i \in DOMAIN g.conditions : evaluateNode(g.conditions[i], d) = evaluated[n][g.conditions[i]][d]
      BY <1>4, GroupFields
  <2>4. [i \in DOMAIN g.conditions |-> evaluated[n][g.conditions[i]][d]]
            = [i \in DOMAIN g.conditions |-> evaluateNode(g.conditions[i], d)]
      BY <2>3
  <2> QED BY <2>1, <2>2, <2>4
<1> QED BY <1>5, <1>6

(* Filters of comparisons. *)
LEMMA SeveralFields ==
    ASSUME NEW nodes, NEW g \in GroupsOfSeveral(nodes)
    PROVE  /\ g \in GroupsOf(nodes) /\ Len(g.conditions) > 1 /\ Len(g.conditions) # 1 /\ g.conditions # <<>>
           /\ Len(g.conditions) \in Nat
<1>1. g \in GroupsOf(nodes) /\ Len(g.conditions) > 1
    BY DEF GroupsOfSeveral
<1>2. g.conditions \in Seq(nodes)
    BY <1>1, GroupFields
<1>3. Len(g.conditions) \in Nat
    BY <1>2
<1>4. \A k \in Nat : k > 1 => k # 1 /\ k # 0
    OBVIOUS
<1>5. Len(g.conditions) # 1 /\ Len(g.conditions) # 0
    BY Zenon, <1>1, <1>3, <1>4
<1> QED BY <1>1, <1>3, <1>5

LEMMA SeveralMonotone ==
    ASSUME NEW S, NEW T, S \subseteq T
    PROVE  GroupsOfSeveral(S) \subseteq GroupsOfSeveral(T)
BY GroupsOfMonotone DEF GroupsOfSeveral

LEMMA ExpressibleNodes ==
    \A n \in Nat : Expressible[n] \subseteq FilterNodes[n]
<1> DEFINE S == {n \in Nat : Expressible[n] \subseteq FilterNodes[n]}
<1>1. 0 \in S
    BY ExpressibleEq
<1>2. ASSUME NEW n \in Nat, n \in S
      PROVE  n + 1 \in S
  <2>1. GroupsOf(Expressible[n]) \subseteq GroupsOf(FilterNodes[n])
      BY <1>2, GroupsOfMonotone
  <2>2. Comparisons \subseteq Conditions
      BY DEF Comparisons
  <2>3. Expressible[n + 1] \subseteq FilterNodes[n + 1]
      BY Zenon, <2>1, <2>2, ExpressibleEq, NodesEq, SeveralFields
  <2> QED BY <2>3
<1> HIDE DEF S
<1>3. \A n \in Nat : n \in S
    BY <1>1, <1>2, Induction
<1> QED BY <1>3 DEF S

LEMMA ExpressibleGrow ==
    \A n \in Nat : Expressible[n] \subseteq Expressible[n + 1]
<1> DEFINE S == {n \in Nat : Expressible[n] \subseteq Expressible[n + 1]}
<1>1. 0 \in S
    BY ExpressibleEq
<1>2. ASSUME NEW n \in Nat, n \in S
      PROVE  n + 1 \in S
  <2>1. Expressible[n + 1] = Comparisons \cup GroupsOfSeveral(Expressible[n])
      BY ExpressibleEq
  <2>2. Expressible[(n + 1) + 1] = Comparisons \cup GroupsOfSeveral(Expressible[n + 1])
      BY ExpressibleEq
  <2>3. GroupsOfSeveral(Expressible[n]) \subseteq GroupsOfSeveral(Expressible[n + 1])
      BY <1>2, SeveralMonotone
  <2> QED BY <2>1, <2>2, <2>3
<1> HIDE DEF S
<1>3. \A n \in Nat : n \in S
    BY <1>1, <1>2, Induction
<1> QED BY <1>3 DEF S

LEMMA ExpressionsOne ==
    ASSUME NEW n \in Nat
    PROVE  /\ \A c \in Comparisons : expressions[n + 1][c] = <<conditionToExpression(c)>>
           /\ \A g \in GroupsOfSeveral(Expressible[n]) :
                expressions[n + 1][g] =
                    Join([i \in DOMAIN g.conditions |->
                                Nested(g.conditions[i], g.operator, expressions[n][g.conditions[i]])],
                         Separator(g.operator))
<1>1. expressions[n + 1] = ExpressionsStep(expressions[n], n + 1)
    BY ExpressionsEq
<1>2. Comparisons \subseteq FilterNodes[n + 1] /\ GroupsOfSeveral(Expressible[n]) \subseteq FilterNodes[n + 1]
  <2>1. n + 1 \in Nat /\ n + 1 # 0 /\ (n + 1) - 1 = n
      OBVIOUS
  <2>2. Expressible[n + 1] = Comparisons \cup GroupsOfSeveral(Expressible[n])
      BY <2>1, ExpressibleEq
  <2>3. Expressible[n + 1] \subseteq FilterNodes[n + 1]
      BY <2>1, ExpressibleNodes
  <2> QED BY ONLY <2>2, <2>3, Zenon
<1>3. ASSUME NEW c \in Comparisons
      PROVE  expressions[n + 1][c] = <<conditionToExpression(c)>>
  <2>1. c.type = "condition" /\ c \in FilterNodes[n + 1]
      BY <1>2, ConditionFields DEF Comparisons
  <2> QED BY <1>1, <2>1 DEF ExpressionsStep
<1>4. ASSUME NEW g \in GroupsOfSeveral(Expressible[n])
      PROVE  expressions[n + 1][g] =
                Join([i \in DOMAIN g.conditions |->
                            Nested(g.conditions[i], g.operator, expressions[n][g.conditions[i]])],
                     Separator(g.operator))
  <2>1. g.type # "condition" /\ g \in FilterNodes[n + 1] /\ Len(g.conditions) # 1
      BY <1>2, GroupFields, SeveralFields
  <2> QED BY <1>1, <2>1 DEF ExpressionsStep
<1> QED BY <1>3, <1>4

LEMMA ExpressionsGrowOne ==
    \A n \in Nat : \A node \in Expressible[n] : expressions[n + 1][node] = expressions[n][node]
<1> DEFINE S == {n \in Nat : \A node \in Expressible[n] : expressions[n + 1][node] = expressions[n][node]}
<1>1. 0 \in S
    BY ExpressibleEq
<1>2. ASSUME NEW n \in Nat, n \in S
      PROVE  n + 1 \in S
  <2> SUFFICES ASSUME NEW node \in Expressible[n + 1]
               PROVE  expressions[(n + 1) + 1][node] = expressions[n + 1][node]
      OBVIOUS
  <2>1. node \in Comparisons \/ node \in GroupsOfSeveral(Expressible[n])
      BY ExpressibleEq
  <2>2. CASE node \in Comparisons
    <3>1. \A m \in Nat : expressions[m + 1][node] = <<conditionToExpression(node)>>
        BY Zenon, <2>2, ExpressionsOne
    <3>2. n + 1 \in Nat
        OBVIOUS
    <3> QED BY <3>1, <3>2
  <2>3. CASE node \in GroupsOfSeveral(Expressible[n])
    <3>1. node \in GroupsOfSeveral(Expressible[n + 1])
        BY <2>3, ExpressibleGrow, SeveralMonotone
    <3>2. \A i \in DOMAIN node.conditions :
             expressions[n + 1][node.conditions[i]] = expressions[n][node.conditions[i]]
        BY <2>3, <1>2, GroupFields, SeveralFields
    <3>3. [i \in DOMAIN node.conditions |->
                Nested(node.conditions[i], node.operator, expressions[n + 1][node.conditions[i]])]
            = [i \in DOMAIN node.conditions |->
                Nested(node.conditions[i], node.operator, expressions[n][node.conditions[i]])]
        BY <3>2
    <3>4. expressions[(n + 1) + 1][node] =
            Join([i \in DOMAIN node.conditions |->
                    Nested(node.conditions[i], node.operator, expressions[n + 1][node.conditions[i]])],
                 Separator(node.operator))
        BY <3>1, ExpressionsOne
    <3>5. expressions[n + 1][node] =
            Join([i \in DOMAIN node.conditions |->
                    Nested(node.conditions[i], node.operator, expressions[n][node.conditions[i]])],
                 Separator(node.operator))
        BY <2>3, ExpressionsOne
    <3> QED BY <3>3, <3>4, <3>5
  <2> QED BY <2>1, <2>2, <2>3
<1> HIDE DEF S
<1>3. \A n \in Nat : n \in S
    BY <1>1, <1>2, Induction
<1> QED BY <1>3 DEF S

LEMMA ExpressionsGrow ==
    ASSUME NEW n \in Nat, NEW node \in Expressible[n]
    PROVE  \A k \in Nat : node \in Expressible[n + k] /\ expressions[n + k][node] = expressions[n][node]
<1> DEFINE S == {k \in Nat : node \in Expressible[n + k] /\ expressions[n + k][node] = expressions[n][node]}
<1>1. 0 \in S
    OBVIOUS
<1>2. ASSUME NEW k \in Nat, k \in S
      PROVE  k + 1 \in S
  <2>1. node \in Expressible[n + k] /\ expressions[n + k][node] = expressions[n][node]
      BY <1>2
  <2>2. expressions[(n + k) + 1][node] = expressions[n + k][node]
      BY <2>1, ExpressionsGrowOne
  <2>3. node \in Expressible[(n + k) + 1]
      BY <2>1, ExpressibleGrow
  <2>4. (n + k) + 1 = n + (k + 1)
      OBVIOUS
  <2> QED BY <2>1, <2>2, <2>3, <2>4
<1> HIDE DEF S
<1>3. \A k \in Nat : k \in S
    BY <1>1, <1>2, Induction
<1> QED BY <1>3 DEF S

LEMMA NodeToExpressionEq ==
    ASSUME MaxNesting \in Nat, NEW n \in Nat, n + 1 <= MaxNesting
    PROVE  /\ \A c \in Comparisons : nodeToExpression(c) = <<conditionToExpression(c)>>
           /\ \A g \in GroupsOfSeveral(Expressible[n]) :
                nodeToExpression(g) =
                    Join([i \in DOMAIN g.conditions |->
                                Nested(g.conditions[i], g.operator, nodeToExpression(g.conditions[i]))],
                         Separator(g.operator))
<1> DEFINE k == MaxNesting - (n + 1)
<1>1. k \in Nat /\ k + 1 \in Nat /\ (n + 1) + k = MaxNesting /\ n + (k + 1) = MaxNesting
    OBVIOUS
<1> HIDE DEF k
<1>2. Expressible[n + 1] = Comparisons \cup GroupsOfSeveral(Expressible[n])
    BY ExpressibleEq
<1>3. ASSUME NEW node \in Expressible[n + 1]
      PROVE  nodeToExpression(node) = expressions[n + 1][node]
  <2>1. expressions[(n + 1) + k][node] = expressions[n + 1][node]
      BY <1>1, ExpressionsGrow
  <2> QED BY <1>1, <2>1 DEF nodeToExpression
<1>4. \A node \in Expressible[n] : nodeToExpression(node) = expressions[n][node]
    BY <1>1, ExpressionsGrow DEF nodeToExpression
<1>5. \A c \in Comparisons : nodeToExpression(c) = <<conditionToExpression(c)>>
    BY Zenon, <1>2, <1>3, ExpressionsOne
<1>6. ASSUME NEW g \in GroupsOfSeveral(Expressible[n])
      PROVE  nodeToExpression(g) =
                Join([i \in DOMAIN g.conditions |->
                            Nested(g.conditions[i], g.operator, nodeToExpression(g.conditions[i]))],
                     Separator(g.operator))
  <2>1. nodeToExpression(g) = expressions[n + 1][g]
      BY <1>2, <1>3
  <2>2. expressions[n + 1][g] =
            Join([i \in DOMAIN g.conditions |->
                        Nested(g.conditions[i], g.operator, expressions[n][g.conditions[i]])],
                 Separator(g.operator))
      BY ExpressionsOne
  <2>3. \A i \in DOMAIN g.conditions : nodeToExpression(g.conditions[i]) = expressions[n][g.conditions[i]]
      BY <1>4, GroupFields, SeveralFields
  <2>4. [i \in DOMAIN g.conditions |-> Nested(g.conditions[i], g.operator, expressions[n][g.conditions[i]])]
            = [i \in DOMAIN g.conditions |-> Nested(g.conditions[i], g.operator, nodeToExpression(g.conditions[i]))]
      BY <2>3
  <2> QED BY <2>1, <2>2, <2>4
<1> QED BY <1>5, <1>6

-----------------------------------------------------------------------------
(* How the scan goes over a text that is a part of another.  Matches: the  *)
(* text is at that place.  Moves: the scan comes to it as s and leaves it  *)
(* as t.  Quiet: the scan only adds it to the current part.                *)
Matches(whole, at, text) ==
    /\ at + Len(text) <= Len(whole)
    /\ \A j \in 1..Len(text) : whole[at + j] = text[j]

Moves(text, separator, nested, s, t) ==
    \A whole \in Texts, at \in Nat :
        /\ Matches(whole, at, text)
        /\ scanned[at][whole][separator][nested] = s
        => scanned[at + Len(text)][whole][separator][nested] = t

Quiet(text, separator, nested, depth) ==
    \A parts \in Seq(Texts), part \in Texts :
        Moves(text, separator, nested, Scan(parts, part, depth), Scan(parts, part \o text, depth))

LEMMA SignTokens ==
    /\ Open \in Tokens /\ Close \in Tokens
    /\ \A o : Separator(o) \in Tokens /\ Separator(o) # Open /\ Separator(o) # Close
    /\ Separator("and") # Separator("or")
    /\ Open # Close
<1>1. Open.token = "(" /\ Close.token = ")" /\ Separator("and").token = "&&" /\ Separator("or").token = "||"
    BY DEF Open, Close, Separator, Sign
<1>2. \A o : Separator(o).token \in {"&&", "||"}
    BY DEF Separator, Sign
<1>3. \A t \in {"(", ")", "&&", "||"} : Sign(t) \in Tokens
    BY DEF Sign, Tokens
<1>4. Open \in Tokens /\ Close \in Tokens
    BY <1>3 DEF Open, Close
<1>5. \A o : Separator(o) \in Tokens
    BY <1>3 DEF Separator
<1> QED BY <1>1, <1>2, <1>4, <1>5

LEMMA TextConcat ==
    ASSUME NEW T \in Texts, NEW U \in Texts
    PROVE  /\ T \o U \in Texts /\ Len(T \o U) = Len(T) + Len(U) /\ Len(T) \in Nat /\ Len(U) \in Nat
           /\ \A j \in 1..Len(T) : (T \o U)[j] = T[j]
           /\ \A j \in 1..Len(U) : (T \o U)[Len(T) + j] = U[j]
BY DEF Texts

LEMMA MatchesConcat ==
    ASSUME NEW T \in Texts, NEW U \in Texts, NEW W \in Texts, NEW at \in Nat, Matches(W, at, T \o U)
    PROVE  Matches(W, at, T) /\ Matches(W, at + Len(T), U)
<1>1. Len(T) \in Nat /\ Len(U) \in Nat /\ Len(W) \in Nat
    BY DEF Texts
<1>2. Len(T \o U) = Len(T) + Len(U)
    BY TextConcat
<1>3. \A j \in 1..(Len(T) + Len(U)) : W[at + j] = (T \o U)[j]
    BY <1>2 DEF Matches
<1>4. at + (Len(T) + Len(U)) <= Len(W)
    BY <1>2 DEF Matches
<1>5. ASSUME NEW j \in 1..Len(T) PROVE W[at + j] = T[j]
  <2>1. j \in 1..(Len(T) + Len(U))
      BY <1>1
  <2> QED BY <2>1, <1>3, TextConcat
<1>6. ASSUME NEW j \in 1..Len(U) PROVE W[(at + Len(T)) + j] = U[j]
  <2>1. Len(T) + j \in 1..(Len(T) + Len(U)) /\ (at + Len(T)) + j = at + (Len(T) + j)
      BY <1>1
  <2> QED BY Zenon, <2>1, <1>3, TextConcat
<1> QED BY <1>1, <1>4, <1>5, <1>6 DEF Matches

LEMMA MovesToken ==
    ASSUME NEW token \in Tokens, NEW separator \in Tokens, NEW nested \in BOOLEAN, NEW s
    PROVE  Moves(<<token>>, separator, nested, s, ScanToken(s, token, separator, nested))
<1> SUFFICES ASSUME NEW W \in Texts, NEW at \in Nat, Matches(W, at, <<token>>),
                    scanned[at][W][separator][nested] = s
             PROVE  scanned[at + Len(<<token>>)][W][separator][nested] = ScanToken(s, token, separator, nested)
    BY DEF Moves
<1>1. Len(<<token>>) = 1 /\ <<token>>[1] = token /\ 1 \in 1..1
    OBVIOUS
<1>2. W[at + 1] = token
    BY <1>1 DEF Matches
<1> QED BY <1>1, <1>2, ScannedEq

LEMMA MovesConcat ==
    ASSUME NEW T \in Texts, NEW U \in Texts, NEW separator, NEW nested, NEW s, NEW t, NEW u,
           Moves(T, separator, nested, s, t), Moves(U, separator, nested, t, u)
    PROVE  Moves(T \o U, separator, nested, s, u)
<1> SUFFICES ASSUME NEW W \in Texts, NEW at \in Nat, Matches(W, at, T \o U),
                    scanned[at][W][separator][nested] = s
             PROVE  scanned[at + Len(T \o U)][W][separator][nested] = u
    BY DEF Moves
<1>1. Matches(W, at, T) /\ Matches(W, at + Len(T), U)
    BY MatchesConcat
<1>2. Len(T) \in Nat /\ Len(U) \in Nat /\ Len(T \o U) = Len(T) + Len(U)
    BY TextConcat
<1>3. at + Len(T) \in Nat /\ at + Len(T \o U) = (at + Len(T)) + Len(U)
    BY <1>2
<1>4. scanned[at + Len(T)][W][separator][nested] = t
    BY <1>1 DEF Moves
<1> QED BY <1>1, <1>3, <1>4 DEF Moves

(* A whole text is its own part. *)
LEMMA MatchesWhole ==
    ASSUME NEW T \in Texts
    PROVE  Matches(T, 0, T) /\ 0 + Len(T) = Len(T)
BY DEF Matches, Texts

LEMMA MovesWhole ==
    ASSUME NEW T \in Texts, NEW separator \in Tokens, NEW nested \in BOOLEAN, NEW t,
           Moves(T, separator, nested, Scan(<<>>, <<>>, 0), t)
    PROVE  scanned[Len(T)][T][separator][nested] = t
<1>1. scanned[0][T][separator][nested] = Scan(<<>>, <<>>, 0)
    BY ScannedEq
<1> QED BY <1>1, MatchesWhole DEF Moves

LEMMA QuietToken ==
    ASSUME NEW token \in Tokens, token # Open, token # Close,
           NEW separator \in Tokens, NEW nested \in BOOLEAN, NEW depth \in Int,
           token # separator \/ (nested /\ depth # 0)
    PROVE  Quiet(<<token>>, separator, nested, depth)
<1> SUFFICES ASSUME NEW parts \in Seq(Texts), NEW part \in Texts
             PROVE  Moves(<<token>>, separator, nested, Scan(parts, part, depth), Scan(parts, part \o <<token>>, depth))
    BY DEF Quiet
<1>1. Append(part, token) = part \o <<token>>
    BY AppendIsConcat DEF Texts
<1>2. depth + 0 = depth
    OBVIOUS
<1>3. ScanToken(Scan(parts, part, depth), token, separator, nested) = Scan(parts, part \o <<token>>, depth)
    BY Zenon, <1>1, <1>2 DEF ScanToken, Scan
<1> QED BY <1>3, MovesToken

LEMMA QuietConcat ==
    ASSUME NEW T \in Texts, NEW U \in Texts, NEW separator, NEW nested, NEW depth,
           Quiet(T, separator, nested, depth), Quiet(U, separator, nested, depth)
    PROVE  Quiet(T \o U, separator, nested, depth)
<1> SUFFICES ASSUME NEW parts \in Seq(Texts), NEW part \in Texts
             PROVE  Moves(T \o U, separator, nested, Scan(parts, part, depth), Scan(parts, part \o (T \o U), depth))
    BY DEF Quiet
<1>1. part \o T \in Texts /\ (part \o T) \o U = part \o (T \o U)
    BY ConcatAssociative, TextConcat DEF Texts
<1>2. Moves(T, separator, nested, Scan(parts, part, depth), Scan(parts, part \o T, depth))
    BY DEF Quiet
<1>3. Moves(U, separator, nested, Scan(parts, part \o T, depth), Scan(parts, (part \o T) \o U, depth))
    BY Zenon, <1>1 DEF Quiet
<1> QED BY <1>1, <1>2, <1>3, MovesConcat

InParentheses(text) == <<Open>> \o text \o <<Close>>

LEMMA QuietNested ==
    ASSUME NEW T \in Texts, NEW o, NEW depth \in Nat, Quiet(T, Separator(o), TRUE, depth + 1)
    PROVE  Quiet(InParentheses(T), Separator(o), TRUE, depth)
<1> DEFINE sep == Separator(o)
<1>0. sep \in Tokens /\ sep # Open /\ sep # Close /\ Open \in Tokens /\ Close \in Tokens /\ Open # Close
    BY SignTokens
<1> SUFFICES ASSUME NEW parts \in Seq(Texts), NEW part \in Texts
             PROVE  Moves(InParentheses(T), sep, TRUE, Scan(parts, part, depth), Scan(parts, part \o InParentheses(T), depth))
    BY Zenon DEF Quiet
<1>a. Quiet(T, sep, TRUE, depth + 1)
    BY Zenon
<1> HIDE DEF sep
<1> DEFINE p1 == part \o <<Open>>
           p2 == p1 \o T
           p3 == p2 \o <<Close>>
<1>1. <<Open>> \in Texts /\ <<Close>> \in Texts /\ T \o <<Close>> \in Texts
    BY <1>0 DEF Texts
<1>2. p1 \in Texts
    BY <1>1, TextConcat
<1>3. p2 \in Texts
    BY <1>2, TextConcat
<1>4. Append(part, Open) = p1
    BY <1>0, AppendIsConcat DEF Texts
<1> HIDE DEF p1
<1>5. Append(p2, Close) = p3
    BY <1>0, <1>3, AppendIsConcat DEF Texts
<1>6. (<<Open>> \o T) \o <<Close>> = InParentheses(T) /\ <<Open>> \o T \in Texts
    BY <1>1, TextConcat DEF InParentheses
<1>7. p3 = part \o InParentheses(T)
  <2>1. p2 = part \o (<<Open>> \o T)
      BY <1>1, ConcatAssociative DEF p1, Texts
  <2>2. (part \o (<<Open>> \o T)) \o <<Close>> = part \o ((<<Open>> \o T) \o <<Close>>)
      BY <1>1, <1>6, ConcatAssociative DEF Texts
  <2> QED BY Zenon, <2>1, <2>2, <1>6
<1> HIDE DEF p2, p3
<1>8. Moves(<<Open>>, sep, TRUE, Scan(parts, part, depth), Scan(parts, p1, depth + 1))
  <2>1. ScanToken(Scan(parts, part, depth), Open, sep, TRUE) = Scan(parts, p1, depth + 1)
      BY Zenon, <1>0, <1>4 DEF ScanToken, Scan
  <2> QED BY Zenon, <2>1, <1>0, MovesToken
<1>9. Moves(T, sep, TRUE, Scan(parts, p1, depth + 1), Scan(parts, p2, depth + 1))
    BY Zenon, <1>a, <1>2 DEF Quiet, p2
<1>10. Moves(<<Close>>, sep, TRUE, Scan(parts, p2, depth + 1), Scan(parts, p3, depth))
  <2>1. (depth + 1) + (-1) = depth
      OBVIOUS
  <2>2. ScanToken(Scan(parts, p2, depth + 1), Close, sep, TRUE) = Scan(parts, p3, depth)
      BY <1>0, <1>5, <2>1 DEF ScanToken, Scan
  <2> QED BY Zenon, <2>2, <1>0, MovesToken
<1>11. Moves(<<Open>> \o T, sep, TRUE, Scan(parts, part, depth), Scan(parts, p2, depth + 1))
    BY Zenon, <1>1, <1>8, <1>9, MovesConcat
<1>12. Moves((<<Open>> \o T) \o <<Close>>, sep, TRUE, Scan(parts, part, depth), Scan(parts, p3, depth))
    BY Zenon, <1>1, <1>6, <1>10, <1>11, MovesConcat
<1> QED BY Zenon, <1>6, <1>7, <1>12

(* A quiet text is one part. *)
LEMMA QuietWhole ==
    ASSUME NEW T \in Texts, T # <<>>, NEW separator \in Tokens
    PROVE  /\ Quiet(T, separator, TRUE, 0) => splitLogical(T, separator) = <<T>>
           /\ Quiet(T, separator, FALSE, 0) => Split(T, separator) = <<T>>
<1>1. <<>> \in Seq(Texts) /\ <<>> \in Texts /\ <<>> \o T = T
    BY ConcatEmptySeq DEF Texts
<1>2. Append(<<>>, T) = <<T>>
    OBVIOUS
<1>3. ASSUME NEW nested \in BOOLEAN, Quiet(T, separator, nested, 0)
      PROVE  scanned[Len(T)][T][separator][nested] = Scan(<<>>, T, 0)
  <2>1. Moves(T, separator, nested, Scan(<<>>, <<>>, 0), Scan(<<>>, <<>> \o T, 0))
      BY Zenon, <1>1, <1>3 DEF Quiet
  <2> QED BY <1>1, <2>1, MovesWhole
<1>4. ASSUME Quiet(T, separator, TRUE, 0)
      PROVE  splitLogical(T, separator) = <<T>>
  <2>1. scanned[Len(T)][T][separator][TRUE] = Scan(<<>>, T, 0)
      BY Zenon, <1>3, <1>4
  <2> QED BY <2>1, <1>2 DEF splitLogical, Scan
<1>5. ASSUME Quiet(T, separator, FALSE, 0)
      PROVE  Split(T, separator) = <<T>>
  <2>1. scanned[Len(T)][T][separator][FALSE] = Scan(<<>>, T, 0)
      BY Zenon, <1>3, <1>5
  <2> QED BY <2>1, <1>2 DEF Split, Scan
<1> QED BY Zenon, <1>4, <1>5

-----------------------------------------------------------------------------
(* What groups of several conditions give. *)
Holds(node, data) == evaluateNode(node, data) = "pass"

(* The first k of them. *)
HoldsUpTo(operator, nodes, k, data) ==
    IF operator = "and" THEN \A i \in 1..k : Holds(nodes[i], data) ELSE \E i \in 1..k : Holds(nodes[i], data)

Decided == {"pass", "drop"}

LEMMA FirstOfDecides ==
    ASSUME NEW n \in Nat, NEW results \in [1..n -> Decided], NEW decides \in Decided, NEW otherwise
    PROVE  FirstOf(results, decides, otherwise) =
                IF \E i \in 1..n : results[i] = decides THEN decides ELSE otherwise
<1> DEFINE hits == {i \in DOMAIN results : results[i] \in {decides, "error"}}
<1>1. \A i \in 1..n : i \in hits <=> results[i] = decides
    BY DEF Decided
<1>2. hits \in SUBSET Nat /\ hits \subseteq 1..n
    OBVIOUS
<1>3. CASE hits = {}
  <2>1. FirstOf(results, decides, otherwise) = otherwise
      BY <1>3 DEF FirstOf
  <2> HIDE DEF hits
  <2> QED BY <2>1, <1>1, <1>3
<1>4. CASE hits # {}
  <2>1. FirstOf(results, decides, otherwise) = results[Min(hits)]
      BY <1>4 DEF FirstOf
  <2> HIDE DEF hits
  <2>2. \E x \in hits : \A y \in hits : x <= y
      BY <1>2, <1>4, LeastNumber
  <2>3. Min(hits) \in hits
      BY <2>2 DEF Min
  <2> QED BY Zenon, <2>1, <2>3, <1>1, <1>2
<1> QED BY <1>3, <1>4

LEMMA GroupDecides ==
    ASSUME NEW n \in Nat, n > 0, NEW results \in [1..n -> Decided]
    PROVE  /\ AllOf(results) = Result(\A i \in 1..n : results[i] = "pass")
           /\ AnyOf(results) = Result(\E i \in 1..n : results[i] = "pass")
           /\ results # <<>>
<1>1. AllOf(results) = IF \E i \in 1..n : results[i] = "drop" THEN "drop" ELSE "pass"
    BY FirstOfDecides DEF AllOf, Decided
<1>2. AnyOf(results) = IF \E i \in 1..n : results[i] = "pass" THEN "pass" ELSE "drop"
    BY FirstOfDecides DEF AnyOf, Decided
<1>3. \A i \in 1..n : results[i] = "pass" \/ results[i] = "drop"
    BY DEF Decided
<1>4. 1 \in DOMAIN results
    OBVIOUS
<1>5. AllOf(results) = Result(\A i \in 1..n : results[i] = "pass")
    BY <1>1, <1>3 DEF Result
<1>6. AnyOf(results) = Result(\E i \in 1..n : results[i] = "pass")
    BY <1>2 DEF Result
<1> QED BY <1>4, <1>5, <1>6

LEMMA ResultDecided ==
    \A b : Result(b) \in Decided /\ (Result(b) = "pass" <=> b)
BY DEF Result, Decided

LEMMA ConditionDecided ==
    ASSUME NEW c, NEW d
    PROVE  evaluateCondition(c, d) \in Decided
<1>1. \A v, op, value : compare(v, op, value) \in Decided
    BY DEF compare, Result, Decided
<1> QED BY <1>1, ResultDecided DEF evaluateCondition, Decided

(* A filter of comparisons passes a record or drops it, and a group of     *)
(* several passes what all of them pass, or what one of them does.         *)
LEMMA GroupHolds ==
    ASSUME MaxNesting \in Nat, NEW n \in Nat, n + 1 <= MaxNesting, NEW d \in Data,
           NEW g \in GroupsOfSeveral(FilterNodes[n]),
           \A i \in DOMAIN g.conditions : evaluateNode(g.conditions[i], d) \in Decided
    PROVE  /\ evaluateNode(g, d) \in Decided
           /\ Holds(g, d) <=> HoldsUpTo(g.operator, g.conditions, Len(g.conditions), d)
<1>1. /\ g \in GroupsOf(FilterNodes[n]) /\ g.operator \in {"and", "or"}
      /\ DOMAIN g.conditions = 1..Len(g.conditions) /\ Len(g.conditions) \in Nat /\ Len(g.conditions) > 1
    BY SeveralFields, GroupFields
<1> DEFINE len == Len(g.conditions)
           results == [i \in DOMAIN g.conditions |-> evaluateNode(g.conditions[i], d)]
<1>2. evaluateNode(g, d) = evaluateGroup(g.operator, results)
    BY <1>1, EvaluateNodeEq
<1>3. results \in [1..len -> Decided] /\ \A i \in 1..len : results[i] = "pass" <=> Holds(g.conditions[i], d)
    BY <1>1 DEF Holds
<1>4. len \in Nat /\ len > 1
    BY <1>1
<1>5. Holds(g, d) <=> evaluateGroup(g.operator, results) = "pass"
    BY <1>2 DEF Holds
<1>6. HoldsUpTo(g.operator, g.conditions, len, d) <=>
        IF g.operator = "and" THEN \A i \in 1..len : results[i] = "pass" ELSE \E i \in 1..len : results[i] = "pass"
    BY Zenon, <1>3 DEF HoldsUpTo
<1> HIDE DEF results, len
<1>7. len > 0
    BY <1>4
<1>8. evaluateGroup(g.operator, results) =
        IF g.operator = "and" THEN Result(\A i \in 1..len : results[i] = "pass")
                              ELSE Result(\E i \in 1..len : results[i] = "pass")
    BY Zenon, <1>3, <1>4, <1>7, GroupDecides DEF evaluateGroup
<1>9. evaluateGroup(g.operator, results) \in Decided
    BY Zenon, <1>8, ResultDecided
<1>10. evaluateGroup(g.operator, results) = "pass" <=>
        IF g.operator = "and" THEN \A i \in 1..len : results[i] = "pass" ELSE \E i \in 1..len : results[i] = "pass"
    BY Zenon, <1>8, ResultDecided
<1> QED BY <1>2, <1>5, <1>6, <1>9, <1>10 DEF len

LEMMA ExpressibleDecided ==
    ASSUME MaxNesting \in Nat, NEW d \in Data
    PROVE  \A n \in Nat : n <= MaxNesting => \A node \in Expressible[n] : evaluateNode(node, d) \in Decided
<1> DEFINE S == {n \in Nat : n <= MaxNesting => \A node \in Expressible[n] : evaluateNode(node, d) \in Decided}
<1>1. 0 \in S
    BY ExpressibleEq
<1>2. ASSUME NEW n \in Nat, n \in S
      PROVE  n + 1 \in S
  <2> SUFFICES ASSUME n + 1 <= MaxNesting, NEW node \in Expressible[n + 1]
               PROVE  evaluateNode(node, d) \in Decided
      OBVIOUS
  <2>1. node \in Comparisons \/ node \in GroupsOfSeveral(Expressible[n])
      BY ExpressibleEq
  <2>2. CASE node \in Comparisons
    <3>1. evaluateNode(node, d) = evaluateCondition(node, d)
        BY <2>2, EvaluateNodeEq DEF Comparisons
    <3> QED BY <3>1, ConditionDecided
  <2>3. CASE node \in GroupsOfSeveral(Expressible[n])
    <3>1. n <= MaxNesting
        OBVIOUS
    <3>2. \A i \in DOMAIN node.conditions : evaluateNode(node.conditions[i], d) \in Decided
        BY <2>3, <3>1, <1>2, SeveralFields, GroupFields
    <3>3. node \in GroupsOfSeveral(FilterNodes[n])
        BY <2>3, ExpressibleNodes, SeveralMonotone
    <3> QED BY <3>2, <3>3, GroupHolds
  <2> QED BY <2>1, <2>2, <2>3
<1> HIDE DEF S
<1>3. \A n \in Nat : n \in S
    BY <1>1, <1>2, Induction
<1> QED BY <1>3 DEF S

LEMMA ExpressibleGroupHolds ==
    ASSUME MaxNesting \in Nat, NEW n \in Nat, n + 1 <= MaxNesting, NEW d \in Data,
           NEW g \in GroupsOfSeveral(Expressible[n])
    PROVE  Holds(g, d) <=> HoldsUpTo(g.operator, g.conditions, Len(g.conditions), d)
<1>1. n <= MaxNesting
    OBVIOUS
<1>2. \A i \in DOMAIN g.conditions : evaluateNode(g.conditions[i], d) \in Decided
    BY <1>1, ExpressibleDecided, SeveralFields, GroupFields
<1>3. g \in GroupsOfSeveral(FilterNodes[n])
    BY ExpressibleNodes, SeveralMonotone
<1> QED BY <1>2, <1>3, GroupHolds

-----------------------------------------------------------------------------
(* A piece of a text: a condition, or a group in parentheses.  It is read  *)
(* as a tree of at most h levels, and never taken apart at a separator.    *)
Operators == {"and", "or"}

Bare(token, node) ==
    \A d \in Data : evaluateSingleExpression(<<token>>, d) = evaluateNode(node, d)

Piece(p, node, h) ==
    /\ p \in Texts /\ p # <<>> /\ node \in Expressible[h]
    /\ \A n \in Nat : n >= Len(p) => parsed[n][p] = node
    /\ \A o \in Operators, depth \in Nat : Quiet(p, Separator(o), TRUE, depth)
    /\ \/ Open \in Range(p)
       \/ /\ \A o \in Operators : Quiet(p, Separator(o), FALSE, 0)
          /\ \E token \in Tokens : p = <<token>> /\ Bare(token, node)

(* The scan takes a text apart into these parts. *)
Splits(text, separator, nested, parts) ==
    \A before \in Seq(Texts), whole \in Texts, at \in Nat :
        /\ Matches(whole, at, text)
        /\ scanned[at][whole][separator][nested] = Scan(before, <<>>, 0)
        => \E done \in Seq(Texts), last \in Texts :
                /\ scanned[at + Len(text)][whole][separator][nested] = Scan(done, last, 0)
                /\ Append(done, last) = before \o parts

Other(operator) == IF operator = "and" THEN "or" ELSE "and"

(* A text that is read as a group of these nodes: its pieces are separated *)
(* by the operator, and it is quiet for the other one and in parentheses.  *)
Reads(text, operator, pieces, nodes, h) ==
    /\ text \in Texts /\ text # <<>>
    /\ pieces \in Seq(Texts) /\ nodes \in Seq(Expressible[h]) /\ Len(pieces) = Len(nodes) /\ Len(pieces) > 0
    /\ \A i \in 1..Len(pieces) :
          /\ Piece(pieces[i], nodes[i], h)
          /\ Len(pieces) > 1 => Len(pieces[i]) < Len(text)
          /\ Len(pieces[i]) <= Len(text)
          /\ Range(pieces[i]) \subseteq Range(text)
    /\ \A nested \in BOOLEAN : nested \/ Open \notin Range(text) =>
          /\ Splits(text, Separator(operator), nested, pieces)
          /\ Quiet(text, Separator(Other(operator)), nested, 0)
    /\ \A o \in Operators, depth \in Nat \ {0} : Quiet(text, Separator(o), TRUE, depth)

LEMMA SplitsWhole ==
    ASSUME NEW T \in Texts, NEW separator \in Tokens,
           NEW parts \in Seq(Texts), Len(parts) > 0, parts[Len(parts)] # <<>>
    PROVE  /\ Splits(T, separator, TRUE, parts) => splitLogical(T, separator) = parts
           /\ Splits(T, separator, FALSE, parts) => Split(T, separator) = parts
<1>1. <<>> \in Seq(Texts) /\ <<>> \o parts = parts
    BY ConcatEmptySeq
<1>2. ASSUME NEW nested \in BOOLEAN, Splits(T, separator, nested, parts)
      PROVE  \E done \in Seq(Texts), last \in Texts :
                /\ scanned[Len(T)][T][separator][nested] = Scan(done, last, 0)
                /\ Append(done, last) = parts /\ last # <<>>
  <2>1. scanned[0][T][separator][nested] = Scan(<<>>, <<>>, 0)
      BY ScannedEq
  <2> DEFINE none == <<>>
  <2>a. none \in Seq(Texts)
      BY <1>1
  <2>b. scanned[0][T][separator][nested] = Scan(none, <<>>, 0)
      BY <2>1
  <2>c. 0 \in Nat /\ Matches(T, 0, T)
      BY MatchesWhole
  <2> HIDE DEF none
  <2>d. \E done \in Seq(Texts), last \in Texts :
                /\ scanned[0 + Len(T)][T][separator][nested] = Scan(done, last, 0)
                /\ Append(done, last) = none \o parts
      BY ONLY Zenon, <1>2, <2>a, <2>b, <2>c, T \in Texts DEF Splits
  <2>2. PICK done \in Seq(Texts), last \in Texts :
                /\ scanned[0 + Len(T)][T][separator][nested] = Scan(done, last, 0)
                /\ Append(done, last) = <<>> \o parts
      BY <2>d DEF none
  <2>3. Append(done, last)[Len(done) + 1] = last /\ Len(Append(done, last)) = Len(done) + 1
      BY AppendProperties
  <2>4. last # <<>>
      BY <1>1, <2>2, <2>3
  <2> QED BY <1>1, <2>2, <2>4, MatchesWhole
<1>3. ASSUME Splits(T, separator, TRUE, parts)
      PROVE  splitLogical(T, separator) = parts
  <2>1. PICK done \in Seq(Texts), last \in Texts :
                /\ scanned[Len(T)][T][separator][TRUE] = Scan(done, last, 0)
                /\ Append(done, last) = parts /\ last # <<>>
      BY Zenon, <1>2, <1>3
  <2> QED BY <2>1 DEF splitLogical, Scan
<1>4. ASSUME Splits(T, separator, FALSE, parts)
      PROVE  Split(T, separator) = parts
  <2>1. PICK done \in Seq(Texts), last \in Texts :
                /\ scanned[Len(T)][T][separator][FALSE] = Scan(done, last, 0)
                /\ Append(done, last) = parts /\ last # <<>>
      BY Zenon, <1>2, <1>4
  <2> QED BY <2>1 DEF Split, Scan
<1> QED BY Zenon, <1>3, <1>4

LEMMA QuietSplits ==
    ASSUME NEW T \in Texts, NEW separator, NEW nested, Quiet(T, separator, nested, 0)
    PROVE  Splits(T, separator, nested, <<T>>)
<1> SUFFICES ASSUME NEW before \in Seq(Texts), NEW W \in Texts, NEW at \in Nat, Matches(W, at, T),
                    scanned[at][W][separator][nested] = Scan(before, <<>>, 0)
             PROVE  \E done \in Seq(Texts), last \in Texts :
                        /\ scanned[at + Len(T)][W][separator][nested] = Scan(done, last, 0)
                        /\ Append(done, last) = before \o <<T>>
    BY Zenon DEF Splits
<1>1. <<>> \in Texts /\ <<>> \o T = T
    BY ConcatEmptySeq DEF Texts
<1>2. Moves(T, separator, nested, Scan(before, <<>>, 0), Scan(before, T, 0))
    BY Zenon, <1>1 DEF Quiet
<1>3. scanned[at + Len(T)][W][separator][nested] = Scan(before, T, 0)
    BY <1>2 DEF Moves
<1>4. Append(before, T) = before \o <<T>>
    BY AppendIsConcat
<1> QED BY <1>3, <1>4

LEMMA SplitsConcat ==
    ASSUME NEW T \in Texts, NEW U \in Texts, NEW separator \in Tokens, NEW nested \in BOOLEAN,
           NEW ts \in Seq(Texts), NEW us \in Seq(Texts),
           Splits(T, separator, nested, ts), Splits(U, separator, nested, us)
    PROVE  Splits((T \o <<separator>>) \o U, separator, nested, ts \o us)
<1> DEFINE TS == T \o <<separator>>
<1> SUFFICES ASSUME NEW before \in Seq(Texts), NEW W \in Texts, NEW at \in Nat, Matches(W, at, TS \o U),
                    scanned[at][W][separator][nested] = Scan(before, <<>>, 0)
             PROVE  \E done \in Seq(Texts), last \in Texts :
                        /\ scanned[at + Len(TS \o U)][W][separator][nested] = Scan(done, last, 0)
                        /\ Append(done, last) = before \o (ts \o us)
    BY Zenon DEF Splits
<1>1. <<separator>> \in Texts /\ TS \in Texts
    BY DEF Texts
<1>2. Matches(W, at, TS) /\ Matches(W, at + Len(TS), U)
    BY Zenon, <1>1, MatchesConcat
<1>3. Matches(W, at, T) /\ Matches(W, at + Len(T), <<separator>>)
    BY <1>1, <1>2, MatchesConcat
<1>4. /\ Len(T) \in Nat /\ Len(U) \in Nat /\ Len(<<separator>>) = 1
      /\ Len(TS) = Len(T) + 1 /\ Len(TS \o U) = Len(TS) + Len(U)
    BY <1>1, TextConcat
<1>5. /\ at + Len(T) \in Nat /\ at + Len(TS) \in Nat
      /\ at + Len(TS) = (at + Len(T)) + Len(<<separator>>)
      /\ at + Len(TS \o U) = (at + Len(TS)) + Len(U)
    BY <1>4
<1> HIDE DEF TS
<1>6. PICK done \in Seq(Texts), last \in Texts :
            /\ scanned[at + Len(T)][W][separator][nested] = Scan(done, last, 0)
            /\ Append(done, last) = before \o ts
    BY Zenon, <1>3 DEF Splits
<1>7. ScanToken(Scan(done, last, 0), separator, separator, nested) = Scan(before \o ts, <<>>, 0)
    BY Zenon, <1>6 DEF ScanToken, Scan
<1>8. scanned[at + Len(TS)][W][separator][nested] = Scan(before \o ts, <<>>, 0)
  <2>1. Moves(<<separator>>, separator, nested, Scan(done, last, 0), Scan(before \o ts, <<>>, 0))
      BY <1>7, MovesToken
  <2> QED BY <2>1, <1>3, <1>5, <1>6 DEF Moves
<1>9. before \o ts \in Seq(Texts)
    OBVIOUS
<1>10. PICK done2 \in Seq(Texts), last2 \in Texts :
            /\ scanned[(at + Len(TS)) + Len(U)][W][separator][nested] = Scan(done2, last2, 0)
            /\ Append(done2, last2) = (before \o ts) \o us
    BY Zenon, <1>2, <1>5, <1>8, <1>9 DEF Splits
<1>11. (before \o ts) \o us = before \o (ts \o us)
    BY ONLY before \in Seq(Texts), ts \in Seq(Texts), us \in Seq(Texts)
<1> QED BY Zenon, <1>5, <1>10, <1>11

LEMMA OneElement ==
    ASSUME NEW S, NEW x \in S
    PROVE  <<x>> \in Seq(S) /\ Len(<<x>>) = 1 /\ <<x>>[1] = x
OBVIOUS

(* A piece alone is a text. *)
LEMMA PieceReads ==
    ASSUME NEW p, NEW node, NEW h, Piece(p, node, h), NEW o \in Operators
    PROVE  Reads(p, o, <<p>>, <<node>>, h)
<1>1. p \in Texts /\ p # <<>> /\ node \in Expressible[h]
    BY DEF Piece
<1>2. /\ <<p>> \in Seq(Texts) /\ <<node>> \in Seq(Expressible[h]) /\ Len(<<p>>) = 1 /\ Len(<<node>>) = 1
      /\ <<p>>[1] = p /\ <<node>>[1] = node
    BY <1>1, OneElement
<1>3. \A i \in 1..Len(<<p>>) :
          /\ Piece(<<p>>[i], <<node>>[i], h)
          /\ Len(<<p>>) > 1 => Len(<<p>>[i]) < Len(p)
          /\ Len(<<p>>[i]) <= Len(p)
          /\ Range(<<p>>[i]) \subseteq Range(p)
  <2>1. \A i \in 1..1 : i = 1
      OBVIOUS
  <2>2. Len(p) \in Nat
      BY <1>1 DEF Texts
  <2>3. Len(p) <= Len(p)
      BY <2>2
  <2> QED BY <1>2, <2>1, <2>3
<1>4. Other(o) \in Operators
    BY DEF Other, Operators
<1>5. ASSUME NEW nested \in BOOLEAN, nested \/ Open \notin Range(p), NEW o2 \in Operators
      PROVE  Quiet(p, Separator(o2), nested, 0)
  <2>1. CASE nested = TRUE
      BY Zenon, <2>1 DEF Piece
  <2>2. CASE nested = FALSE
      BY Zenon, <2>2, <1>5 DEF Piece
  <2> QED BY Zenon, <2>1, <2>2
<1>6. ASSUME NEW nested \in BOOLEAN, nested \/ Open \notin Range(p)
      PROVE  Splits(p, Separator(o), nested, <<p>>) /\ Quiet(p, Separator(Other(o)), nested, 0)
    BY <1>1, <1>4, <1>5, <1>6, QuietSplits
<1>7. \A o2 \in Operators, depth \in Nat \ {0} : Quiet(p, Separator(o2), TRUE, depth)
    BY Zenon DEF Piece
<1>8. Len(<<p>>) > 0
    BY <1>2
<1>9. Len(<<p>>) = Len(<<node>>)
    BY <1>2
<1> QED BY Zenon, <1>1, <1>2, <1>3, <1>6, <1>7, <1>8, <1>9 DEF Reads

LEMMA TextRange ==
    ASSUME NEW T \in Texts, NEW U \in Texts
    PROVE  Range(T \o U) = Range(T) \cup Range(U)
<1>1. T \in Seq(Tokens) /\ U \in Seq(Tokens)
    BY DEF Texts
<1> QED BY ONLY <1>1, RangeConcatenation

(* Two texts with the operator between them are read as one group. *)
LEMMA ReadsConcat ==
    ASSUME NEW h, NEW o \in Operators, NEW T, NEW ps, NEW ns, NEW U, NEW qs, NEW ms,
           Reads(T, o, ps, ns, h), Reads(U, o, qs, ms, h)
    PROVE  /\ Reads((T \o <<Separator(o)>>) \o U, o, ps \o qs, ns \o ms, h)
           /\ Len(ps \o qs) = Len(ps) + Len(qs)
<1> DEFINE sep == Separator(o)
           TS == T \o <<sep>>
           X == TS \o U
           E == Expressible[h]
<1>1. /\ T \in Texts /\ T # <<>> /\ ps \in Seq(Texts) /\ ns \in Seq(E) /\ Len(ps) = Len(ns) /\ Len(ps) > 0
      /\ U \in Texts /\ U # <<>> /\ qs \in Seq(Texts) /\ ms \in Seq(E) /\ Len(qs) = Len(ms) /\ Len(qs) > 0
    BY DEF Reads
<1>2. sep \in Tokens /\ sep # Open /\ sep # Close
    BY SignTokens
<1>3. <<sep>> \in Texts /\ TS \in Texts /\ X \in Texts
    BY <1>1, <1>2, TextConcat, OneElement DEF Texts
<1>4. /\ Len(T) \in Nat /\ Len(U) \in Nat /\ Len(<<sep>>) = 1 /\ Len(TS) = Len(T) + 1 /\ Len(X) = Len(TS) + Len(U)
    BY <1>1, <1>3, TextConcat
<1>5. Range(X) = Range(TS) \cup Range(U) /\ Range(TS) = Range(T) \cup Range(<<sep>>)
    BY <1>1, <1>3, TextRange
<1>6. Len(T) < Len(X) /\ Len(U) < Len(X) /\ X # <<>>
  <2>1. Len(T) < Len(X) /\ Len(U) < Len(X) /\ Len(X) # 0
      BY <1>4
  <2> QED BY <2>1
<1>7. /\ ps \o qs \in Seq(Texts) /\ Len(ps \o qs) = Len(ps) + Len(qs)
      /\ ns \o ms \in Seq(E) /\ Len(ns \o ms) = Len(ps) + Len(qs)
      /\ Len(ps) \in Nat /\ Len(qs) \in Nat
  <2> HIDE DEF E
  <2>1. ps \o qs \in Seq(Texts) /\ Len(ps \o qs) = Len(ps) + Len(qs) /\ Len(ps) \in Nat /\ Len(qs) \in Nat
    <3>1. ps \in Seq(Texts) /\ qs \in Seq(Texts)
        BY <1>1
    <3> QED BY ONLY <3>1
  <2>2. ns \o ms \in Seq(E) /\ Len(ns \o ms) = Len(ns) + Len(ms)
    <3>1. ns \in Seq(E) /\ ms \in Seq(E)
        BY <1>1
    <3> QED BY ONLY <3>1
  <2> QED BY <1>1, <2>1, <2>2
<1>8. ASSUME NEW i \in 1..(Len(ps) + Len(qs))
      PROVE  /\ Piece((ps \o qs)[i], (ns \o ms)[i], h)
             /\ Len((ps \o qs)[i]) < Len(X)
             /\ Range((ps \o qs)[i]) \subseteq Range(X)
  <2>1. CASE i <= Len(ps)
    <3>1. i \in 1..Len(ps)
        BY <1>7, <2>1
    <3>2. (ps \o qs)[i] = ps[i]
        BY <1>1, <2>1, ConcatProperties
    <3>3. (ns \o ms)[i] = ns[i]
      <4> HIDE DEF E
      <4> QED BY <1>1, <2>1, ConcatProperties
    <3>4. Piece(ps[i], ns[i], h) /\ Len(ps[i]) <= Len(T) /\ Range(ps[i]) \subseteq Range(T)
        BY <3>1 DEF Reads
    <3>5. Len(ps[i]) \in Nat
        BY <1>1, <3>1 DEF Texts
    <3>6. Len(ps[i]) < Len(X)
        BY <1>4, <1>6, <3>4, <3>5
    <3> QED BY <1>5, <3>2, <3>3, <3>4, <3>6
  <2>2. CASE ~(i <= Len(ps))
    <3> DEFINE j == i - Len(ps)
    <3>1. j \in 1..Len(qs)
        BY <1>7, <2>2
    <3>2. (ps \o qs)[i] = qs[j]
        BY <1>1, <2>2, ConcatProperties
    <3>3. (ns \o ms)[i] = ms[j]
      <4> HIDE DEF E
      <4> QED BY <1>1, <2>2, ConcatProperties
    <3> HIDE DEF j
    <3>4. Piece(qs[j], ms[j], h) /\ Len(qs[j]) <= Len(U) /\ Range(qs[j]) \subseteq Range(U)
        BY <3>1 DEF Reads
    <3>5. Len(qs[j]) \in Nat
        BY <1>1, <3>1 DEF Texts
    <3>6. Len(qs[j]) < Len(X)
        BY <1>4, <1>6, <3>4, <3>5
    <3> QED BY <1>5, <3>2, <3>3, <3>4, <3>6
  <2> QED BY Zenon, <2>1, <2>2
<1>9. \A i \in 1..Len(ps \o qs) :
          /\ Piece((ps \o qs)[i], (ns \o ms)[i], h)
          /\ Len(ps \o qs) > 1 => Len((ps \o qs)[i]) < Len(X)
          /\ Len((ps \o qs)[i]) <= Len(X)
          /\ Range((ps \o qs)[i]) \subseteq Range(X)
  <2> SUFFICES ASSUME NEW i \in 1..(Len(ps) + Len(qs))
               PROVE  Len((ps \o qs)[i]) <= Len(X)
      BY <1>7, <1>8
  <2>1. (ps \o qs)[i] \in Texts
      BY <1>7, ElementOfSeq
  <2>2. Len((ps \o qs)[i]) \in Nat /\ Len(X) \in Nat
      BY <2>1, <1>3 DEF Texts
  <2> QED BY <1>8, <2>2
<1>10. Other(o) \in Operators /\ Separator(Other(o)) \in Tokens /\ sep # Separator(Other(o))
    BY SignTokens DEF Other, Operators
<1> HIDE DEF sep
<1>11. ASSUME NEW nested \in BOOLEAN, nested \/ Open \notin Range(X)
       PROVE  Splits(X, sep, nested, ps \o qs) /\ Quiet(X, Separator(Other(o)), nested, 0)
  <2>1. (nested \/ Open \notin Range(T)) /\ (nested \/ Open \notin Range(U))
      BY <1>5, <1>11
  <2>2. /\ Splits(T, sep, nested, ps) /\ Quiet(T, Separator(Other(o)), nested, 0)
        /\ Splits(U, sep, nested, qs) /\ Quiet(U, Separator(Other(o)), nested, 0)
      BY <2>1 DEF Reads, sep
  <2>3. Splits(X, sep, nested, ps \o qs)
      BY <1>1, <1>2, <2>2, SplitsConcat
  <2>4. Quiet(<<sep>>, Separator(Other(o)), nested, 0)
      BY <1>2, <1>10, QuietToken
  <2>5. Quiet(TS, Separator(Other(o)), nested, 0)
      BY <1>1, <1>3, <2>2, <2>4, QuietConcat
  <2>6. Quiet(X, Separator(Other(o)), nested, 0)
      BY <1>1, <1>3, <2>2, <2>5, QuietConcat
  <2> QED BY <2>3, <2>6
<1>12. ASSUME NEW o2 \in Operators, NEW depth \in Nat \ {0}
       PROVE  Quiet(X, Separator(o2), TRUE, depth)
  <2>1. Quiet(T, Separator(o2), TRUE, depth) /\ Quiet(U, Separator(o2), TRUE, depth)
      BY Zenon DEF Reads
  <2>2. Quiet(<<sep>>, Separator(o2), TRUE, depth)
    <3>1. depth \in Int /\ depth # 0 /\ TRUE \in BOOLEAN /\ Separator(o2) \in Tokens
        BY SignTokens
    <3> QED BY Zenon, <3>1, <1>2, QuietToken
  <2>3. Quiet(TS, Separator(o2), TRUE, depth)
      BY Zenon, <1>1, <1>3, <2>1, <2>2, QuietConcat
  <2> QED BY Zenon, <1>1, <1>3, <2>1, <2>3, QuietConcat
<1>13. Len(ps \o qs) > 0 /\ Len(ps \o qs) = Len(ns \o ms)
    BY <1>1, <1>7
<1> HIDE DEF X
<1>14. Reads(X, o, ps \o qs, ns \o ms, h)
    BY Zenon, <1>3, <1>6, <1>7, <1>9, <1>11, <1>12, <1>13 DEF Reads, sep
<1> QED BY <1>7, <1>14 DEF X, sep

-----------------------------------------------------------------------------
(* What the parser makes of texts and pieces. *)
LEMMA ExpressibleReadable ==
    \A h \in Nat : Unreadable \notin Expressible[h]
<1> SUFFICES ASSUME NEW h \in Nat, Unreadable \in Expressible[h]
             PROVE  FALSE
    OBVIOUS
<1>1. Unreadable \in FilterNodes[h]
    BY ExpressibleNodes
<1>2. h # 0
    BY <1>1, NodesEq
<1>3. h - 1 \in Nat /\ (h - 1) + 1 = h
    BY <1>2
<1>4. Unreadable \in Conditions \cup GroupsOf(FilterNodes[h - 1])
    BY <1>1, <1>3, NodesEq
<1>5. Unreadable.type = "condition" \/ Unreadable.type = "group"
    BY <1>4, ConditionFields, GroupFields
<1> QED BY <1>5 DEF Unreadable

LEMMA ReadsParse ==
    ASSUME NEW h \in Nat, NEW o \in Operators, NEW T, NEW ps, NEW ns,
           Reads(T, o, ps, ns, h), Len(ps) > 1, NEW n \in Nat, n >= Len(T)
    PROVE  parsed[n][T] = Group(o, ns)
<1> DEFINE E == Expressible[h]
<1>1. /\ T \in Texts /\ T # <<>> /\ ps \in Seq(Texts) /\ ns \in Seq(E) /\ Len(ps) = Len(ns)
    BY DEF Reads
<1>2. Len(T) \in Nat /\ Len(T) # 0 /\ Len(ps) \in Nat /\ DOMAIN ps = 1..Len(ps)
    BY <1>1 DEF Texts
<1> DEFINE m == n - 1
<1>3. m \in Nat /\ m + 1 = n /\ n # 0
    BY <1>2
<1> HIDE DEF m
<1>4. ASSUME NEW i \in 1..Len(ps)
      PROVE  parsed[m][ps[i]] = ns[i]
  <2>1. Piece(ps[i], ns[i], h) /\ Len(ps[i]) < Len(T)
      BY DEF Reads
  <2>2. Len(ps[i]) \in Nat
      BY <2>1 DEF Piece, Texts
  <2>3. m >= Len(ps[i])
      BY <1>2, <1>3, <2>1, <2>2
  <2> QED BY <1>3, <2>1, <2>3 DEF Piece
<1> DEFINE trees == [i \in DOMAIN ps |-> parsed[m][ps[i]]]
<1>5. trees = ns
  <2> HIDE DEF E
  <2>1. ns = [i \in 1..Len(ps) |-> ns[i]]
      BY <1>1
  <2>2. trees = [i \in 1..Len(ps) |-> ns[i]]
      BY <1>2, <1>4
  <2> QED BY <2>1, <2>2
<1>6. Unreadable \notin Range(ns)
  <2>1. DOMAIN ns = 1..Len(ns) /\ \A i \in 1..Len(ns) : ns[i] \in E
    <3> HIDE DEF E
    <3> QED BY <1>1
  <2> QED BY <2>1, ExpressibleReadable DEF Range
<1>7. parseLogicalGroup(trees, o) = Group(o, ns)
    BY <1>5, <1>6 DEF parseLogicalGroup
<1>8. /\ Splits(T, Separator(o), TRUE, ps) /\ Quiet(T, Separator(Other(o)), TRUE, 0)
    BY Zenon DEF Reads
<1>9. ps[Len(ps)] # <<>>
  <2>1. Len(ps) \in 1..Len(ps)
      BY <1>2
  <2> QED BY Zenon, <2>1 DEF Reads, Piece
<1>10. splitLogical(T, Separator(o)) = ps
  <2>1. Len(ps) > 0
      BY <1>2
  <2> QED BY Zenon, <2>1, <1>1, <1>8, <1>9, SplitsWhole, SignTokens
<1>11. splitLogical(T, Separator(Other(o))) = <<T>>
    BY Zenon, <1>1, <1>8, QuietWhole, SignTokens
<1>12. ~(Len(<<T>>) > 1)
    OBVIOUS
<1>13. parsed[n] = ParsedStep(parsed[m], n)
    BY Zenon, <1>3, ParsedEq
<1>14. CASE o = "or"
  <2>1. ParsedStep(parsed[m], n)[T] = parseLogicalGroup(trees, "or")
      BY Zenon, <1>1, <1>3, <1>10, <1>14 DEF ParsedStep
  <2> QED BY <2>1, <1>7, <1>13, <1>14
<1>15. CASE o = "and"
  <2>1. splitLogical(T, Separator("or")) = <<T>> /\ splitLogical(T, Separator("and")) = ps
      BY <1>10, <1>11, <1>15 DEF Other
  <2>2. ParsedStep(parsed[m], n)[T] = parseLogicalGroup(trees, "and")
      BY Zenon, <1>1, <1>3, <2>1, <1>12 DEF ParsedStep
  <2> QED BY <2>2, <1>7, <1>13, <1>15
<1> QED BY <1>14, <1>15 DEF Operators

(* A text that is quiet as a whole is a condition or in parentheses. *)
LEMMA QuietParse ==
    ASSUME NEW T \in Texts, T # <<>>, \A o \in Operators : Quiet(T, Separator(o), TRUE, 0), NEW m \in Nat
    PROVE  parsed[m + 1][T] =
                IF T[1] = Open /\ T[Len(T)] = Close THEN parsed[m][SubSeq(T, 2, Len(T) - 1)]
                ELSE parseSingleCondition(T)
<1>1. splitLogical(T, Separator("or")) = <<T>> /\ splitLogical(T, Separator("and")) = <<T>>
    BY Zenon, QuietWhole, SignTokens DEF Operators
<1>2. ~(Len(<<T>>) > 1)
    OBVIOUS
<1>3. m + 1 # 0
    OBVIOUS
<1>4. parsed[m + 1] = ParsedStep(parsed[m], m + 1)
    BY ParsedEq
<1> DEFINE v == parsed[m]
           k == m + 1
<1>5. k # 0
    BY <1>3
<1> HIDE DEF v, k
<1>6. ParsedStep(v, k)[T] =
            IF T[1] = Open /\ T[Len(T)] = Close THEN v[SubSeq(T, 2, Len(T) - 1)] ELSE parseSingleCondition(T)
    BY Zenon, <1>1, <1>2, <1>5 DEF ParsedStep
<1> QED BY <1>4, <1>6 DEF v, k

LEMMA InParenthesesFields ==
    ASSUME NEW T \in Texts
    PROVE  LET P == InParentheses(T)
           IN  /\ P \in Texts /\ P # <<>> /\ Len(P) = Len(T) + 2
               /\ P[1] = Open /\ P[Len(P)] = Close /\ SubSeq(P, 2, Len(P) - 1) = T
               /\ Open \in Range(P)
<1>1. <<Open>> \in Texts /\ <<Close>> \in Texts /\ T \in Texts
    BY SignTokens, OneElement DEF Texts
<1> DEFINE O == <<Open>> \o T
           P == O \o <<Close>>
<1>2. Len(T) \in Nat /\ Len(<<Open>>) = 1 /\ Len(<<Close>>) = 1 /\ <<Open>>[1] = Open /\ <<Close>>[1] = Close
    BY <1>1 DEF Texts
<1>3. /\ O \in Texts /\ Len(O) = 1 + Len(T) /\ O[1] = Open
      /\ \A j \in 1..Len(T) : O[1 + j] = T[j]
    BY <1>1, <1>2, TextConcat
<1> HIDE DEF O
<1>4. /\ P \in Texts /\ Len(P) = Len(O) + 1 /\ P[Len(O) + 1] = Close
      /\ \A j \in 1..Len(O) : P[j] = O[j]
  <2> DEFINE c == <<Close>>
  <2>1. c \in Texts /\ Len(c) = 1 /\ c[1] = Close /\ 1 \in 1..1
      BY <1>1, <1>2
  <2> HIDE DEF c
  <2>2. O \o c \in Texts /\ Len(O \o c) = Len(O) + Len(c)
      BY Zenon, <1>3, <2>1, TextConcat
  <2>3. \A j \in 1..Len(O) : (O \o c)[j] = O[j]
      BY <1>3, <2>1, TextConcat
  <2>4. \A j \in 1..Len(c) : (O \o c)[Len(O) + j] = c[j]
      BY Zenon, <1>3, <2>1, TextConcat
  <2>5. (O \o c)[Len(O) + 1] = Close
      BY <2>1, <2>4
  <2> QED BY <2>1, <2>2, <2>3, <2>5 DEF c
<1> HIDE DEF P
<1>5. Len(P) = Len(T) + 2 /\ P[Len(P)] = Close /\ P # <<>> /\ P[1] = Open
  <2>1. Len(P) = Len(T) + 2 /\ Len(P) = Len(O) + 1 /\ Len(P) # 0 /\ 1 \in 1..Len(O)
      BY <1>2, <1>3, <1>4
  <2> QED BY <2>1, <1>3, <1>4
<1>6. \A j \in 1..Len(T) : P[1 + j] = T[j]
  <2> SUFFICES ASSUME NEW j \in 1..Len(T) PROVE P[1 + j] = T[j]
      OBVIOUS
  <2>1. 1 + j \in 1..Len(O)
      BY <1>2, <1>3
  <2> QED BY <2>1, <1>3, <1>4
<1>7. SubSeq(P, 2, Len(P) - 1) = T
  <2> DEFINE Q == SubSeq(P, 2, Len(T) + 1)
  <2>1. Len(P) - 1 = Len(T) + 1 /\ 2 \in Int /\ Len(T) + 1 \in Int
      BY <1>2, <1>5
  <2>2. \A i \in 2..(Len(T) + 1) : P[i] \in Tokens
    <3> SUFFICES ASSUME NEW i \in 2..(Len(T) + 1) PROVE P[i] \in Tokens
        OBVIOUS
    <3>1. i \in 1..Len(P)
        BY <1>2, <1>5
    <3> QED BY <3>1, <1>4, ElementOfSeq DEF Texts
  <2>3. /\ Q \in Seq(Tokens) /\ Len(Q) = (IF 2 <= Len(T) + 1 THEN (Len(T) + 1) - 2 + 1 ELSE 0)
        /\ \A i \in 1..((Len(T) + 1) - 2 + 1) : Q[i] = P[2 + i - 1]
      BY <2>1, <2>2, SubSeqProperties
  <2> HIDE DEF Q
  <2>4. Len(Q) = Len(T)
      BY <1>2, <2>3
  <2>5. \A i \in 1..Len(T) : Q[i] = T[i]
    <3> SUFFICES ASSUME NEW i \in 1..Len(T) PROVE Q[i] = T[i]
        OBVIOUS
    <3>1. i \in 1..((Len(T) + 1) - 2 + 1) /\ 2 + i - 1 = 1 + i
        BY <1>2
    <3> QED BY <3>1, <2>3, <1>6
  <2>6. Q = T
      BY <2>3, <2>4, <2>5, SeqEqual DEF Texts
  <2> QED BY <2>1, <2>6 DEF Q
<1>8. Open \in Range(P)
  <2>1. DOMAIN P = 1..Len(P) /\ 1 \in 1..Len(P)
      BY <1>2, <1>4, <1>5 DEF Texts
  <2> QED BY <2>1, <1>5 DEF Range
<1>9. P = InParentheses(T)
    BY DEF P, O, InParentheses
<1> QED BY <1>4, <1>5, <1>7, <1>8, <1>9

(* A group in parentheses is a piece. *)
LEMMA GroupPiece ==
    ASSUME NEW h \in Nat, NEW o \in Operators, NEW T, NEW ps, NEW ns,
           Reads(T, o, ps, ns, h), Len(ps) > 1
    PROVE  Piece(InParentheses(T), Group(o, ns), h + 1)
<1> DEFINE P == InParentheses(T)
           E == Expressible[h]
<1>1. T \in Texts /\ ns \in Seq(E) /\ Len(ns) = Len(ps)
    BY DEF Reads
<1>2. /\ P \in Texts /\ P # <<>> /\ Len(P) = Len(T) + 2
      /\ P[1] = Open /\ P[Len(P)] = Close /\ SubSeq(P, 2, Len(P) - 1) = T /\ Open \in Range(P)
    BY <1>1, InParenthesesFields
<1>3. Group(o, ns) \in Expressible[h + 1]
  <2>1. Group(o, ns) \in GroupsOf(E)
      BY <1>1 DEF GroupsOf, Group, Operators
  <2>2. Group(o, ns).conditions = ns
      BY DEF Group
  <2>3. Group(o, ns) \in GroupsOfSeveral(E)
      BY <1>1, <2>1, <2>2 DEF GroupsOfSeveral
  <2> QED BY <2>3, ExpressibleEq
<1>4. ASSUME NEW o2 \in Operators, NEW depth \in Nat
      PROVE  Quiet(P, Separator(o2), TRUE, depth)
  <2>1. depth + 1 \in Nat \ {0}
      OBVIOUS
  <2>2. Quiet(T, Separator(o2), TRUE, depth + 1)
      BY Zenon, <2>1 DEF Reads
  <2> QED BY Zenon, <1>1, <2>2, QuietNested
<1> HIDE DEF P
<1>5. ASSUME NEW n \in Nat, n >= Len(P)
      PROVE  parsed[n][P] = Group(o, ns)
  <2> DEFINE m == n - 1
  <2>1. Len(T) \in Nat
      BY <1>1 DEF Texts
  <2>2. m \in Nat /\ m + 1 = n /\ m >= Len(T)
      BY <1>2, <1>5, <2>1
  <2> HIDE DEF m
  <2>3. \A o2 \in Operators : Quiet(P, Separator(o2), TRUE, 0)
      BY Zenon, <1>4
  <2>4. parsed[m + 1][P] = parsed[m][T]
      BY Zenon, <1>2, <2>2, <2>3, QuietParse
  <2>5. parsed[m][T] = Group(o, ns)
      BY <2>2, ReadsParse
  <2> QED BY <2>2, <2>4, <2>5
<1>6. Piece(P, Group(o, ns), h + 1)
    BY Zenon, <1>2, <1>3, <1>4, <1>5 DEF Piece
<1> QED BY <1>6 DEF P

(* The condition that a written one is read as. *)
ReadBack(c) == Condition(c.op, IF c.op = "exists" THEN Nil ELSE c.value)

LEMMA ConditionTokens ==
    ASSUME NEW c \in Comparisons
    PROVE  /\ conditionToExpression(c) = WrittenCondition(ReadBack(c).op, ReadBack(c).value)
           /\ ReadBack(c) \in Comparisons
           /\ conditionToExpression(c) \in Tokens
           /\ \A t : conditionToExpression(c) # Sign(t) \/ t = "condition"
<1>1. c.op \in SymbolOps \cup {"exists"} /\ c.op \in Ops /\ c.value \in Values
    BY ConditionFields DEF Comparisons
<1>2. c.op # "null" /\ c.op # "notnull" /\ c.op # "notexists"
    BY <1>1 DEF SymbolOps
<1>3. conditionToExpression(c) = WrittenCondition(c.op, IF c.op = "exists" THEN Nil ELSE c.value)
    BY <1>2 DEF conditionToExpression
<1>4. ReadBack(c).op = c.op /\ ReadBack(c).value = (IF c.op = "exists" THEN Nil ELSE c.value)
    BY DEF ReadBack, Condition
<1>5. Nil \in Values
    BY DEF Values
<1>6. ReadBack(c) \in Comparisons
    BY <1>1, <1>4, <1>5 DEF ReadBack, Condition, Conditions, Comparisons
<1>7. conditionToExpression(c) \in Tokens
    BY <1>1, <1>3, <1>5 DEF WrittenCondition, Tokens
<1>8. conditionToExpression(c).token = "condition"
    BY <1>3 DEF WrittenCondition
<1>9. \A t : Sign(t).token = t
    BY DEF Sign
<1> QED BY <1>3, <1>4, <1>6, <1>7, <1>8, <1>9

LEMMA ReadBackSame ==
    ASSUME NEW c \in Comparisons, NEW d \in Data
    PROVE  evaluateCondition(ReadBack(c), d) = evaluateCondition(c, d)
<1>1. ReadBack(c).op = c.op /\ ReadBack(c).value = (IF c.op = "exists" THEN Nil ELSE c.value)
    BY DEF ReadBack, Condition
<1>2. CASE c.op = "exists"
    BY <1>1, <1>2 DEF evaluateCondition
<1>3. CASE c.op # "exists"
    BY <1>1, <1>3 DEF evaluateCondition
<1> QED BY <1>2, <1>3

LEMMA WrittenSingle ==
    ASSUME NEW c \in Comparisons, NEW d \in Data
    PROVE  evaluateSingleExpression(<<WrittenCondition(c.op, c.value)>>, d) = evaluateCondition(c, d)
<1> DEFINE w == WrittenCondition(c.op, c.value)
           text == <<w>>
<1>1. w.token = "condition" /\ w.op = c.op /\ w.value = c.value
    BY DEF WrittenCondition
<1>2. Open.token = "(" /\ Close.token = ")"
    BY DEF Open, Close, Sign
<1>3. w # Open /\ w # Close
    BY <1>1, <1>2
<1> HIDE DEF w
<1>4. text[1] = w /\ Len(text) = 1 /\ Range(text) = {w}
    BY DEF Range
<1>5. c.op \in SymbolOps \cup {"exists"}
    BY DEF Comparisons
<1>6. c.op \in SymbolOps => c.op \notin {"exists", "notexists", "null", "notnull"}
    BY DEF SymbolOps
<1> HIDE DEF text
<1>7. (CHOOSE t \in Range(text) : t.token = "condition") = w
    BY <1>1, <1>4
<1>8. CASE c.op = "exists"
  <2>1. evaluateSingleExpression(text, d) = Result(d # Missing)
      BY <1>1, <1>3, <1>4, <1>6, <1>7, <1>8 DEF evaluateSingleExpression, Result
  <2>2. evaluateCondition(c, d) = Result(d # Missing)
      BY <1>8 DEF evaluateCondition
  <2> QED BY <2>1, <2>2 DEF text, w
<1>9. CASE c.op \in SymbolOps
  <2>1. evaluateSingleExpression(text, d) = IF d = Missing THEN "drop" ELSE compare(d, c.op, c.value)
      BY <1>1, <1>3, <1>4, <1>6, <1>7, <1>9 DEF evaluateSingleExpression
  <2>2. evaluateCondition(c, d) = IF d = Missing THEN "drop" ELSE compare(d, c.op, c.value)
      BY <1>6, <1>9 DEF evaluateCondition
  <2> QED BY <2>1, <2>2 DEF text, w
<1> QED BY <1>5, <1>8, <1>9

LEMMA ConditionPiece ==
    ASSUME MaxNesting \in Nat, MaxNesting > 0, NEW c \in Comparisons, NEW h \in Nat
    PROVE  /\ Piece(<<conditionToExpression(c)>>, ReadBack(c), h + 1)
           /\ \A d \in Data : Holds(ReadBack(c), d) <=> Holds(c, d)
<1> DEFINE r == ReadBack(c)
           w == WrittenCondition(r.op, r.value)
           p == <<w>>
<1>1. /\ conditionToExpression(c) = w /\ r \in Comparisons /\ w \in Tokens
      /\ \A t : w # Sign(t) \/ t = "condition"
    BY ConditionTokens
<1>2. w # Open /\ w # Close /\ \A o : w # Separator(o)
    BY <1>1 DEF Open, Close, Separator
<1>3. \A d \in Data : evaluateNode(c, d) = evaluateCondition(c, d) /\ evaluateNode(r, d) = evaluateCondition(r, d)
  <2>1. 0 \in Nat /\ 0 + 1 <= MaxNesting
      OBVIOUS
  <2> QED BY Zenon, <1>1, <2>1, EvaluateNodeEq DEF Comparisons
<1>4. \A d \in Data : Holds(r, d) <=> Holds(c, d)
    BY <1>3, ReadBackSame DEF Holds
<1>5. Bare(w, r)
    BY <1>1, <1>3, WrittenSingle DEF Bare
<1>6. w.token = "condition" /\ w.op = r.op /\ w.value = r.value
    BY DEF WrittenCondition
<1>7. r.op \in SymbolOps \cup {"exists"} /\ Condition(r.op, r.value) = r
    BY <1>1 DEF Comparisons, Conditions, Condition
<1> HIDE DEF r, w
<1>8. p \in Texts /\ p # <<>> /\ Len(p) = 1 /\ p[1] = w
    BY <1>1, OneElement DEF Texts
<1>9. \A o \in Operators, nested \in BOOLEAN, depth \in Nat : Quiet(p, Separator(o), nested, depth)
    BY <1>1, <1>2, QuietToken, SignTokens
<1>10. parseSingleCondition(p) = r
    BY <1>6, <1>7, <1>8 DEF parseSingleCondition
<1>11. r \in Expressible[h + 1]
    BY Zenon, <1>1, ExpressibleEq
<1> HIDE DEF p
<1>12. ASSUME NEW n \in Nat, n >= Len(p)
       PROVE  parsed[n][p] = r
  <2> DEFINE m == n - 1
  <2>1. m \in Nat /\ m + 1 = n
      BY <1>8, <1>12
  <2> HIDE DEF m
  <2>2. \A o \in Operators : Quiet(p, Separator(o), TRUE, 0)
      BY Zenon, <1>9
  <2>3. parsed[m + 1][p] = parseSingleCondition(p)
      BY Zenon, <1>2, <1>8, <2>1, <2>2, QuietParse
  <2> QED BY <2>1, <2>3, <1>10
<1>13. \A o \in Operators : Quiet(p, Separator(o), FALSE, 0)
    BY Zenon, <1>9
<1>14. \A o \in Operators, depth \in Nat : Quiet(p, Separator(o), TRUE, depth)
    BY Zenon, <1>9
<1>15. p = <<w>>
    BY DEF p
<1>16. Piece(p, r, h + 1)
    BY Zenon, <1>1, <1>5, <1>8, <1>11, <1>12, <1>13, <1>14, <1>15 DEF Piece
<1> QED BY <1>1, <1>4, <1>15, <1>16 DEF r

-----------------------------------------------------------------------------
(* A text that is read as a group with the meaning of the node. *)
SaysPart(text, operator, h, node) ==
    \E ps, ns :
        /\ Reads(text, operator, ps, ns, h)
        /\ \A d \in Data : HoldsUpTo(operator, ns, Len(ns), d) <=> Holds(node, d)

SaysGroup(text, operator, h, node) ==
    \E ps, ns :
        /\ Reads(text, operator, ps, ns, h) /\ Len(ps) > 1
        /\ \A d \in Data : HoldsUpTo(operator, ns, Len(ns), d) <=> Holds(node, d)

LEMMA HoldsOne ==
    ASSUME NEW o, NEW nodes, NEW d
    PROVE  HoldsUpTo(o, nodes, 1, d) <=> Holds(nodes[1], d)
<1>1. \A i \in 1..1 : i = 1
    OBVIOUS
<1>2. 1 \in 1..1
    OBVIOUS
<1> QED BY <1>1, <1>2 DEF HoldsUpTo

LEMMA HoldsNext ==
    ASSUME NEW o, NEW nodes, NEW k \in Nat, NEW d
    PROVE  HoldsUpTo(o, nodes, k + 1, d) <=>
                IF o = "and" THEN HoldsUpTo(o, nodes, k, d) /\ Holds(nodes[k + 1], d)
                             ELSE HoldsUpTo(o, nodes, k, d) \/ Holds(nodes[k + 1], d)
<1>1. 1..(k + 1) = (1..k) \cup {k + 1}
    OBVIOUS
<1> QED BY <1>1 DEF HoldsUpTo

LEMMA HoldsConcat ==
    ASSUME NEW o, NEW E, NEW ns \in Seq(E), NEW ms \in Seq(E), NEW d
    PROVE  HoldsUpTo(o, ns \o ms, Len(ns \o ms), d) <=>
                IF o = "and" THEN HoldsUpTo(o, ns, Len(ns), d) /\ HoldsUpTo(o, ms, Len(ms), d)
                             ELSE HoldsUpTo(o, ns, Len(ns), d) \/ HoldsUpTo(o, ms, Len(ms), d)
<1> DEFINE c == ns \o ms
<1>1. /\ Len(c) = Len(ns) + Len(ms) /\ Len(ns) \in Nat /\ Len(ms) \in Nat
      /\ \A i \in 1..Len(ns) : c[i] = ns[i]
      /\ \A i \in 1..Len(ms) : c[Len(ns) + i] = ms[i]
    OBVIOUS
<1> HIDE DEF c
<1>2. \A i \in 1..Len(ns) : i \in 1..Len(c) /\ c[i] = ns[i]
    BY <1>1
<1>3. \A i \in 1..Len(ms) : Len(ns) + i \in 1..Len(c) /\ c[Len(ns) + i] = ms[i]
    BY <1>1
<1>4. \A i \in 1..Len(c) : i \in 1..Len(ns) \/ (i - Len(ns) \in 1..Len(ms) /\ Len(ns) + (i - Len(ns)) = i)
    BY <1>1
<1>5. \A i \in 1..Len(c) : i \in 1..Len(ns) \/ \E j \in 1..Len(ms) : c[i] = ms[j]
    BY Zenon, <1>1, <1>4
<1>6. CASE o = "and"
    BY Zenon, <1>2, <1>3, <1>5, <1>6 DEF HoldsUpTo, c
<1>7. CASE o # "and"
    BY <1>2, <1>3, <1>5, <1>7 DEF HoldsUpTo, c
<1> QED BY <1>6, <1>7

LEMMA ReadsGrow ==
    ASSUME NEW h \in Nat, NEW T, NEW o, NEW ps, NEW ns, Reads(T, o, ps, ns, h)
    PROVE  Reads(T, o, ps, ns, h + 1)
<1>1. Expressible[h] \subseteq Expressible[h + 1]
    BY ExpressibleGrow
<1>2. \A p, node : Piece(p, node, h) => Piece(p, node, h + 1)
    BY Zenon, <1>1 DEF Piece
<1>3. ns \in Seq(Expressible[h])
    BY DEF Reads
<1>4. ns \in Seq(Expressible[h + 1])
    BY <1>1, <1>3, SeqMonotonic
<1> QED BY Zenon, <1>2, <1>4 DEF Reads

(* Joined parts are read as one group. *)
LEMMA JoinReads ==
    ASSUME NEW h \in Nat, NEW o \in Operators, NEW conds, NEW parts \in Seq(Texts),
           \A i \in 1..Len(parts) : SaysPart(parts[i], o, h, conds[i])
    PROVE  \A k \in Nat : k \in 1..Len(parts) =>
              \E ps, ns :
                /\ Reads(joined[k][parts][Separator(o)], o, ps, ns, h) /\ Len(ps) >= k
                /\ \A d \in Data : HoldsUpTo(o, ns, Len(ns), d) <=> HoldsUpTo(o, conds, k, d)
<1> DEFINE sep == Separator(o)
           J(k) == \E ps, ns :
                      /\ Reads(joined[k][parts][sep], o, ps, ns, h) /\ Len(ps) >= k
                      /\ \A d \in Data : HoldsUpTo(o, ns, Len(ns), d) <=> HoldsUpTo(o, conds, k, d)
           S == {k \in Nat : k \in 1..Len(parts) => J(k)}
<1>0. sep \in Tokens
    BY SignTokens
<1>1. 0 \in S
    OBVIOUS
<1>2. ASSUME NEW k \in Nat, k \in S
      PROVE  k + 1 \in S
  <2> SUFFICES ASSUME k + 1 \in 1..Len(parts)
               PROVE  J(k + 1)
      OBVIOUS
  <2>1. PICK qs, ms :
            /\ Reads(parts[k + 1], o, qs, ms, h)
            /\ \A d \in Data : HoldsUpTo(o, ms, Len(ms), d) <=> Holds(conds[k + 1], d)
      BY DEF SaysPart
  <2>2. qs \in Seq(Texts) /\ ms \in Seq(Expressible[h]) /\ Len(qs) > 0
      BY <2>1 DEF Reads
  <2>3. Len(qs) \in Nat
      BY <2>2
  <2>4. CASE k = 0
    <3>1. joined[1][parts][sep] = parts[1]
        BY Zenon, <1>0, JoinedEq
    <3>2. k + 1 = 1
        BY <2>4
    <3>3. Reads(joined[1][parts][sep], o, qs, ms, h)
        BY <2>1, <3>1, <3>2
    <3>4. \A d \in Data : HoldsUpTo(o, ms, Len(ms), d) <=> HoldsUpTo(o, conds, 1, d)
        BY <2>1, <3>2, HoldsOne
    <3>5. Len(qs) >= 1
        BY <2>2, <2>3
    <3>6. J(1)
        BY <3>3, <3>4, <3>5
    <3> HIDE DEF J
    <3> QED BY <3>2, <3>6
  <2>5. CASE k # 0
    <3>1. k > 0 /\ k \in 1..Len(parts)
        BY <2>5
    <3>2. J(k)
        BY <1>2, <3>1
    <3>3. PICK ps, ns :
            /\ Reads(joined[k][parts][sep], o, ps, ns, h) /\ Len(ps) >= k
            /\ \A d \in Data : HoldsUpTo(o, ns, Len(ns), d) <=> HoldsUpTo(o, conds, k, d)
        BY <3>2
    <3>4. joined[k + 1][parts][sep] = (joined[k][parts][sep] \o <<sep>>) \o parts[k + 1]
        BY Zenon, <1>0, <3>1, JoinedEq
    <3>5. /\ Reads((joined[k][parts][sep] \o <<sep>>) \o parts[k + 1], o, ps \o qs, ns \o ms, h)
          /\ Len(ps \o qs) = Len(ps) + Len(qs)
      <4>1. Reads(parts[k + 1], o, qs, ms, h) /\ Reads(joined[k][parts][sep], o, ps, ns, h)
          BY Zenon, <2>1, <3>3
      <4> QED BY ONLY <4>1, o \in Operators, ReadsConcat DEF sep
    <3>6. ps \in Seq(Texts) /\ ns \in Seq(Expressible[h])
        BY Zenon, <3>3 DEF Reads
    <3>7. Len(ps) \in Nat
        BY <3>6
    <3>8. Len(ps \o qs) >= k + 1
      <4>1. Len(ps) >= k /\ Len(qs) > 0 /\ Len(ps \o qs) = Len(ps) + Len(qs)
          BY <2>2, <3>3, <3>5
      <4>2. \A a, b, c \in Nat : a >= c /\ b > 0 => a + b >= c + 1
          BY ONLY TRUE
      <4> QED BY ONLY <4>1, <4>2, <2>3, <3>7, k \in Nat
    <3>9. ASSUME NEW d \in Data
          PROVE  HoldsUpTo(o, ns \o ms, Len(ns \o ms), d) <=> HoldsUpTo(o, conds, k + 1, d)
      <4>1. HoldsUpTo(o, ns \o ms, Len(ns \o ms), d) <=>
                IF o = "and" THEN HoldsUpTo(o, ns, Len(ns), d) /\ HoldsUpTo(o, ms, Len(ms), d)
                             ELSE HoldsUpTo(o, ns, Len(ns), d) \/ HoldsUpTo(o, ms, Len(ms), d)
          BY Zenon, <2>2, <3>6, HoldsConcat
      <4>2. HoldsUpTo(o, conds, k + 1, d) <=>
                IF o = "and" THEN HoldsUpTo(o, conds, k, d) /\ Holds(conds[k + 1], d)
                             ELSE HoldsUpTo(o, conds, k, d) \/ Holds(conds[k + 1], d)
          BY HoldsNext
      <4>3. HoldsUpTo(o, ns, Len(ns), d) <=> HoldsUpTo(o, conds, k, d)
          BY <3>3
      <4>4. HoldsUpTo(o, ms, Len(ms), d) <=> Holds(conds[k + 1], d)
          BY <2>1
      <4> QED BY <4>1, <4>2, <4>3, <4>4
    <3>10. Reads(joined[k + 1][parts][sep], o, ps \o qs, ns \o ms, h)
        BY <3>4, <3>5
    <3> QED BY Zenon, <3>8, <3>9, <3>10
  <2> QED BY <2>4, <2>5
<1> HIDE DEF S
<1>3. \A k \in Nat : k \in S
    BY <1>1, <1>2, Induction
<1> QED BY <1>3 DEF S, sep

(* What a group writes for one of its conditions. *)
LEMMA PartSays ==
    ASSUME MaxNesting \in Nat, NEW n \in Nat, n + 1 <= MaxNesting, NEW o \in Operators, NEW node \in Expressible[n + 1],
           \A g \in GroupsOfSeveral(Expressible[n]) : SaysGroup(nodeToExpression(g), g.operator, n, g)
    PROVE  SaysPart(Nested(node, o, nodeToExpression(node)), o, n + 1, node)
<1>1. node \in Comparisons \/ node \in GroupsOfSeveral(Expressible[n])
    BY ExpressibleEq
<1>2. ASSUME NEW p, NEW m, Piece(p, m, n + 1), \A d \in Data : Holds(m, d) <=> Holds(node, d)
      PROVE  SaysPart(p, o, n + 1, node)
  <2>1. Reads(p, o, <<p>>, <<m>>, n + 1)
      BY <1>2, PieceReads
  <2>2. Len(<<m>>) = 1 /\ <<m>>[1] = m
      OBVIOUS
  <2>3. \A d \in Data : HoldsUpTo(o, <<m>>, Len(<<m>>), d) <=> Holds(node, d)
      BY <1>2, <2>2, HoldsOne
  <2> QED BY Zenon, <2>1, <2>3 DEF SaysPart
<1>3. CASE node \in Comparisons
  <2>1. node.type # "group"
      BY <1>3, ConditionFields DEF Comparisons
  <2>2. nodeToExpression(node) = <<conditionToExpression(node)>>
      BY <1>3, NodeToExpressionEq
  <2>3. Nested(node, o, nodeToExpression(node)) = <<conditionToExpression(node)>>
      BY <2>1, <2>2 DEF Nested
  <2>4. MaxNesting > 0
      OBVIOUS
  <2>5. /\ Piece(<<conditionToExpression(node)>>, ReadBack(node), n + 1)
        /\ \A d \in Data : Holds(ReadBack(node), d) <=> Holds(node, d)
      BY <1>3, <2>4, ConditionPiece
  <2> QED BY <1>2, <2>3, <2>5
<1>4. CASE node \in GroupsOfSeveral(Expressible[n])
  <2> DEFINE T == nodeToExpression(node)
             oo == node.operator
  <2>1. node.type = "group" /\ oo \in Operators
      BY <1>4, SeveralFields, GroupFields DEF Operators
  <2>2. SaysGroup(T, oo, n, node)
      BY <1>4
  <2> HIDE DEF T
  <2>3. PICK ps, ns :
            /\ Reads(T, oo, ps, ns, n) /\ Len(ps) > 1
            /\ \A d \in Data : HoldsUpTo(oo, ns, Len(ns), d) <=> Holds(node, d)
      BY <2>2 DEF SaysGroup
  <2>4. CASE oo = o
    <3>1. Nested(node, o, T) = T
        BY <2>4 DEF Nested
    <3>2. Reads(T, o, ps, ns, n + 1)
        BY <2>3, <2>4, ReadsGrow
    <3> QED BY <2>3, <2>4, <3>1, <3>2 DEF SaysPart, T
  <2>5. CASE oo # o
    <3>1. Nested(node, o, T) = InParentheses(T)
        BY <2>1, <2>5 DEF Nested, InParentheses
    <3> DEFINE m == Group(oo, ns)
    <3>2. Piece(InParentheses(T), m, n + 1)
        BY <2>1, <2>3, GroupPiece
    <3>3. m.operator = oo /\ m.conditions = ns
        BY DEF Group
    <3>4. ns \in Seq(Expressible[n]) /\ Len(ns) = Len(ps)
        BY <2>3 DEF Reads
    <3>5. m \in GroupsOfSeveral(Expressible[n])
        BY <2>1, <2>3, <3>3, <3>4 DEF GroupsOfSeveral, GroupsOf, Group, Operators
    <3> HIDE DEF m
    <3>6. \A d \in Data : Holds(m, d) <=> HoldsUpTo(oo, ns, Len(ns), d)
        BY <3>3, <3>5, ExpressibleGroupHolds
    <3>7. \A d \in Data : Holds(m, d) <=> Holds(node, d)
        BY <2>3, <3>6
    <3> QED BY <1>2, <3>1, <3>2, <3>7 DEF T
  <2> QED BY <2>4, <2>5
<1> QED BY <1>1, <1>3, <1>4

(* The text of a group of several is read as a group with its meaning. *)
LEMMA GroupSays ==
    ASSUME MaxNesting \in Nat
    PROVE  \A n \in Nat : n + 1 <= MaxNesting =>
              \A g \in GroupsOfSeveral(Expressible[n]) : SaysGroup(nodeToExpression(g), g.operator, n, g)
<1> DEFINE Q(n) == \A g \in GroupsOfSeveral(Expressible[n]) : SaysGroup(nodeToExpression(g), g.operator, n, g)
           S == {n \in Nat : n + 1 <= MaxNesting => Q(n)}
<1>1. 0 \in S
  <2> SUFFICES ASSUME NEW g \in GroupsOfSeveral(Expressible[0])
               PROVE  FALSE
      OBVIOUS
  <2>1. g.conditions \in Seq({}) /\ Len(g.conditions) > 1 /\ Len(g.conditions) \in Nat
      BY ExpressibleEq, SeveralFields, GroupFields
  <2>2. 1 \in 1..Len(g.conditions)
      BY <2>1
  <2> QED BY <2>1, <2>2, ElementOfSeq
<1>2. ASSUME NEW n \in Nat, n \in S
      PROVE  n + 1 \in S
  <2> SUFFICES ASSUME (n + 1) + 1 <= MaxNesting, NEW g \in GroupsOfSeveral(Expressible[n + 1])
               PROVE  SaysGroup(nodeToExpression(g), g.operator, n + 1, g)
      OBVIOUS
  <2>1. n + 1 <= MaxNesting /\ n + 1 \in Nat
      OBVIOUS
  <2>2. Q(n)
      BY <1>2, <2>1
  <2> DEFINE conds == g.conditions
             o == g.operator
             parts == [i \in DOMAIN conds |-> Nested(conds[i], o, nodeToExpression(conds[i]))]
  <2>3. /\ o \in Operators /\ Len(conds) > 1 /\ Len(conds) \in Nat /\ DOMAIN conds = 1..Len(conds)
        /\ \A i \in 1..Len(conds) : conds[i] \in Expressible[n + 1]
      BY SeveralFields, GroupFields DEF Operators
  <2>4. nodeToExpression(g) = Join(parts, Separator(o))
      BY <2>1, NodeToExpressionEq
  <2>5. ASSUME NEW i \in 1..Len(conds)
        PROVE  SaysPart(parts[i], o, n + 1, conds[i])
    <3>1. conds[i] \in Expressible[n + 1] /\ parts[i] = Nested(conds[i], o, nodeToExpression(conds[i]))
        BY <2>3
    <3> HIDE DEF parts, conds, o
    <3> QED BY <2>1, <2>2, <2>3, <3>1, PartSays
  <2>6. \A i \in 1..Len(conds) : parts[i] \in Texts
    <3> HIDE DEF parts
    <3> QED BY Zenon, <2>5 DEF SaysPart, Reads
  <2>7. parts \in Seq(Texts) /\ Len(parts) = Len(conds)
    <3>1. parts \in [1..Len(conds) -> Texts]
        BY Zenon, <2>3, <2>6
    <3> HIDE DEF parts, conds
    <3>2. \A l \in Nat : \A f \in [1..l -> Texts] : f \in Seq(Texts) /\ Len(f) = l
        OBVIOUS
    <3> QED BY <2>3, <3>1, <3>2
  <2>8. \A d \in Data : Holds(g, d) <=> HoldsUpTo(o, conds, Len(conds), d)
      BY ExpressibleGroupHolds, <2>1
  <2> HIDE DEF parts, conds, o
  <2>9. PICK ps, ns :
            /\ Reads(joined[Len(conds)][parts][Separator(o)], o, ps, ns, n + 1) /\ Len(ps) >= Len(conds)
            /\ \A d \in Data : HoldsUpTo(o, ns, Len(ns), d) <=> HoldsUpTo(o, conds, Len(conds), d)
    <3>1. Len(conds) \in 1..Len(parts)
        BY <2>3, <2>7
    <3>2. \A i \in 1..Len(parts) : SaysPart(parts[i], o, n + 1, conds[i])
        BY <2>5, <2>7
    <3> QED BY Zenon, <2>1, <2>3, <2>7, <3>1, <3>2, JoinReads
  <2>10. Reads(nodeToExpression(g), o, ps, ns, n + 1)
      BY <2>4, <2>7, <2>9 DEF Join
  <2>11. Len(ps) > 1
    <3>1. ps \in Seq(Texts)
        BY Zenon, <2>9 DEF Reads
    <3>2. Len(ps) \in Nat
        BY <3>1
    <3> QED BY <2>3, <2>9, <3>2
  <2>12. \A d \in Data : HoldsUpTo(o, ns, Len(ns), d) <=> Holds(g, d)
      BY <2>8, <2>9
  <2> QED BY <2>10, <2>11, <2>12 DEF SaysGroup, o
<1> HIDE DEF S
<1>3. \A n \in Nat : n \in S
    BY <1>1, <1>2, Induction
<1> QED BY <1>3 DEF S

(* Without parentheses a text is evaluated to what its nodes are. *)
LEMMA PlainEvaluates ==
    ASSUME MaxNesting \in Nat, NEW h \in Nat, h <= MaxNesting, NEW o \in Operators, NEW T, NEW ps, NEW ns,
           Reads(T, o, ps, ns, h), Open \notin Range(T), NEW d \in Data
    PROVE  evaluateExpression(T, d) = Result(HoldsUpTo(o, ns, Len(ns), d))
<1> DEFINE len == Len(ps)
           E == Expressible[h]
<1>1. T \in Texts /\ T # <<>> /\ ps \in Seq(Texts) /\ ns \in Seq(E) /\ len = Len(ns) /\ len > 0
    BY DEF Reads
<1>2. len \in Nat /\ DOMAIN ps = 1..len
    BY <1>1
<1>3. Splits(T, Separator(o), FALSE, ps) /\ Quiet(T, Separator(Other(o)), FALSE, 0)
    BY Zenon DEF Reads
<1>4. ASSUME NEW i \in 1..len
      PROVE  /\ ps[i] \in Texts /\ ps[i] # <<>>
             /\ \A o2 \in Operators : Quiet(ps[i], Separator(o2), FALSE, 0)
             /\ evaluateSingleExpression(ps[i], d) = evaluateNode(ns[i], d)
             /\ evaluateNode(ns[i], d) \in Decided
  <2>1. Piece(ps[i], ns[i], h) /\ Range(ps[i]) \subseteq Range(T)
      BY DEF Reads
  <2>2. Open \notin Range(ps[i])
      BY <2>1
  <2>3. evaluateSingleExpression(ps[i], d) = evaluateNode(ns[i], d)
      BY Zenon, <2>1, <2>2 DEF Piece, Bare
  <2>4. evaluateNode(ns[i], d) \in Decided
      BY <2>1, ExpressibleDecided DEF Piece
  <2> QED BY Zenon, <2>1, <2>2, <2>3, <2>4 DEF Piece
<1>5. Split(T, Separator(o)) = ps
  <2>1. len \in 1..len
      BY <1>1, <1>2
  <2>2. ps[len] # <<>>
      BY Zenon, <2>1, <1>4
  <2> QED BY Zenon, <1>1, <1>3, <2>2, SplitsWhole, SignTokens
<1>6. ASSUME NEW r \in Decided
      PROVE  AllOf(<<r>>) = r /\ AnyOf(<<r>>) = r
  <2>1. <<r>> \in [1..1 -> Decided] /\ <<r>>[1] = r
      OBVIOUS
  <2>2. \A i \in 1..1 : i = 1
      OBVIOUS
  <2>3. 1 \in 1..1 /\ 1 \in Nat /\ 1 > 0
      OBVIOUS
  <2> DEFINE q == <<r>>
  <2>4. q \in [1..1 -> Decided] /\ q[1] = r
      BY <2>1
  <2> HIDE DEF q
  <2>5. AllOf(q) = Result(\A i \in 1..1 : q[i] = "pass") /\ AnyOf(q) = Result(\E i \in 1..1 : q[i] = "pass")
      BY Zenon, <2>3, <2>4, GroupDecides
  <2>6. AllOf(q) = r /\ AnyOf(q) = r
      BY <2>2, <2>3, <2>4, <2>5 DEF Result, Decided
  <2> QED BY <2>6 DEF q
<1>7. \A x : DOMAIN <<x>> = {1} /\ <<x>>[1] = x
    OBVIOUS
<1> DEFINE results == [i \in 1..len |-> evaluateNode(ns[i], d)]
<1>8. results \in [1..len -> Decided] /\ \A i \in 1..len : results[i] = "pass" <=> Holds(ns[i], d)
    BY Zenon, <1>4 DEF Holds
<1>9. CASE o = "and"
  <2>1. ASSUME NEW i \in 1..len
        PROVE  evaluateOr(ps[i], d) = evaluateNode(ns[i], d)
    <3>1. Split(ps[i], Separator("or")) = <<ps[i]>>
        BY Zenon, <1>4, QuietWhole, SignTokens DEF Operators
    <3> DEFINE one == <<ps[i]>>
               r == evaluateNode(ns[i], d)
    <3>2. [j \in DOMAIN one |-> evaluateSingleExpression(one[j], d)] = <<r>>
      <4> DEFINE p == ps[i]
                 single == evaluateSingleExpression(p, d)
      <4>1. single = r
          BY Zenon, <1>4
      <4> HIDE DEF p
      <4>2. [j \in DOMAIN <<p>> |-> evaluateSingleExpression(<<p>>[j], d)] = <<single>>
          BY ONLY TRUE
      <4> HIDE DEF r, single
      <4> QED BY <4>1, <4>2 DEF p
    <3>3. AnyOf(<<r>>) = r
        BY Zenon, <1>4, <1>6
    <3> HIDE DEF one, r
    <3>4. evaluateOr(ps[i], d) = AnyOf([j \in DOMAIN one |-> evaluateSingleExpression(one[j], d)])
        BY <3>1 DEF evaluateOr, one
    <3> QED BY <3>2, <3>3, <3>4 DEF r
  <2>2. [i \in DOMAIN ps |-> evaluateOr(ps[i], d)] = results
      BY <1>2, <2>1
  <2>3. evaluateExpression(T, d) = AllOf([i \in DOMAIN ps |-> evaluateOr(ps[i], d)])
      BY <1>5, <1>9 DEF evaluateExpression
  <2> HIDE DEF results, len
  <2>4. AllOf(results) = Result(\A i \in 1..len : results[i] = "pass")
      BY Zenon, <1>1, <1>2, <1>8, GroupDecides
  <2>5. HoldsUpTo(o, ns, Len(ns), d) <=> \A i \in 1..len : results[i] = "pass"
      BY <1>1, <1>8, <1>9 DEF HoldsUpTo
  <2> QED BY <2>2, <2>3, <2>4, <2>5 DEF Result
<1>10. CASE o = "or"
  <2>1. Split(T, Separator("and")) = <<T>>
      BY Zenon, <1>1, <1>3, <1>10, QuietWhole, SignTokens DEF Other
  <2>2. [i \in DOMAIN ps |-> evaluateSingleExpression(ps[i], d)] = results
      BY Zenon, <1>2, <1>4
  <2>3. evaluateOr(T, d) = AnyOf([i \in DOMAIN ps |-> evaluateSingleExpression(ps[i], d)])
      BY <1>5, <1>10 DEF evaluateOr
  <2> HIDE DEF results, len
  <2>4. AnyOf(results) = Result(\E i \in 1..len : results[i] = "pass")
      BY Zenon, <1>1, <1>2, <1>8, GroupDecides
  <2>5. HoldsUpTo(o, ns, Len(ns), d) <=> \E i \in 1..len : results[i] = "pass"
      BY <1>1, <1>8, <1>10 DEF HoldsUpTo
  <2>6. evaluateOr(T, d) \in Decided
      BY Zenon, <2>2, <2>3, <2>4, ResultDecided
  <2> DEFINE one == <<T>>
             r == evaluateOr(T, d)
  <2>7. [j \in DOMAIN one |-> evaluateOr(one[j], d)] = <<r>>
      OBVIOUS
  <2>8. AllOf(<<r>>) = r
      BY <1>6, <2>6
  <2> HIDE DEF one
  <2>9. evaluateExpression(T, d) = AllOf([j \in DOMAIN one |-> evaluateOr(one[j], d)])
      BY <2>1 DEF evaluateExpression, one
  <2>10. evaluateExpression(T, d) = evaluateOr(T, d)
      BY <2>7, <2>8, <2>9
  <2> QED BY <2>2, <2>3, <2>4, <2>5, <2>10 DEF Result
<1> QED BY <1>9, <1>10 DEF Operators

-----------------------------------------------------------------------------
(* A text with the meaning of the node: one piece, or a group. *)
Says(text, node) ==
    \E h \in Nat, o \in Operators : \E ps, ns :
        /\ Reads(text, o, ps, ns, h) /\ h <= MaxNesting
        /\ \A d \in Data : HoldsUpTo(o, ns, Len(ns), d) <=> Holds(node, d)
        /\ \/ Len(ps) > 1 /\ h + 1 <= MaxNesting
           \/ Len(ps) = 1 /\ ps[1] = text

LEMMA NodeSays ==
    ASSUME MaxNesting \in Nat, NEW node \in Expressible[MaxNesting]
    PROVE  Says(nodeToExpression(node), node)
<1>1. MaxNesting # 0
    BY ExpressibleEq
<1> DEFINE n == MaxNesting - 1
<1>2. n \in Nat /\ n + 1 = MaxNesting /\ n + 1 <= MaxNesting /\ n <= MaxNesting /\ MaxNesting > 0
    BY <1>1
<1> HIDE DEF n
<1>3. node \in Comparisons \/ node \in GroupsOfSeveral(Expressible[n])
    BY <1>2, ExpressibleEq
<1>4. CASE node \in Comparisons
  <2> DEFINE p == <<conditionToExpression(node)>>
             m == ReadBack(node)
  <2>1. nodeToExpression(node) = p
      BY <1>2, <1>4, NodeToExpressionEq
  <2>2. Piece(p, m, n + 1) /\ \A d \in Data : Holds(m, d) <=> Holds(node, d)
      BY <1>2, <1>4, ConditionPiece
  <2>3. "and" \in Operators
      BY DEF Operators
  <2> HIDE DEF p, m
  <2>4. Reads(p, "and", <<p>>, <<m>>, n + 1)
      BY <2>2, <2>3, PieceReads
  <2>5. Len(<<m>>) = 1 /\ <<m>>[1] = m /\ Len(<<p>>) = 1 /\ <<p>>[1] = p
      OBVIOUS
  <2>6. \A d \in Data : HoldsUpTo("and", <<m>>, Len(<<m>>), d) <=> Holds(node, d)
      BY <2>2, <2>5, HoldsOne
  <2>7. n + 1 \in Nat
      BY <1>2
  <2>8. Says(p, node)
      BY Zenon, <1>2, <2>3, <2>4, <2>5, <2>6, <2>7 DEF Says
  <2> QED BY <2>1, <2>8
<1>5. CASE node \in GroupsOfSeveral(Expressible[n])
  <2>1. SaysGroup(nodeToExpression(node), node.operator, n, node)
      BY <1>2, <1>5, GroupSays
  <2>2. node.operator \in Operators
      BY <1>5, SeveralFields, GroupFields DEF Operators
  <2> QED BY Zenon, <1>2, <2>1, <2>2 DEF SaysGroup, Says
<1> QED BY <1>3, <1>4, <1>5

LEMMA SaysParse ==
    ASSUME MaxNesting \in Nat, NEW text, NEW node, Says(text, node)
    PROVE  /\ parseExpression(text) \in Expressible[MaxNesting]
           /\ \A d \in Data : Holds(parseExpression(text), d) <=> Holds(node, d)
<1>1. PICK h \in Nat, o \in Operators : \E ps, ns :
        /\ Reads(text, o, ps, ns, h) /\ h <= MaxNesting
        /\ \A d \in Data : HoldsUpTo(o, ns, Len(ns), d) <=> Holds(node, d)
        /\ \/ Len(ps) > 1 /\ h + 1 <= MaxNesting
           \/ Len(ps) = 1 /\ ps[1] = text
    BY DEF Says
<1>2. PICK ps, ns :
        /\ Reads(text, o, ps, ns, h) /\ h <= MaxNesting
        /\ \A d \in Data : HoldsUpTo(o, ns, Len(ns), d) <=> Holds(node, d)
        /\ \/ Len(ps) > 1 /\ h + 1 <= MaxNesting
           \/ Len(ps) = 1 /\ ps[1] = text
    BY <1>1
<1>3. text \in Texts /\ ns \in Seq(Expressible[h]) /\ Len(ns) = Len(ps)
    BY <1>2 DEF Reads
<1>4. Len(text) \in Nat /\ Len(text) >= Len(text)
  <2>1. Len(text) \in Nat
      BY <1>3 DEF Texts
  <2> QED BY <2>1
<1>5. ASSUME NEW k \in Nat, k <= MaxNesting, NEW x \in Expressible[k]
      PROVE  x \in Expressible[MaxNesting]
  <2>1. MaxNesting - k \in Nat /\ k + (MaxNesting - k) = MaxNesting
      BY <1>5
  <2>2. x \in Expressible[k + (MaxNesting - k)]
      BY Zenon, <2>1, ExpressionsGrow
  <2> QED BY <2>1, <2>2
<1>6. CASE Len(ps) > 1 /\ h + 1 <= MaxNesting
  <2> DEFINE m == Group(o, ns)
  <2>1. parseExpression(text) = m
    <3>1. Reads(text, o, ps, ns, h) /\ Len(ps) > 1
        BY Zenon, <1>2, <1>6
    <3>2. parsed[Len(text)][text] = Group(o, ns)
        BY ONLY SMTT(20), <1>4, <3>1, ReadsParse, h \in Nat, o \in Operators
    <3> QED BY <3>2 DEF parseExpression
  <2>2. m.operator = o /\ m.conditions = ns
      BY DEF Group
  <2>3. m \in GroupsOfSeveral(Expressible[h])
      BY <1>3, <1>6, <2>2 DEF GroupsOfSeveral, GroupsOf, Group, Operators
  <2> HIDE DEF m
  <2>4. m \in Expressible[h + 1]
      BY <2>3, ExpressibleEq
  <2>5. h + 1 \in Nat
      OBVIOUS
  <2>6. m \in Expressible[MaxNesting]
      BY <1>5, <1>6, <2>4, <2>5
  <2>7. \A d \in Data : Holds(m, d) <=> HoldsUpTo(o, ns, Len(ns), d)
      BY <1>6, <2>2, <2>3, ExpressibleGroupHolds
  <2> QED BY <1>2, <2>1, <2>6, <2>7
<1>7. CASE Len(ps) = 1 /\ ps[1] = text
  <2>1. 1 \in 1..Len(ps)
      BY <1>7
  <2>2. Piece(text, ns[1], h)
      BY <1>2, <1>7, <2>1 DEF Reads
  <2>3. parseExpression(text) = ns[1] /\ ns[1] \in Expressible[h]
      BY <1>4, <2>2 DEF parseExpression, Piece
  <2>4. \A d \in Data : Holds(ns[1], d) <=> HoldsUpTo(o, ns, Len(ns), d)
      BY <1>3, <1>7, HoldsOne
  <2>5. ns[1] \in Expressible[MaxNesting]
      BY <1>2, <1>5, <2>3
  <2> QED BY <1>2, <2>3, <2>4, <2>5
<1> QED BY <1>2, <1>6, <1>7

LEMMA SaysEvaluate ==
    ASSUME MaxNesting \in Nat, NEW text, NEW node \in Expressible[MaxNesting], Says(text, node),
           Open \notin Range(text), NEW d \in Data
    PROVE  evaluateExpression(text, d) = evaluateNode(node, d)
<1>1. PICK h \in Nat, o \in Operators : \E ps, ns :
        /\ Reads(text, o, ps, ns, h) /\ h <= MaxNesting
        /\ HoldsUpTo(o, ns, Len(ns), d) <=> Holds(node, d)
    BY DEF Says
<1>2. PICK ps, ns :
        /\ Reads(text, o, ps, ns, h) /\ h <= MaxNesting
        /\ HoldsUpTo(o, ns, Len(ns), d) <=> Holds(node, d)
    BY <1>1
<1>3. evaluateExpression(text, d) = Result(HoldsUpTo(o, ns, Len(ns), d))
  <2>1. Reads(text, o, ps, ns, h) /\ h <= MaxNesting
      BY Zenon, <1>2
  <2> QED BY ONLY <2>1, PlainEvaluates, MaxNesting \in Nat, h \in Nat, o \in Operators,
                  Open \notin Range(text), d \in Data
<1>4. evaluateNode(node, d) \in Decided
  <2>1. MaxNesting <= MaxNesting
      OBVIOUS
  <2> QED BY <2>1, ExpressibleDecided
<1> QED BY <1>2, <1>3, <1>4 DEF Result, Decided, Holds

-----------------------------------------------------------------------------
(* The inductive invariant: in either form, the filter still has the       *)
(* meaning of the one it was made from.                                    *)
RoundTripInv ==
    /\ origin.form = "structured"
    /\ origin.root \in Expressible[MaxNesting] =>
          \/ /\ current.form = "structured" /\ current.root \in Expressible[MaxNesting]
             /\ \A d \in Data : Holds(current.root, d) <=> Holds(origin.root, d)
          \/ /\ current.form = "expression"
             /\ Says(current.text, origin.root)

LEMMA FilterForms ==
    /\ \A node : Structured(node).form = "structured" /\ Structured(node).root = node
    /\ \A text : Expression(text).form = "expression" /\ Expression(text).text = text
BY DEF Structured, Expression

LEMMA RoundTripInit ==
    FilterInit => RoundTripInv
BY FilterForms DEF FilterInit, RoundTripInv

LEMMA RoundTripStep ==
    RoundTripInv /\ [FilterNext]_filterVars => RoundTripInv'
<1> SUFFICES ASSUME RoundTripInv, [FilterNext]_filterVars
             PROVE  RoundTripInv'
    OBVIOUS
<1>0. MaxNesting \in Nat
    BY FilterAssumption
<1>1. CASE StructuredToExpression
  <2>1. origin' = origin /\ current.form = "structured"
      BY <1>1 DEF StructuredToExpression
  <2>2. current'.form = "expression" /\ current'.text = nodeToExpression(current.root)
      BY <1>1, FilterForms DEF StructuredToExpression
  <2>3. ASSUME origin.root \in Expressible[MaxNesting]
        PROVE  Says(current'.text, origin.root)
    <3>1. /\ current.root \in Expressible[MaxNesting]
          /\ \A d \in Data : Holds(current.root, d) <=> Holds(origin.root, d)
        BY <2>1, <2>3 DEF RoundTripInv
    <3>2. Says(nodeToExpression(current.root), current.root)
        BY <1>0, <3>1, NodeSays
    <3>3. Says(nodeToExpression(current.root), origin.root)
        BY <3>1, <3>2 DEF Says
    <3> QED BY <2>2, <3>3
  <2> QED BY <2>1, <2>2, <2>3 DEF RoundTripInv
<1>2. CASE ExpressionToStructured
  <2>1. origin' = origin /\ current.form = "expression"
      BY <1>2 DEF ExpressionToStructured
  <2>2. current'.form = "structured" /\ current'.root = parseExpression(current.text)
      BY <1>2, FilterForms DEF ExpressionToStructured
  <2>3. ASSUME origin.root \in Expressible[MaxNesting]
        PROVE  /\ current'.root \in Expressible[MaxNesting]
               /\ \A d \in Data : Holds(current'.root, d) <=> Holds(origin.root, d)
    <3>1. Says(current.text, origin.root)
        BY <2>1, <2>3 DEF RoundTripInv
    <3> QED BY <1>0, <2>2, <3>1, SaysParse
  <2> QED BY <2>1, <2>2, <2>3 DEF RoundTripInv
<1>3. CASE UNCHANGED filterVars
    BY <1>3 DEF filterVars, RoundTripInv
<1> QED BY <1>1, <1>2, <1>3 DEF FilterNext

LEMMA RoundTripInvSuffices ==
    RoundTripInv => RoundTripKeepsMeaning
<1> SUFFICES ASSUME RoundTripInv, origin.root \in Expressible[MaxNesting],
                    current.form = "structured" \/ Open \notin Range(current.text),
                    NEW d \in Data
             PROVE  Evaluate(current, d) = Evaluate(origin, d)
    BY DEF RoundTripKeepsMeaning, SameMeaning, TestFilter
<1>0. MaxNesting \in Nat /\ MaxNesting <= MaxNesting
    BY FilterAssumption
<1>1. Evaluate(origin, d) = evaluateNode(origin.root, d)
    BY DEF RoundTripInv, Evaluate
<1>2. CASE current.form = "structured"
  <2>1. current.root \in Expressible[MaxNesting] /\ (Holds(current.root, d) <=> Holds(origin.root, d))
      BY <1>2 DEF RoundTripInv
  <2>2. evaluateNode(current.root, d) \in Decided /\ evaluateNode(origin.root, d) \in Decided
      BY <1>0, <2>1, ExpressibleDecided
  <2>3. Evaluate(current, d) = evaluateNode(current.root, d)
      BY <1>2 DEF Evaluate
  <2> QED BY <1>1, <2>1, <2>2, <2>3 DEF Holds, Decided
<1>3. CASE current.form # "structured"
  <2>1. Says(current.text, origin.root) /\ Open \notin Range(current.text)
      BY <1>3 DEF RoundTripInv
  <2>2. evaluateExpression(current.text, d) = evaluateNode(origin.root, d)
      BY <1>0, <2>1, SaysEvaluate
  <2>3. Evaluate(current, d) = evaluateExpression(current.text, d)
      BY <1>3 DEF Evaluate
  <2> QED BY <1>1, <2>2, <2>3
<1> QED BY <1>2, <1>3

(* A filter of comparisons in groups of several, nested to any depth, with *)
(* any numbers, passes the same records after every chain of conversions   *)
(* to a text and back, and as a text if that has no parentheses.           *)
THEOREM FilterRoundTrip ==
    FilterSpec => []RoundTripKeepsMeaning
<1>1. RoundTripInv /\ [FilterNext]_filterVars => RoundTripInv'
    BY RoundTripStep
<1> QED BY RoundTripInit, <1>1, RoundTripInvSuffices, PTL DEF FilterSpec

(* The parser reads every text that such a filter is written as: the way   *)
(* back from it never fails.                                               *)
THEOREM FilterTextsReadable ==
    FilterSpec => [](origin.root \in Expressible[MaxNesting] /\ current.form = "expression"
                        => parseExpression(current.text) \in Expressible[MaxNesting])
<1>1. RoundTripInv /\ [FilterNext]_filterVars => RoundTripInv'
    BY RoundTripStep
<1>2. RoundTripInv => (origin.root \in Expressible[MaxNesting] /\ current.form = "expression"
                        => parseExpression(current.text) \in Expressible[MaxNesting])
  <2> SUFFICES ASSUME RoundTripInv, origin.root \in Expressible[MaxNesting], current.form = "expression"
               PROVE  parseExpression(current.text) \in Expressible[MaxNesting]
      OBVIOUS
  <2>1. Says(current.text, origin.root)
      BY DEF RoundTripInv
  <2>2. MaxNesting \in Nat
      BY FilterAssumption
  <2> QED BY <2>1, <2>2, SaysParse
<1> QED BY RoundTripInit, <1>1, <1>2, PTL DEF FilterSpec
=============================================================================
