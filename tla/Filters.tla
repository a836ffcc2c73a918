------------------------------- MODULE Filters -------------------------------
(***************************************************************************)
(* Record filters and their two forms.  The structured form is a tree of   *)
(* conditions and and/or groups, which the editor works with; the other is *)
(* a text.  The conversion endpoint turns one into the other and back, and *)
(* the test endpoint evaluates both.                                       *)
(* A text is a sequence of tokens: parentheses, "&&", "||" and written     *)
(* conditions.  All conditions are about one field; its value and the      *)
(* value of a condition are small numbers, so that a part of a text, or a  *)
(* match of a pattern, is the number itself.                               *)
(* The recursion of the code over a tree is a function of how deep the     *)
(* tree may be, its recursion over a text one of how long the text may be. *)
(***************************************************************************)
EXTENDS Integers, Sequences, FiniteSetsExt

CONSTANTS
    Numbers,     \* numbers that a field holds or a condition compares with
    MaxNesting,  \* no filter is nested deeper
    Roots        \* the structured filters that are tried

(* A value is <<number>>, or one of three that are not numbers: no value   *)
(* at all, null, and the word "null" of a text.                            *)
Missing == <<>>
Nil == <<0, 0>>
NullWord == <<0, 0, 0>>
Data == {Missing, Nil} \cup {<<n>> : n \in Numbers}         \* the field of a record
Values == {Nil, NullWord} \cup {<<n>> : n \in Numbers}      \* what a condition holds

VARIABLES
    origin,    \* the filter as it was made
    current    \* the filter after the conversions so far

filterVars == <<origin, current>>

-----------------------------------------------------------------------------
(* Structured filters. *)
SymbolOps == {"eq", "neq", "gt", "gte", "lt", "lte", "regex"}
NoValueOps == {"exists", "notexists", "null", "notnull"}
Ops == SymbolOps \cup NoValueOps \cup {"contains", "startswith", "endswith", "in", "notin"}

Condition(op, value) == [type |-> "condition", op |-> op, value |-> value]
Group(operator, conditions) == [type |-> "group", operator |-> operator, conditions |-> conditions]

Conditions == [type : {"condition"}, op : Ops, value : Values]
GroupsOf(nodes) == [type : {"group"}, operator : {"and", "or"}, conditions : Seq(nodes)]

(* The trees of at most n levels. *)
FilterNodes[n \in Nat] == IF n = 0 THEN {} ELSE Conditions \cup GroupsOf(FilterNodes[n - 1])

(* A filter is made before it is validated.                                *)
ASSUME FilterAssumption == MaxNesting \in Nat /\ Roots \subseteq FilterNodes[MaxNesting]

(* Those of them that are valid. *)
Valid[n \in Nat] ==
    IF n = 0 THEN {}
    ELSE {c \in Conditions : c.op \in NoValueOps \/ c.value # Nil}
            \cup {g \in GroupsOf(Valid[n - 1]) : g.conditions # <<>>}

ValidateFilter(node) == node \in Valid[MaxNesting]

-----------------------------------------------------------------------------
(* The result of an evaluation: pass or drop the record, or an error.      *)
Result(b) == IF b THEN "pass" ELSE "drop"

(* Null is the empty string as a text, and smaller than every number.      *)
compare(v, op, value) ==
    CASE op = "gt" -> Result(v # Nil /\ v[1] > value[1])
      [] op = "gte" -> Result(v # Nil /\ v[1] >= value[1])
      [] op = "lt" -> Result(v = Nil \/ v[1] < value[1])
      [] op = "lte" -> Result(v = Nil \/ v[1] <= value[1])
      [] op \in {"neq", "notin"} -> Result(v # value)
      [] OTHER -> Result(v = value)

evaluateCondition(cond, data) ==
    CASE cond.op = "exists" -> Result(data # Missing)
      [] cond.op = "notexists" -> Result(data = Missing)
      [] cond.op = "null" -> Result(data \in {Missing, Nil})
      [] cond.op = "notnull" -> Result(data \notin {Missing, Nil})
      [] OTHER -> IF data = Missing THEN "drop" ELSE compare(data, cond.op, cond.value)

(* The first result that decides: "drop" for and, "pass" for or, an error  *)
(* for both.                                                               *)
FirstOf(results, decides, otherwise) ==
    LET hits == {i \in DOMAIN results : results[i] \in {decides, "error"}}
    IN  IF hits = {} THEN otherwise ELSE results[Min(hits)]
AllOf(results) == FirstOf(results, "drop", "pass")
AnyOf(results) == FirstOf(results, "pass", "drop")

evaluateGroup(operator, results) ==
    IF results = <<>> THEN "pass" ELSE IF operator = "and" THEN AllOf(results) ELSE AnyOf(results)

(* What each record gives, for the trees of at most n levels. *)
evaluated[n \in Nat] ==
    [node \in FilterNodes[n] |-> [data \in Data |->
        IF node.type = "condition" THEN evaluateCondition(node, data)
        ELSE evaluateGroup(node.operator,
                [i \in DOMAIN node.conditions |-> evaluated[n - 1][node.conditions[i]][data]])]]

evaluateNode(node, data) == evaluated[MaxNesting][node][data]

-----------------------------------------------------------------------------
(* Texts.  A written condition has a symbol, or a word no parser knows.    *)
WrittenCondition(op, value) == [token |-> "condition", op |-> op, value |-> value]
Sign(t) == [token |-> t]
Open == Sign("(")
Close == Sign(")")
Separator(operator) == Sign(IF operator = "and" THEN "&&" ELSE "||")

Tokens == [token : {"condition"}, op : Ops, value : Values] \cup [token : {"(", ")", "&&", "||"}]
Texts == Seq(Tokens)

conditionToExpression(cond) ==
    CASE cond.op = "null" -> WrittenCondition("eq", NullWord)
      [] cond.op = "notnull" -> WrittenCondition("neq", NullWord)
      [] cond.op \in {"exists", "notexists"} -> WrittenCondition(cond.op, Nil)
      [] OTHER -> WrittenCondition(cond.op, cond.value)

(* The first k parts with separators between them. *)
joined[k \in Nat] ==
    [parts \in Seq(Texts) |-> [separator \in Tokens |->
        CASE k = 0 -> <<>>
          [] k = 1 -> parts[1]
          [] OTHER -> joined[k - 1][parts][separator] \o <<separator>> \o parts[k]]]

Join(parts, separator) == joined[Len(parts)][parts][separator]

(* Variant: a nested group is written without parentheses. *)
Nested_Bare(node, operator, text) == text

(* A nested group with the other operator is put into parentheses.         *)
Nested(node, operator, text) ==
    IF node.type = "group" /\ node.operator # operator THEN <<Open>> \o text \o <<Close>> ELSE text

(* The texts of the trees of at most n levels.  A group of one condition   *)
(* is written as that condition.                                           *)
expressions[n \in Nat] ==
    [node \in FilterNodes[n] |->
        IF node.type = "condition" THEN <<conditionToExpression(node)>>
        ELSE IF Len(node.conditions) = 1 THEN expressions[n - 1][node.conditions[1]]
        ELSE Join([i \in DOMAIN node.conditions |->
                        Nested(node.conditions[i], node.operator, expressions[n - 1][node.conditions[i]])],
                  Separator(node.operator))]

nodeToExpression(node) == expressions[MaxNesting][node]

-----------------------------------------------------------------------------
(* Reading a text up to its next separator.  Separators in parentheses are *)
(* skipped where the parentheses count (nested).                           *)
Scan(parts, part, depth) == [parts |-> parts, part |-> part, depth |-> depth]

ScanToken(scan, token, separator, nested) ==
    IF token = separator /\ (nested => scan.depth = 0)
    THEN Scan(Append(scan.parts, scan.part), <<>>, scan.depth)
    ELSE Scan(scan.parts, Append(scan.part, token),
              scan.depth + (IF token = Open THEN 1 ELSE IF token = Close THEN -1 ELSE 0))

(* The loop after i tokens. *)
scanned[i \in Nat] ==
    [text \in Texts |-> [separator \in Tokens |-> [nested \in BOOLEAN |->
        IF i = 0 THEN Scan(<<>>, <<>>, 0)
        ELSE ScanToken(scanned[i - 1][text][separator][nested], text[i], separator, nested)]]]

(* An empty last part is left out, *)
splitLogical(text, separator) ==
    LET scan == scanned[Len(text)][text][separator][TRUE]
    IN  IF scan.part = <<>> THEN scan.parts ELSE Append(scan.parts, scan.part)
(* or not: strings.Split. *)
Split(text, separator) ==
    LET scan == scanned[Len(text)][text][separator][FALSE]
    IN  Append(scan.parts, scan.part)

Unreadable == [type |-> "error"]

parseSingleCondition(text) ==
    IF text[1].token = "condition" /\ text[1].op \in SymbolOps \cup {"exists"}
    THEN Condition(text[1].op, text[1].value)
    ELSE Unreadable

(* One error makes the whole text unreadable. *)
parseLogicalGroup(nodes, operator) == IF Unreadable \in Range(nodes) THEN Unreadable ELSE Group(operator, nodes)

(* The trees of the texts of at most n tokens.  "||" binds less than "&&". *)
parsed[n \in Nat] ==
    [text \in Texts |->
        LET ors == splitLogical(text, Separator("or"))
            ands == splitLogical(text, Separator("and"))
        IN  IF n = 0 THEN Unreadable
            ELSE IF Len(ors) > 1 THEN parseLogicalGroup([i \in DOMAIN ors |-> parsed[n - 1][ors[i]]], "or")
            ELSE IF Len(ands) > 1 THEN parseLogicalGroup([i \in DOMAIN ands |-> parsed[n - 1][ands[i]]], "and")
            ELSE IF text[1] = Open /\ text[Len(text)] = Close THEN parsed[n - 1][SubSeq(text, 2, Len(text) - 1)]
            ELSE parseSingleCondition(text)]

parseExpression(text) == parsed[Len(text)][text]

-----------------------------------------------------------------------------
(* The evaluation of a text splits it at every "&&", then at every "||",   *)
(* and knows no parentheses: one before a condition becomes a part of the  *)
(* field's name, which no record has, and one after it a part of the value.*)
evaluateSingleExpression(text, data) ==
    LET token == CHOOSE t \in Range(text) : t.token = "condition"
        opened == text[1] = Open
        closed == text[Len(text)] = Close
    IN  CASE token.op = "exists" -> IF closed THEN "error" ELSE Result(~opened /\ data # Missing)
          [] token.op \in SymbolOps ->
                IF opened \/ data = Missing THEN "drop"
                ELSE IF closed /\ token.op = "regex" THEN "error"
                ELSE IF closed /\ token.op \in {"eq", "neq"} THEN Result(token.op = "neq")
                ELSE compare(data, token.op, token.value)
          [] OTHER -> "error"

evaluateOr(text, data) ==
    LET parts == Split(text, Separator("or"))
    IN  AnyOf([i \in DOMAIN parts |-> evaluateSingleExpression(parts[i], data)])

evaluateExpression(text, data) ==
    LET parts == Split(text, Separator("and"))
    IN  AllOf([i \in DOMAIN parts |-> evaluateOr(parts[i], data)])

-----------------------------------------------------------------------------
(* A filter in the one form or the other. *)
Structured(node) == [form |-> "structured", root |-> node]
Expression(text) == [form |-> "expression", text |-> text]

Evaluate(filter, data) ==
    IF filter.form = "structured" THEN evaluateNode(filter.root, data) ELSE evaluateExpression(filter.text, data)

(* What the test endpoint says of every record. *)
TestFilter(filter) == [data \in Data |-> Evaluate(filter, data)]

FilterInit ==
    /\ \E node \in Roots : ValidateFilter(node) /\ origin = Structured(node)
    /\ current = origin

StructuredToExpression ==
    /\ current.form = "structured"
    /\ current' = Expression(nodeToExpression(current.root))
    /\ UNCHANGED origin

(* Nothing is returned for a text that cannot be read. *)
ExpressionToStructured ==
    /\ current.form = "expression" /\ parseExpression(current.text) # Unreadable
    /\ current' = Structured(parseExpression(current.text))
    /\ UNCHANGED origin

FilterNext == StructuredToExpression \/ ExpressionToStructured

FilterSpec == FilterInit /\ [][FilterNext]_filterVars

-----------------------------------------------------------------------------
(* Filters of comparisons, in groups of several conditions. *)
Expressible[n \in Nat] ==
    IF n = 0 THEN {}
    ELSE {c \in Conditions : c.op \in SymbolOps \cup {"exists"}}
            \cup {g \in GroupsOf(Expressible[n - 1]) : Len(g.conditions) > 1}

SameMeaning == TestFilter(current) = TestFilter(origin)

(* A filter of comparisons and groups of several conditions passes the     *)
(* same records after a conversion to a text and back, however its groups  *)
(* are nested, and as a text too if the text needs no parentheses.         *)
RoundTripKeepsMeaning ==
    /\ origin.root \in Expressible[MaxNesting]
    /\ current.form = "structured" \/ Open \notin Range(current.text)
    => SameMeaning

=============================================================================
