----------------------------- MODULE RuleEngine -----------------------------
(***************************************************************************)
(* The rule language of app/rules.py: the static check that guards         *)
(* publication (validate_expression) and the evaluator that scores live    *)
(* transactions (_evaluate), two independent recursive definitions over    *)
(* the same expressions, and the life of a rule set between them: drafted, *)
(* parsed, then scored against any event.                                  *)
(*                                                                         *)
(* An expression is written in postfix order: a sequence of nodes, each    *)
(* after its arguments, the root last.  The recursion of the code is then  *)
(* a recursive function on the positions of the sequence.                  *)
(*                                                                         *)
(* Decimals are integers of at most MaxNumber, beyond which arithmetic     *)
(* overflows (precision is not modelled), texts are names with a substring *)
(* relation.  The wording of exceptions is left out.                       *)
(***************************************************************************)
EXTENDS Integers, Sequences, SequencesExt

CONSTANTS
    Variables,      \* VARIABLES: name -> [type, required]
    Substring,      \* pairs <<text, longer text>>
    Context,        \* EvaluationContext.as_variables: functions name -> value
    DryRun,         \* _DRY_RUN_CONTEXT: the required variables only
    MaxNumber,      \* the largest magnitude a Decimal result can have
    Leaf,           \* conditions a draft starts from
    Filler,         \* expressions put beside the draft when it grows
    Companion,      \* the condition of the rule set's other rule
    Score,          \* the scores of the two rules
    Thresholds,     \* [review, reject] pairs an author may ask for
    MaxDepth,       \* MAX_EXPRESSION_DEPTH
    MaxNodes,       \* MAX_EXPRESSION_NODES
    DraftDepth      \* bound: depth up to which a draft is grown

----------------------------------------------------------------------------
(* Types, values and expressions *)

\* A type is a kind, or "list" before the type of its elements.
NUMBER == <<"number">>
TEXT == <<"text">>
BOOL == <<"boolean">>
NULL == <<"null">>
Invalid == <<"invalid">>
ERROR == <<"error">>

\* A value is its type and its key, what Python's == compares: a bool is an int.
Value(type, key) == [type |-> type, key |-> key]
Number(n) == Value(NUMBER, <<"number", n>>)
Boolean(b) == Value(BOOL, <<"number", IF b THEN 1 ELSE 0>>)
Text(s) == Value(TEXT, <<"text", s>>)
Null == Value(NULL, <<"null">>)
List(vs) ==
    Value(CASE vs = <<>> -> <<"list", "anything">>
            [] vs /= <<>> /\ (\A i \in DOMAIN vs : vs[i].type = vs[1].type) ->
                  <<"list">> \o vs[1].type
            [] OTHER -> <<"list", "mixed">>,
          <<"list", [i \in DOMAIN vs |-> vs[i].key]>>)

\* A node that raises: for its arguments, or because Decimal overflowed.
Error == Value(ERROR, <<"error", "error">>)
Overflow == Value(ERROR, <<"error", "overflow">>)
Failed(v) == v.type = ERROR
Failures(vals) == {i \in DOMAIN vals : Failed(vals[i])}

\* A node and how far back in the sequence the root of each argument is.
Node(op, value, back) == [op |-> op, value |-> value, back |-> back]
Ref(arg, distance) == IF arg = <<>> THEN <<>> ELSE <<distance>>

\* The expression with these arguments, <<>> where there is none.  Bound: three.
Tree(op, value, x, y, z) ==
    x \o y \o z \o <<Node(op, value, Ref(x, Len(z) + Len(y) + 1) \o Ref(y, Len(z) + 1) \o Ref(z, 1))>>

Literal(v) == Tree("literal", v, <<>>, <<>>, <<>>)
Var(name, default) == Tree("var", Text(name), <<>>, default, <<>>)
ListOf(x, y, z) == Tree("list", Null, x, y, z)
Apply(op, x, y, z) == Tree(op, Null, x, y, z)

\* What the recursion computed for the arguments of the node at i.
ArgsOf(e, i, f) == [j \in DOMAIN e[i].back |-> f[i - e[i].back[j]]]

Ordering == {">", ">=", "<", "<="}
Arithmetic == {"+", "-", "*", "min", "max"}
Connective == {"and", "or", "!"}
SUPPORTED_OPERATORS == Ordering \cup Arithmetic \cup Connective \cup {"==", "!=", "in", "if"}

\* How many arguments each operator takes.
Takes(op, n) ==
    CASE op \in {"==", "!=", ">", ">=", "in"} -> n = 2
      [] op \in {"<", "<="} -> n \in {2, 3}
      [] op = "!" -> n = 1
      [] op = "-" -> n \in {1, 2}
      [] op = "if" -> n = 3
      [] OTHER -> n >= 1

----------------------------------------------------------------------------
(* validate_expression *)

Require(type, types, result) == IF \A i \in DOMAIN types : types[i] = type THEN result ELSE Invalid

\* A plausible bug: the branches of "if" may differ.
CheckIf_loose(types) == IF types[1] = BOOL THEN types[2] ELSE Invalid

CheckIf(types) == IF types[1] = BOOL /\ types[2] = types[3] THEN types[2] ELSE Invalid

CheckEquals(types) ==
    IF types[1] = types[2] \/ NULL \in {types[1], types[2]} THEN BOOL ELSE Invalid

CheckIn(types) ==
    IF \/ types[2] = TEXT /\ types[1] = TEXT
       \/ types[2][1] = "list" /\ Tail(types[2]) \in {<<"anything">>, types[1]}
    THEN BOOL ELSE Invalid

CheckList(types) ==
    CASE types = <<>> -> <<"list", "anything">>
      [] types /= <<>> /\ (\A i \in DOMAIN types : types[i] = types[1]) -> <<"list">> \o types[1]
      [] OTHER -> Invalid

\* An optional variable needs a default, and a default has the variable's type.
check_variable(name, types) ==
    IF /\ name \in DOMAIN Variables
       /\ \/ types = <<>> /\ Variables[name].required
          \/ types = <<Variables[name].type>>
    THEN Variables[name].type
    ELSE Invalid

\* The type of an operation whose arguments have these types.
CheckOperator(op, types) ==
    CASE op \in Ordering -> Require(NUMBER, types, BOOL)
      [] op \in Arithmetic -> Require(NUMBER, types, NUMBER)
      [] op \in Connective -> Require(BOOL, types, BOOL)
      [] op = "if" -> CheckIf(types)
      [] op \in {"==", "!="} -> CheckEquals(types)
      [] op = "in" -> CheckIn(types)

\* The type of a node, Invalid if it or anything below it is refused.
CheckNode(node, types) ==
    IF Invalid \in Range(types) THEN Invalid
    ELSE CASE node.op = "literal" -> node.value.type
           [] node.op = "list" -> CheckList(types)
           [] node.op = "var" -> check_variable(node.value.key[2], types)
           [] node.op \in SUPPORTED_OPERATORS /\ Takes(node.op, Len(types)) ->
                 CheckOperator(node.op, types)
           [] OTHER -> Invalid

visit(e) ==
    LET types[i \in 1..Len(e)] == CheckNode(e[i], ArgsOf(e, i, types))
    IN  types[Len(e)]

Depth(e) ==
    LET depth[i \in 1..Len(e)] == 1 + Max({0} \cup Range(ArgsOf(e, i, depth)))
    IN  depth[Len(e)]

validate_expression(e) == visit(e) = BOOL /\ Depth(e) <= MaxDepth /\ Len(e) <= MaxNodes

----------------------------------------------------------------------------
(* _evaluate *)

\* bool(value); every text is non-empty.
Truthy(v) ==
    CASE v.type \in {NUMBER, BOOL} -> v.key[2] /= 0
      [] v.type[1] = "list" -> v.key[2] /= <<>>
      [] OTHER -> v.type /= NULL

\* _equals: numbers by value, anything else as Python compares it.
Equals(l, r) == l.key = r.key

membership(needle, haystack) ==
    CASE haystack.type = TEXT ->
            Boolean(needle.type = TEXT /\ \/ needle = haystack
                                          \/ <<needle.key[2], haystack.key[2]>> \in Substring)
      [] haystack.type[1] = "list" ->
            Boolean(\E i \in DOMAIN haystack.key[2] : needle.key = haystack.key[2][i])
      [] OTHER -> Error

Compare(op, a, b) ==
    CASE op = ">" -> a > b [] op = ">=" -> a >= b [] op = "<" -> a < b [] op = "<=" -> a <= b

\* Results in the order the code works them out, unless one of them overflows.
Decimals(results) ==
    IF \E i \in DOMAIN results : results[i] \notin -MaxNumber..MaxNumber
    THEN Overflow
    ELSE Number(results[Len(results)])

RunningSum(ns) ==
    LET sum[i \in 1..Len(ns)] == IF i = 1 THEN ns[1] ELSE sum[i - 1] + ns[i] IN sum

RunningProduct(ns) ==
    LET product[i \in 1..Len(ns)] == IF i = 1 THEN ns[1] ELSE product[i - 1] * ns[i] IN product

\* The operators that need numbers, on the numbers themselves.
Calculate(op, ns) ==
    CASE op \in Ordering -> Boolean(\A i \in 1..(Len(ns) - 1) : Compare(op, ns[i], ns[i + 1]))
      [] op = "+" -> Decimals(RunningSum(ns))
      [] op = "*" -> Decimals(RunningProduct(ns))
      [] op = "-" -> Decimals(<<IF Len(ns) = 1 THEN -ns[1] ELSE ns[1] - ns[2]>>)
      [] op = "min" -> Number(Min(Range(ns)))
      [] op = "max" -> Number(Max(Range(ns)))

\* and/or evaluate their arguments in order and stop at the first that decides.
Lazily(vals, stop) ==
    LET deciding == {i \in DOMAIN vals : Failed(vals[i]) \/ Truthy(vals[i]) = stop}
    IN  CASE deciding = {} -> Boolean(~stop)
          [] deciding /= {} ->
                LET first == vals[Min(deciding)]
                IN  IF Failed(first) THEN first ELSE Boolean(stop)

\* Only the branch that is taken is evaluated.
EvaluateIf(vals) ==
    CASE Len(vals) /= 3 -> Error
      [] Len(vals) = 3 /\ Failed(vals[1]) -> vals[1]
      [] Len(vals) = 3 /\ ~Failed(vals[1]) -> IF Truthy(vals[1]) THEN vals[2] ELSE vals[3]

\* A variable's value, or its default where the event lacks it.
EvaluateVar(name, vals, ctx) ==
    CASE name \in DOMAIN ctx -> ctx[name]
      [] name \notin DOMAIN ctx /\ Len(vals) = 1 -> vals[1]
      [] OTHER -> Error

\* Calling an operator with another number of arguments raises; the other
\* operators take any.
Callable(op, n) ==
    /\ op \in {"==", "!=", "in"} => n = 2
    /\ op = "!" => n = 1

\* The implementation an operator has in _OPERATORS, called with these arguments.
Call(op, vals) ==
    IF ~Callable(op, Len(vals)) THEN Error
    ELSE CASE op = "!" -> Boolean(~Truthy(vals[1]))
           [] op = "==" -> Boolean(Equals(vals[1], vals[2]))
           [] op = "!=" -> Boolean(~Equals(vals[1], vals[2]))
           [] op = "in" -> membership(vals[1], vals[2])
           [] OTHER -> IF \A i \in DOMAIN vals : vals[i].type = NUMBER
                       THEN Calculate(op, [i \in DOMAIN vals |-> vals[i].key[2]])
                       ELSE Error

\* An argument that raises ends the evaluation of its list or operation.
Eagerly(vals, result) ==
    IF Failures(vals) /= {} THEN vals[Min(Failures(vals))] ELSE result

EvaluateNode(node, vals, ctx) ==
    CASE node.op = "literal" -> node.value
      [] node.op = "list" -> Eagerly(vals, List(vals))
      [] node.op = "var" -> EvaluateVar(node.value.key[2], vals, ctx)
      [] node.op = "and" -> Lazily(vals, FALSE)
      [] node.op = "or" -> Lazily(vals, TRUE)
      [] node.op = "if" -> EvaluateIf(vals)
      [] OTHER -> Eagerly(vals, Call(node.op, vals))

evaluate(e, ctx) ==
    LET vals[i \in 1..Len(e)] == EvaluateNode(e[i], ArgsOf(e, i, vals), ctx)
    IN  vals[Len(e)]

----------------------------------------------------------------------------
(* Rule sets *)

verdict_for(t, risk) ==
    IF risk >= t.reject THEN "REJECTED" ELSE IF risk >= t.review THEN "REVIEW" ELSE "APPROVED"

\* Every rule is evaluated, even once the total is enough to reject.
evaluate_rule_set(conditions, t, ctx) ==
    LET vals == [i \in DOMAIN conditions |-> evaluate(conditions[i], ctx)]
        triggered == {i \in DOMAIN conditions : Truthy(vals[i])}
        risk == SumFunctionOnSet(Score, triggered)
    IN  IF Failures(vals) /= {} THEN vals[Min(Failures(vals))].key[2] ELSE verdict_for(t, risk)

\* evaluate_rule_set raises RuleEvaluationError.
Raises == {"error", "overflow"}

\* A plausible bug: only the dry run guards publication.
parse_by_dry_run(conditions, t) ==
    /\ t.reject >= t.review
    /\ evaluate_rule_set(conditions, t, DryRun) \notin Raises

\* RuleSetDefinition's validators, then the dry run.  load_stored_definition
\* repeats both on every load.
parse_rule_set_definition(conditions, t) ==
    /\ \A i \in DOMAIN conditions : validate_expression(conditions[i])
    /\ t.reject >= t.review
    /\ evaluate_rule_set(conditions, t, DryRun) \notin Raises

----------------------------------------------------------------------------
(* What the constants stand for *)

Scalar == {NUMBER, TEXT, BOOL, NULL}

\* JSON as _operator_args reads it: arguments stand before their operator, and a
\* literal is a number, a text, a boolean or null.
IsExpression(e) ==
    /\ e \in Seq(Range(e)) /\ e /= <<>>
    /\ \A i \in 1..Len(e) :
          /\ e[i].back \in Seq(1..(i - 1))
          /\ e[i].op = "literal" => e[i].value.type \in Scalar

\* TransactionCreatedV1, Enrichment and as_variables give each variable its declared
\* type, leave out only the optional ones, and never pass on a null.
IsContext(ctx) ==
    \A name \in DOMAIN Variables :
        IF name \in DOMAIN ctx
        THEN ctx[name].type = Variables[name].type
        ELSE ~Variables[name].required

ASSUME RuleAssumption ==
    /\ \A name \in DOMAIN Variables : Variables[name].type \in {NUMBER, TEXT, BOOL}
    /\ \A ctx \in Context \cup {DryRun} : IsContext(ctx)
    /\ \A e \in Leaf \cup Filler \cup {Companion} : IsExpression(e)

----------------------------------------------------------------------------
(* The life of a rule set *)

VARIABLES
    draft,          \* the condition being written
    status,         \* "draft", "published" or "refused"
    thresholds,     \* of the published rule set
    assessment      \* the last scored transaction's verdict

vars == <<draft, status, thresholds, assessment>>

Init ==
    /\ draft \in Leaf
    /\ status = "draft"
    /\ thresholds = [review |-> 1, reject |-> 1]
    /\ assessment = "none"

\* The author puts the draft into a larger expression.  Growth stops at an
\* operation that is already refused: nothing above it can be accepted.
Grow ==
    /\ status = "draft"
    /\ Depth(draft) < DraftDepth
    /\ draft \in Leaf \/ visit(draft) /= Invalid
    /\ \E before, after \in {<<>>} \cup Filler :
          \/ \E op \in SUPPORTED_OPERATORS : draft' = Apply(op, before, draft, after)
          \/ draft' = ListOf(before, draft, after)
          \/ \E name \in DOMAIN Variables : draft' = Var(name, draft)
    /\ UNCHANGED <<status, thresholds, assessment>>

Publish ==
    /\ status = "draft"
    /\ \E t \in Thresholds :
          \/ /\ parse_rule_set_definition(<<draft, Companion>>, t)
             /\ status' = "published"
             /\ thresholds' = t
          \/ /\ ~parse_rule_set_definition(<<draft, Companion>>, t)
             /\ status' = "refused"
             /\ UNCHANGED thresholds
    /\ UNCHANGED <<draft, assessment>>

ScoreTransaction ==
    /\ status = "published"
    /\ \E ctx \in Context :
          assessment' = evaluate_rule_set(<<draft, Companion>>, thresholds, ctx)
    /\ UNCHANGED <<draft, status, thresholds>>

Next == Grow \/ Publish \/ ScoreTransaction

Spec == Init /\ [][Next]_vars

----------------------------------------------------------------------------
(* Properties *)

\* Decimal can overflow in the expression.
Computes(e) == \E i \in 1..Len(e) : e[i].op \in {"+", "-", "*"}

\* Type soundness: whatever branch an event takes, absent optional fields
\* included, an expression validate_expression accepts evaluates to a value of
\* the type it worked out; the only thing _evaluate can raise is the overflow
\* of a Decimal, where the expression adds, subtracts or multiplies.
TypeSound ==
    visit(draft) /= Invalid =>
        \A ctx \in Context :
            \/ evaluate(draft, ctx).type = visit(draft)
            \/ evaluate(draft, ctx) = Overflow /\ Computes(draft)

\* README: "a broken rule is rejected with a 422 instead of failing live
\* transactions".  No published rule set raises on any event, but for the
\* overflow of a Decimal in a rule that adds, subtracts or multiplies.
ScoringNeverFails ==
    /\ assessment /= "error"
    /\ assessment = "overflow" => Computes(draft) \/ Computes(Companion)
=============================================================================
