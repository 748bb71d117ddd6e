-------------------------- MODULE RuleEngineProofs --------------------------
(***************************************************************************)
(* Proofs about RuleEngine: the static check is sound for the evaluator,   *)
(* for every expression, every set of variables and every event, and so a  *)
(* published rule set scores every transaction unless a Decimal overflows. *)
(*                                                                         *)
(* The recursion of visit and _evaluate is over the positions of an        *)
(* expression, so the argument is an induction over positions, got from    *)
(* the least element of a set of naturals (UpTo).  It is used twice: for   *)
(* the existence of the functions visit and evaluate define (FixedPoint),  *)
(* and for soundness itself (ExpressionSound), whose induction step is the *)
(* soundness of one node (NodeSound).                                      *)
(***************************************************************************)
EXTENDS RuleEngine, WellFoundedInduction, TLAPS

\* A non-empty set of naturals has a least element.
LEMMA Least ==
  ASSUME NEW S \in SUBSET Nat, S # {}
  PROVE  \E m \in S : \A n \in S : m <= n
<1> DEFINE R == {ss \in Nat \X Nat : ss[1] < ss[2]}
<1>1. IsWellFoundedOn(R, Nat)
  BY NatLessThanWellFounded DEF OpToRel
<1>2. PICK x \in S : \A y \in S : ~(<<y, x>> \in R)
  <2> HIDE DEF R
  <2> QED BY <1>1, WFMin
<1>3. ASSUME NEW y \in S PROVE x <= y
  <2>1. <<y, x>> \in Nat \X Nat /\ ~(<<y, x>> \in R)
    BY <1>2
  <2>2. ~(y < x)
    BY <2>1
  <2> QED BY <2>1, <2>2
<1> QED BY <1>3

\* The least element is the one Min chooses.
LEMMA MinIn ==
  ASSUME NEW S \in SUBSET Nat, S # {}
  PROVE  Min(S) \in S
<1>1. \E m \in S : \A n \in S : m <= n
  BY Least
<1> QED BY <1>1 DEF Min

\* Induction over 1..n: a set that has i whenever it has all below i has them all.
LEMMA UpTo ==
  ASSUME NEW n \in Nat, NEW S,
         \A i \in 1..n : (1..(i - 1) \subseteq S => i \in S)
  PROVE  1..n \subseteq S
<1> DEFINE Bad == {i \in 1..n : i \notin S}
<1> SUFFICES ASSUME Bad # {} PROVE FALSE
  OBVIOUS
<1>1. Bad \in SUBSET Nat
  OBVIOUS
<1>2. PICK m \in Bad : \A k \in Bad : m <= k
  <2> HIDE DEF Bad
  <2> QED BY <1>1, Least
<1>3. \A j \in 1..(m - 1) : j \in S
  <2> TAKE j \in 1..(m - 1)
  <2>1. m \in 1..n /\ j \in 1..n /\ ~(m <= j)
    OBVIOUS
  <2>2. j \notin Bad
    BY <1>2, <2>1
  <2> QED BY <2>1, <2>2
<1> QED BY <1>3

\* The body of the recursion: of visit if check holds, else of _evaluate.
Body(check, e, ctx, f, i) ==
    IF check THEN CheckNode(e[i], ArgsOf(e, i, f)) ELSE EvaluateNode(e[i], ArgsOf(e, i, f), ctx)

\* f is the function the recursion defines.
IsFixed(check, e, ctx, f) == f = [i \in 1..Len(e) |-> Body(check, e, ctx, f, i)]

\* The recursion at i looks only at positions before i.
LEMMA ArgsLocal ==
  ASSUME NEW e, IsExpression(e), NEW i \in 1..Len(e), NEW f, NEW g,
         \A j \in 1..(i - 1) : f[j] = g[j]
  PROVE  ArgsOf(e, i, f) = ArgsOf(e, i, g)
<1>1. \A j \in DOMAIN e[i].back : i - e[i].back[j] \in 1..(i - 1)
  <2>1. e[i].back \in Seq(1..(i - 1)) /\ i \in Nat
    BY DEF IsExpression
  <2> TAKE j \in DOMAIN e[i].back
  <2>2. e[i].back[j] \in 1..(i - 1)
    BY <2>1
  <2> QED BY <2>1, <2>2
<1> QED BY <1>1 DEF ArgsOf

\* The recursion is well-founded: a function satisfies it.
LEMMA FixedPoint ==
  ASSUME NEW e, IsExpression(e), NEW check, NEW ctx
  PROVE  \E g : IsFixed(check, e, ctx, g)
<1> DEFINE n == Len(e)
           Partial(k) == \E g : g = [i \in 1..k |-> Body(check, e, ctx, g, i)]
           Good == {i \in 1..n : Partial(i)}
<1>1. n \in Nat \ {0}
  BY DEF IsExpression
<1>2. ASSUME NEW i \in 1..n, 1..(i - 1) \subseteq Good
      PROVE  Partial(i)
  <2>1. PICK g : g = [j \in 1..(i - 1) |-> Body(check, e, ctx, g, j)]
    <3>1. CASE i = 1
      <4>1. [j \in 1..(i - 1) |-> 0] = [j \in 1..(i - 1) |-> Body(check, e, ctx, [k \in 1..(i - 1) |-> 0], j)]
        BY <3>1
      <4> QED BY <4>1
    <3>2. CASE i # 1
      <4>1. i - 1 \in 1..(i - 1)
        BY <3>2, <1>1
      <4> QED BY <4>1, <1>2
    <3> QED BY <3>1, <3>2
  <2> DEFINE h == [j \in 1..i |-> IF j < i THEN g[j] ELSE Body(check, e, ctx, g, i)]
  <2>2. ASSUME NEW j \in 1..i
        PROVE  h[j] = Body(check, e, ctx, h, j)
    <3>1. \A k \in 1..(j - 1) : h[k] = g[k]
      OBVIOUS
    <3>2. j \in 1..Len(e)
      BY <1>1
    <3> HIDE DEF h
    <3>3. ArgsOf(e, j, h) = ArgsOf(e, j, g)
      BY <3>1, <3>2, ArgsLocal
    <3>4. Body(check, e, ctx, h, j) = Body(check, e, ctx, g, j)
      BY <3>3 DEF Body
    <3>5. h[j] = Body(check, e, ctx, g, j)
      <4>1. CASE j < i
        <5>1. h[j] = g[j]
          BY <4>1 DEF h
        <5>2. j \in 1..(i - 1)
          BY <4>1
        <5>3. g[j] = Body(check, e, ctx, g, j)
          BY <2>1, <5>2
        <5> QED BY <5>1, <5>3
      <4>2. CASE j = i
        BY <4>2 DEF h
      <4> QED BY <4>1, <4>2
    <3> QED BY <3>4, <3>5
  <2>3. h = [j \in 1..i |-> h[j]]
    OBVIOUS
  <2> HIDE DEF h
  <2>4. [j \in 1..i |-> h[j]] = [j \in 1..i |-> Body(check, e, ctx, h, j)]
    BY <2>2
  <2>5. h = [j \in 1..i |-> Body(check, e, ctx, h, j)]
    BY <2>3, <2>4, Zenon
  <2> QED BY <2>5
<1>3. \A i \in 1..n : (1..(i - 1) \subseteq Good => i \in Good)
  BY <1>2
<1>4. 1..n \subseteq Good
  <2> HIDE DEF Good, n
  <2> QED BY <1>1, <1>3, UpTo
<1>5. n \in 1..n
  BY <1>1
<1>6. n \in Good
  BY <1>4, <1>5
<1> QED BY <1>6 DEF IsFixed

\* The functions that visit and evaluate read at the root.
Types(e) == CHOOSE f : f = [i \in 1..Len(e) |-> CheckNode(e[i], ArgsOf(e, i, f))]
Vals(e, ctx) == CHOOSE f : f = [i \in 1..Len(e) |-> EvaluateNode(e[i], ArgsOf(e, i, f), ctx)]

\* The type of a node is what CheckNode makes of the types of its arguments.
LEMMA TypesUnfold ==
  ASSUME NEW e, IsExpression(e)
  PROVE  /\ visit(e) = Types(e)[Len(e)]
         /\ \A i \in 1..Len(e) : Types(e)[i] = CheckNode(e[i], ArgsOf(e, i, Types(e)))
<1>1. PICK g : IsFixed(TRUE, e, 0, g)
  BY FixedPoint
<1>2. g = [i \in 1..Len(e) |-> CheckNode(e[i], ArgsOf(e, i, g))]
  BY <1>1 DEF IsFixed, Body
<1>3. Types(e) = [i \in 1..Len(e) |-> CheckNode(e[i], ArgsOf(e, i, Types(e)))]
  BY <1>2 DEF Types
<1>4. visit(e) = Types(e)[Len(e)]
  BY DEF visit, Types
<1> QED BY <1>3, <1>4

\* The value of a node is what EvaluateNode makes of the values of its arguments.
LEMMA ValsUnfold ==
  ASSUME NEW e, IsExpression(e), NEW ctx
  PROVE  /\ evaluate(e, ctx) = Vals(e, ctx)[Len(e)]
         /\ \A i \in 1..Len(e) :
               Vals(e, ctx)[i] = EvaluateNode(e[i], ArgsOf(e, i, Vals(e, ctx)), ctx)
<1>1. PICK g : IsFixed(FALSE, e, ctx, g)
  BY FixedPoint
<1>2. g = [i \in 1..Len(e) |-> EvaluateNode(e[i], ArgsOf(e, i, g), ctx)]
  BY <1>1 DEF IsFixed, Body
<1>3. Vals(e, ctx) = [i \in 1..Len(e) |-> EvaluateNode(e[i], ArgsOf(e, i, Vals(e, ctx)), ctx)]
  BY <1>2 DEF Vals
<1>4. evaluate(e, ctx) = Vals(e, ctx)[Len(e)]
  BY DEF evaluate, Vals
<1> QED BY <1>3, <1>4

-----------------------------------------------------------------------------
\* The types an accepted expression can have.
Kinds == {"number", "text", "boolean", "null", "list"}
Type == {t \in Seq(Kinds \cup {"anything"}) : t # <<>> /\ t[1] \in Kinds}
\* Values of these types, except where Decimal overflowed.
Typed(vs, ts) ==
    /\ vs = [j \in DOMAIN ts |-> vs[j]]
    /\ \A j \in DOMAIN ts : vs[j].type = ts[j] \/ vs[j] = Overflow

\* Sequences of one element.
LEMMA Single ==
  ASSUME NEW S, NEW x \in S
  PROVE  /\ <<x>> \in Seq(S) /\ <<x>> # <<>> /\ <<x>>[1] = x /\ Len(<<x>>) = 1
OBVIOUS

\* The kinds are types, told apart from each other, from Invalid and from ERROR.
LEMMA KindsAreTypes ==
  /\ NUMBER \in Type /\ TEXT \in Type /\ BOOL \in Type /\ NULL \in Type
  /\ Invalid \notin Type /\ ERROR \notin Type
  /\ NUMBER # TEXT /\ NUMBER # BOOL /\ NUMBER # NULL
  /\ TEXT # BOOL /\ TEXT # NULL /\ BOOL # NULL
  /\ Scalar \subseteq Type
<1>1. ASSUME NEW k \in Kinds PROVE <<k>> \in Type
  <2>1. k \in Kinds \cup {"anything"}
    OBVIOUS
  <2>2. <<k>> \in Seq(Kinds \cup {"anything"}) /\ <<k>> # <<>> /\ <<k>>[1] = k
    BY <2>1, Single
  <2> QED BY <2>2 DEF Type
<1>2. \A k \in {"number", "text", "boolean", "null"} : k \in Kinds
  BY DEF Kinds
<1>3. NUMBER \in Type /\ TEXT \in Type /\ BOOL \in Type /\ NULL \in Type
  BY <1>1, <1>2 DEF NUMBER, TEXT, BOOL, NULL
<1>4. Invalid \notin Type /\ ERROR \notin Type
  BY DEF Type, Kinds, Invalid, ERROR
<1>5. /\ NUMBER # TEXT /\ NUMBER # BOOL /\ NUMBER # NULL
      /\ TEXT # BOOL /\ TEXT # NULL /\ BOOL # NULL
  BY DEF NUMBER, TEXT, BOOL, NULL
<1> QED BY <1>3, <1>4, <1>5 DEF Scalar

\* _list_of makes a type of a type.
LEMMA ConsType ==
  ASSUME NEW t \in Type
  PROVE  <<"list">> \o t \in Type
<1> DEFINE S == Kinds \cup {"anything"}
<1>1. t \in Seq(S)
  BY DEF Type
<1>2. "list" \in S /\ "list" \in Kinds
  BY DEF Kinds
<1>3. <<"list">> \in Seq(S) /\ <<"list">>[1] = "list" /\ Len(<<"list">>) = 1
  BY <1>2, Single
<1> HIDE DEF S
<1>4. <<"list">> \o t \in Seq(S)
  BY <1>1, <1>3
<1>5. Len(<<"list">> \o t) = 1 + Len(t) /\ Len(t) \in Nat
  BY <1>1, <1>3
<1>6. (<<"list">> \o t)[1] = "list"
  BY <1>1, <1>3
<1>7. <<"list">> \o t # <<>>
  BY <1>4, <1>5
<1> QED BY <1>2, <1>4, <1>6, <1>7 DEF Type, S

\* The type of the empty list.
LEMMA EmptyListType == <<"list", "anything">> \in Type
<1> DEFINE S == Kinds \cup {"anything"}
<1>1. "list" \in S /\ "anything" \in S /\ "list" \in Kinds
  BY DEF Kinds
<1> HIDE DEF S
<1>2. <<"list", "anything">> \in Seq(S)
  BY <1>1
<1> QED BY <1>1, <1>2 DEF Type, S

\* The static check gives a type or refuses, never the type of an exception.
LEMMA CheckedTypes ==
  ASSUME NEW node, node.op = "literal" => node.value.type \in Scalar,
         NEW ts \in Seq(Type \cup {Invalid})
  PROVE  CheckNode(node, ts) \in Type \cup {Invalid}
<1> USE KindsAreTypes
<1>1. CASE Invalid \in Range(ts)
  BY <1>1 DEF CheckNode
<1> SUFFICES ASSUME Invalid \notin Range(ts)
             PROVE  CheckNode(node, ts) \in Type \cup {Invalid}
  BY <1>1
<1>2. \A j \in DOMAIN ts : ts[j] \in Type
  BY DEF Range
<1>3. CASE node.op = "literal"
  BY <1>3 DEF CheckNode, SUPPORTED_OPERATORS, Ordering, Arithmetic, Connective
<1>4. CASE node.op = "list"
  <2>1. CheckNode(node, ts) = CheckList(ts)
    BY <1>4 DEF CheckNode, SUPPORTED_OPERATORS, Ordering, Arithmetic, Connective
  <2>2. CASE ts = <<>>
    BY <2>1, <2>2, EmptyListType DEF CheckList
  <2>3. CASE ts # <<>>
    <3>1. <<"list">> \o ts[1] \in Type
      BY <2>3, <1>2, ConsType
    <3> QED BY <2>1, <2>3, <3>1 DEF CheckList
  <2> QED BY <2>2, <2>3
<1>5. CASE node.op = "var"
  <2>1. CheckNode(node, ts) = check_variable(node.value.key[2], ts)
    BY <1>5 DEF CheckNode, SUPPORTED_OPERATORS, Ordering, Arithmetic, Connective
  <2> QED BY <2>1, RuleAssumption DEF check_variable
<1>6. CASE node.op \in SUPPORTED_OPERATORS
  <2>1. \/ CheckNode(node, ts) = Invalid
        \/ CheckNode(node, ts) = CheckOperator(node.op, ts) /\ Takes(node.op, Len(ts))
    BY <1>6 DEF CheckNode, SUPPORTED_OPERATORS, Ordering, Arithmetic, Connective
  <2> SUFFICES ASSUME Takes(node.op, Len(ts))
               PROVE  CheckOperator(node.op, ts) \in Type \cup {Invalid}
    BY <2>1
  <2>2. CASE node.op = "if"
    <3>1. Len(ts) = 3
      BY <2>2 DEF Takes
    <3>2. CheckOperator(node.op, ts) = CheckIf(ts)
      BY <2>2 DEF CheckOperator, Ordering, Arithmetic, Connective
    <3> QED BY <3>1, <3>2, <1>2 DEF CheckIf
  <2>3. CASE node.op # "if"
    <3>1. CheckOperator(node.op, ts) \in {NUMBER, BOOL, Invalid}
      BY <1>6, <2>3 DEF CheckOperator, SUPPORTED_OPERATORS, Ordering, Arithmetic, Connective,
                        Require, CheckEquals, CheckIn
    <3> QED BY <3>1
  <2> QED BY <2>2, <2>3
<1>7. CASE node.op \notin SUPPORTED_OPERATORS \cup {"literal", "list", "var"}
  BY <1>7 DEF CheckNode
<1> QED BY <1>3, <1>4, <1>5, <1>6, <1>7

-----------------------------------------------------------------------------
\* An argument overflowed.
Overflows(vs) == \E j \in DOMAIN vs : vs[j] = Overflow

\* Among values of these types the only exception is an overflow.
LEMMA OnlyOverflows ==
  ASSUME NEW ts \in Seq(Type), NEW vs, Typed(vs, ts)
  PROVE  /\ DOMAIN vs = 1..Len(ts) /\ Len(vs) = Len(ts) /\ Len(ts) \in Nat
         /\ \A j \in DOMAIN vs : /\ Failed(vs[j]) <=> vs[j] = Overflow
                                 /\ vs[j].type = ts[j] <=> ~Failed(vs[j])
<1>1. DOMAIN vs = 1..Len(ts) /\ Len(ts) \in Nat
  BY DEF Typed
<1>2. Len(vs) = Len(ts)
  <2>1. vs = [j \in 1..Len(ts) |-> vs[j]]
    BY DEF Typed
  <2> QED BY <2>1, <1>1
<1>3. Overflow.type = ERROR
  BY DEF Overflow, Value
<1>4. ASSUME NEW j \in DOMAIN vs
      PROVE  /\ Failed(vs[j]) <=> vs[j] = Overflow
             /\ vs[j].type = ts[j] <=> ~Failed(vs[j])
  <2>1. ts[j] # ERROR
    BY <1>1, KindsAreTypes
  <2>2. vs[j].type = ts[j] \/ vs[j] = Overflow
    BY <1>1 DEF Typed
  <2> QED BY <1>3, <2>1, <2>2 DEF Failed
<1> QED BY <1>1, <1>2, <1>4

\* An eager operation has all its arguments, or ends with the overflow of one.
LEMMA EagerResult ==
  ASSUME NEW ts \in Seq(Type), NEW vs, Typed(vs, ts), NEW r
  PROVE  \/ Eagerly(vs, r) = r /\ \A j \in DOMAIN vs : vs[j].type = ts[j]
         \/ Eagerly(vs, r) = Overflow /\ Overflows(vs)
<1>1. CASE Failures(vs) = {}
  BY <1>1, OnlyOverflows DEF Eagerly, Failures
<1>2. CASE Failures(vs) # {}
  <2>1. Failures(vs) \in SUBSET Nat
    BY OnlyOverflows DEF Failures
  <2>2. Min(Failures(vs)) \in Failures(vs)
    BY <1>2, <2>1, MinIn
  <2>3. PICK j \in DOMAIN vs : j = Min(Failures(vs)) /\ Failed(vs[j])
    BY <2>2 DEF Failures
  <2>4. vs[j] = Overflow
    BY <2>3, OnlyOverflows
  <2> QED BY <1>2, <2>3, <2>4 DEF Eagerly, Overflows
<1> QED BY <1>1, <1>2

\* and/or give a boolean or the overflow of an argument they reached.
LEMMA LazyResult ==
  ASSUME NEW ts \in Seq(Type), NEW vs, Typed(vs, ts), NEW stop
  PROVE  \/ Lazily(vs, stop).type = BOOL
         \/ Lazily(vs, stop) = Overflow /\ Overflows(vs)
<1> DEFINE deciding == {i \in DOMAIN vs : Failed(vs[i]) \/ Truthy(vs[i]) = stop}
           first == vs[Min(deciding)]
<1>1. \A b : Boolean(b).type = BOOL
  BY DEF Boolean, Value
<1>2. CASE deciding = {}
  <2>1. Lazily(vs, stop) = Boolean(~stop)
    BY <1>2 DEF Lazily
  <2> QED BY <1>1, <2>1
<1>3. CASE deciding # {}
  <2>1. deciding \in SUBSET Nat
    BY OnlyOverflows
  <2>2. Min(deciding) \in deciding
    <3> HIDE DEF deciding
    <3> QED BY <1>3, <2>1, MinIn
  <2>3. Min(deciding) \in DOMAIN vs
    BY <2>2
  <2>4. Lazily(vs, stop) = IF Failed(first) THEN first ELSE Boolean(stop)
    BY <1>3 DEF Lazily
  <2>5. Failed(first) => first = Overflow
    BY <2>3, OnlyOverflows
  <2> QED BY <1>1, <2>3, <2>4, <2>5 DEF Overflows
<1> QED BY <1>2, <1>3

\* The operators in which Decimal can overflow.
Arithmetical == {"+", "-", "*"}

\* Called with arguments of the types require asks for, an implementation gives a
\* value of the declared type and can only overflow.
LEMMA CallResult ==
  ASSUME NEW op \in Ordering \cup Arithmetic \cup {"!", "==", "!=", "in"},
         NEW ts \in Seq(Type), NEW vs, Typed(vs, ts), Takes(op, Len(ts)),
         \A j \in DOMAIN vs : vs[j].type = ts[j],
         CheckOperator(op, ts) # Invalid
  PROVE  \/ Call(op, vs).type = CheckOperator(op, ts)
         \/ Call(op, vs) = Overflow /\ op \in Arithmetical
<1>0. DOMAIN vs = 1..Len(ts) /\ Len(vs) = Len(ts) /\ Len(ts) \in Nat
  BY OnlyOverflows
<1>1. (\A b : Boolean(b).type = BOOL) /\ (\A n : Number(n).type = NUMBER)
  BY DEF Boolean, Number, Value
<1>2. Callable(op, Len(vs))
  BY <1>0 DEF Takes, Callable, Ordering, Arithmetic
<1>3. CASE op = "!"
  <2>1. CheckOperator(op, ts) = BOOL
    BY <1>3 DEF CheckOperator, Require, Ordering, Arithmetic, Connective
  <2>2. Call(op, vs) = Boolean(~Truthy(vs[1]))
    BY <1>2, <1>3 DEF Call
  <2> QED BY <1>1, <2>1, <2>2
<1>4. CASE op \in {"==", "!="}
  <2>1. CheckOperator(op, ts) = BOOL
    BY <1>4 DEF CheckOperator, CheckEquals, Ordering, Arithmetic, Connective
  <2>2. \/ Call(op, vs) = Boolean(Equals(vs[1], vs[2]))
        \/ Call(op, vs) = Boolean(~Equals(vs[1], vs[2]))
    BY <1>2, <1>4 DEF Call
  <2> QED BY <1>1, <2>1, <2>2
<1>5. CASE op = "in"
  <2>1. CheckOperator(op, ts) = CheckIn(ts)
    BY <1>5 DEF CheckOperator, Ordering, Arithmetic, Connective
  <2>2. CheckIn(ts) = BOOL /\ (ts[2] = TEXT \/ ts[2][1] = "list")
    BY <2>1 DEF CheckIn
  <2>3. vs[2].type = ts[2]
    BY <1>0, <1>5 DEF Takes
  <2>4. Call(op, vs) = membership(vs[1], vs[2])
    BY <1>2, <1>5 DEF Call
  <2>5. TEXT[1] # "list"
    BY DEF TEXT
  <2>6. membership(vs[1], vs[2]).type = BOOL
    BY <1>1, <2>2, <2>3, <2>5 DEF membership
  <2> QED BY <2>1, <2>2, <2>4, <2>6
<1>6. CASE op \in Ordering \cup Arithmetic
  <2> DEFINE ns == [i \in DOMAIN vs |-> vs[i].key[2]]
  <2>1. CheckOperator(op, ts) = Require(NUMBER, ts, IF op \in Ordering THEN BOOL ELSE NUMBER)
    BY <1>6 DEF CheckOperator, Ordering, Arithmetic, Connective
  <2>2. /\ CheckOperator(op, ts) = IF op \in Ordering THEN BOOL ELSE NUMBER
        /\ \A j \in DOMAIN ts : ts[j] = NUMBER
    BY <2>1 DEF Require
  <2>3. \A j \in DOMAIN vs : vs[j].type = NUMBER
    BY <1>0, <2>2
  <2>4. Call(op, vs) = Calculate(op, ns)
    BY <1>2, <1>6, <2>3 DEF Call, Ordering, Arithmetic
  <2> HIDE DEF ns
  <2>5. CASE op \in Ordering
    <3>1. PICK b : Calculate(op, ns) = Boolean(b)
      BY <2>5 DEF Calculate, Ordering
    <3> QED BY <1>1, <2>2, <2>4, <2>5, <3>1
  <2>6. CASE op \in {"min", "max"}
    <3>1. PICK n : Calculate(op, ns) = Number(n)
      BY <2>6 DEF Calculate, Ordering
    <3> QED BY <1>1, <2>2, <2>4, <2>6, <3>1 DEF Ordering
  <2>7. CASE op \in Arithmetical
    <3>1. PICK rs : Calculate(op, ns) = Decimals(rs)
      BY <2>7 DEF Calculate, Arithmetical, Ordering
    <3>2. Decimals(rs).type = NUMBER \/ Decimals(rs) = Overflow
      BY <1>1 DEF Decimals
    <3> QED BY <2>2, <2>4, <2>7, <3>1, <3>2 DEF Ordering, Arithmetical
  <2> QED BY <1>6, <2>5, <2>6, <2>7 DEF Arithmetic, Arithmetical
<1> QED BY <1>3, <1>4, <1>5, <1>6

\* One node: whatever its arguments are, if its check accepts their types then it
\* evaluates to the type the check gave it, or an overflow passes through it.
LEMMA NodeSound ==
  ASSUME NEW node, NEW ctx, IsContext(ctx),
         NEW ts \in Seq(Type), NEW vs, Typed(vs, ts),
         CheckNode(node, ts) # Invalid
  PROVE  \/ EvaluateNode(node, vs, ctx).type = CheckNode(node, ts)
         \/ /\ EvaluateNode(node, vs, ctx) = Overflow
            /\ node.op \in Arithmetical \/ Overflows(vs)
<1>0. DOMAIN vs = 1..Len(ts) /\ Len(vs) = Len(ts) /\ Len(ts) \in Nat
  BY OnlyOverflows
<1>1. Invalid \notin Range(ts)
  BY DEF CheckNode
<1>2. CASE node.op = "literal"
  <2>1. CheckNode(node, ts) = node.value.type
    BY <1>1, <1>2 DEF CheckNode, SUPPORTED_OPERATORS, Ordering, Arithmetic, Connective
  <2>2. EvaluateNode(node, vs, ctx) = node.value
    BY <1>2 DEF EvaluateNode
  <2> QED BY <2>1, <2>2
<1>3. CASE node.op = "list"
  <2>1. CheckNode(node, ts) = CheckList(ts)
    BY <1>1, <1>3 DEF CheckNode, SUPPORTED_OPERATORS, Ordering, Arithmetic, Connective
  <2>2. EvaluateNode(node, vs, ctx) = Eagerly(vs, List(vs))
    BY <1>3 DEF EvaluateNode
  <2>3. CASE \A j \in DOMAIN vs : vs[j].type = ts[j]
    <3>1. CASE ts = <<>>
      <4>1. vs = <<>>
        BY <1>0, <3>1 DEF Typed
      <4>2. List(vs).type = CheckList(ts)
        BY <3>1, <4>1 DEF List, Value, CheckList
      <4> QED BY <2>1, <2>2, <4>2, EagerResult
    <3>2. CASE ts # <<>>
      <4>1. Len(ts) >= 1 /\ vs # <<>>
        BY <1>0, <3>2
      <4>2. \A j \in DOMAIN ts : ts[j] = ts[1]
        BY <2>1, <3>2 DEF CheckList
      <4>3. CheckList(ts) = <<"list">> \o ts[1]
        BY <3>2, <4>2 DEF CheckList
      <4>4. \A j \in DOMAIN vs : vs[j].type = vs[1].type
        BY <1>0, <2>3, <4>1, <4>2
      <4>5. List(vs).type = <<"list">> \o vs[1].type
        BY <4>1, <4>4 DEF List, Value
      <4>6. vs[1].type = ts[1]
        BY <1>0, <2>3, <4>1
      <4>7. List(vs).type = CheckList(ts)
        BY <4>3, <4>5, <4>6
      <4> QED BY <2>1, <2>2, <4>7, EagerResult
    <3> QED BY <3>1, <3>2
  <2>4. CASE ~(\A j \in DOMAIN vs : vs[j].type = ts[j])
    BY <2>2, <2>4, EagerResult
  <2> QED BY <2>3, <2>4
<1>4. CASE node.op = "var"
  <2> DEFINE name == node.value.key[2]
  <2>1. CheckNode(node, ts) = check_variable(name, ts)
    BY <1>1, <1>4 DEF CheckNode, SUPPORTED_OPERATORS, Ordering, Arithmetic, Connective
  <2>2. EvaluateNode(node, vs, ctx) = EvaluateVar(name, vs, ctx)
    BY <1>4 DEF EvaluateNode
  <2> HIDE DEF name
  <2>3. /\ name \in DOMAIN Variables
        /\ check_variable(name, ts) = Variables[name].type
        /\ (ts = <<>> /\ Variables[name].required) \/ ts = <<Variables[name].type>>
    BY <2>1 DEF check_variable
  <2>4. CASE name \in DOMAIN ctx
    <3>1. EvaluateVar(name, vs, ctx) = ctx[name]
      BY <2>4 DEF EvaluateVar
    <3> QED BY <2>1, <2>2, <2>3, <2>4, <3>1 DEF IsContext
  <2>5. CASE name \notin DOMAIN ctx
    <3>1. ts = <<Variables[name].type>>
      BY <2>3, <2>5 DEF IsContext
    <3>2. Len(ts) = 1 /\ ts[1] = Variables[name].type
      BY <3>1
    <3>3. EvaluateVar(name, vs, ctx) = vs[1]
      BY <1>0, <2>5, <3>2 DEF EvaluateVar
    <3>4. 1 \in DOMAIN vs
      BY <1>0, <3>2
    <3>5. vs[1].type = ts[1] \/ vs[1] = Overflow
      BY <3>4, OnlyOverflows
    <3> QED BY <2>1, <2>2, <2>3, <3>2, <3>3, <3>4, <3>5 DEF Overflows
  <2> QED BY <2>4, <2>5
<1>5. ASSUME node.op \in SUPPORTED_OPERATORS
      PROVE  /\ CheckNode(node, ts) = CheckOperator(node.op, ts)
             /\ Takes(node.op, Len(ts))
  BY <1>1, <1>5 DEF CheckNode, SUPPORTED_OPERATORS, Ordering, Arithmetic, Connective
<1>6. CASE node.op \in {"and", "or"}
  <2>1. CheckOperator(node.op, ts) # Invalid /\ CheckNode(node, ts) = CheckOperator(node.op, ts)
    BY <1>5, <1>6 DEF SUPPORTED_OPERATORS, Connective
  <2>2. CheckNode(node, ts) = BOOL
    BY <1>6, <2>1 DEF CheckOperator, Require, Ordering, Arithmetic, Connective
  <2>3. PICK stop : EvaluateNode(node, vs, ctx) = Lazily(vs, stop)
    BY <1>6 DEF EvaluateNode
  <2> QED BY <2>2, <2>3, LazyResult
<1>7. CASE node.op = "if"
  <2>1. CheckNode(node, ts) = CheckOperator(node.op, ts) /\ Len(ts) = 3
    BY <1>5, <1>7 DEF SUPPORTED_OPERATORS, Takes
  <2>2. CheckNode(node, ts) = CheckIf(ts)
    BY <1>7, <2>1 DEF CheckOperator, Ordering, Arithmetic, Connective
  <2>3. CheckNode(node, ts) = ts[2] /\ ts[2] = ts[3]
    BY <2>2 DEF CheckIf
  <2>4. EvaluateNode(node, vs, ctx) = EvaluateIf(vs)
    BY <1>7 DEF EvaluateNode
  <2>5. Len(vs) = 3 /\ 1 \in DOMAIN vs /\ 2 \in DOMAIN vs /\ 3 \in DOMAIN vs
    BY <1>0, <2>1
  <2>6. \/ EvaluateIf(vs) = vs[1] /\ Failed(vs[1])
        \/ EvaluateIf(vs) = vs[2]
        \/ EvaluateIf(vs) = vs[3]
    BY <2>5 DEF EvaluateIf
  <2>7. \A j \in {1, 2, 3} : vs[j].type = ts[j] \/ vs[j] = Overflow
    BY <2>5, OnlyOverflows
  <2>8. Failed(vs[1]) => vs[1] = Overflow
    BY <2>5, OnlyOverflows
  <2> QED BY <2>3, <2>4, <2>5, <2>6, <2>7, <2>8 DEF Overflows
<1>8. CASE node.op \in Ordering \cup Arithmetic \cup {"!", "==", "!=", "in"}
  <2>1. /\ CheckNode(node, ts) = CheckOperator(node.op, ts) /\ Takes(node.op, Len(ts))
        /\ CheckOperator(node.op, ts) # Invalid
    BY <1>5, <1>8 DEF SUPPORTED_OPERATORS, Connective
  <2>2. EvaluateNode(node, vs, ctx) = Eagerly(vs, Call(node.op, vs))
    BY <1>8 DEF EvaluateNode, Ordering, Arithmetic
  <2>3. CASE \A j \in DOMAIN vs : vs[j].type = ts[j]
    <3>1. \/ Call(node.op, vs).type = CheckOperator(node.op, ts)
          \/ Call(node.op, vs) = Overflow /\ node.op \in Arithmetical
      BY <1>8, <2>1, <2>3, CallResult
    <3> QED BY <2>1, <2>2, <3>1, EagerResult
  <2>4. CASE ~(\A j \in DOMAIN vs : vs[j].type = ts[j])
    BY <2>2, <2>4, EagerResult
  <2> QED BY <2>3, <2>4
<1>9. CASE node.op \notin SUPPORTED_OPERATORS \cup {"literal", "list", "var"}
  BY <1>1, <1>9 DEF CheckNode
<1> QED BY <1>2, <1>3, <1>4, <1>6, <1>7, <1>8, <1>9 DEF SUPPORTED_OPERATORS, Connective

-----------------------------------------------------------------------------
\* The claim of the induction, at position i.
SoundAt(e, ctx, i) ==
    /\ Types(e)[i] \in Type \cup {Invalid}
    /\ Types(e)[i] # Invalid =>
          \/ Vals(e, ctx)[i].type = Types(e)[i]
          \/ Vals(e, ctx)[i] = Overflow /\ \E k \in 1..i : e[k].op \in Arithmetical

\* The arguments of a node are at earlier positions.
LEMMA ArgRange ==
  ASSUME NEW e, IsExpression(e), NEW i \in 1..Len(e), NEW f
  PROVE  /\ DOMAIN ArgsOf(e, i, f) = 1..Len(e[i].back) /\ Len(e[i].back) \in Nat
         /\ \A j \in DOMAIN ArgsOf(e, i, f) :
               /\ i - e[i].back[j] \in 1..(i - 1)
               /\ ArgsOf(e, i, f)[j] = f[i - e[i].back[j]]
<1>1. e[i].back \in Seq(1..(i - 1)) /\ i \in Nat
  BY DEF IsExpression
<1>2. \A j \in DOMAIN e[i].back : e[i].back[j] \in 1..(i - 1)
  BY <1>1
<1> QED BY <1>1, <1>2 DEF ArgsOf

\* The induction step.
LEMMA SoundStep ==
  ASSUME NEW e, IsExpression(e), NEW ctx, IsContext(ctx), NEW i \in 1..Len(e),
         \A k \in 1..(i - 1) : SoundAt(e, ctx, k)
  PROVE  SoundAt(e, ctx, i)
<1> DEFINE ts == ArgsOf(e, i, Types(e))
           vs == ArgsOf(e, i, Vals(e, ctx))
           n == Len(e[i].back)
<1>1. /\ DOMAIN ts = 1..n /\ DOMAIN vs = 1..n /\ n \in Nat
      /\ \A j \in 1..n : /\ i - e[i].back[j] \in 1..(i - 1)
                         /\ ts[j] = Types(e)[i - e[i].back[j]]
                         /\ vs[j] = Vals(e, ctx)[i - e[i].back[j]]
  BY ArgRange
<1>2. ts = [j \in 1..n |-> ts[j]] /\ vs = [j \in 1..n |-> vs[j]]
  BY <1>1 DEF ArgsOf
<1>3. Types(e)[i] = CheckNode(e[i], ts)
  BY TypesUnfold
<1>4. Vals(e, ctx)[i] = EvaluateNode(e[i], vs, ctx)
  BY ValsUnfold
<1>5. e[i].op = "literal" => e[i].value.type \in Scalar
  BY DEF IsExpression
<1> HIDE DEF ts, vs, n
<1>6. \A j \in 1..n : ts[j] \in Type \cup {Invalid}
  BY <1>1 DEF SoundAt
<1>7. ts \in Seq(Type \cup {Invalid})
  BY <1>1, <1>2, <1>6
<1>8. Types(e)[i] \in Type \cup {Invalid}
  BY <1>3, <1>5, <1>7, CheckedTypes
<1>9. ASSUME CheckNode(e[i], ts) # Invalid
      PROVE  \/ Vals(e, ctx)[i].type = Types(e)[i]
             \/ Vals(e, ctx)[i] = Overflow /\ \E k \in 1..i : e[k].op \in Arithmetical
  <2>1. \A j \in 1..n : ts[j] # Invalid
    BY <1>1, <1>9 DEF CheckNode, Range
  <2>2. ts \in Seq(Type)
    BY <1>1, <1>2, <1>6, <2>1
  <2>3. ASSUME NEW j \in 1..n
        PROVE  \/ vs[j].type = ts[j]
               \/ vs[j] = Overflow /\ \E k \in 1..(i - 1) : e[k].op \in Arithmetical
    <3>1. SoundAt(e, ctx, i - e[i].back[j])
      BY <1>1
    <3>2. i - e[i].back[j] \in 1..(i - 1) /\ i \in Nat
      BY <1>1
    <3> QED BY <1>1, <2>1, <3>1, <3>2 DEF SoundAt
  <2>4. Typed(vs, ts)
    BY <1>1, <1>2, <2>3 DEF Typed
  <2>5. \/ EvaluateNode(e[i], vs, ctx).type = CheckNode(e[i], ts)
        \/ /\ EvaluateNode(e[i], vs, ctx) = Overflow
           /\ e[i].op \in Arithmetical \/ Overflows(vs)
    BY <1>9, <2>2, <2>4, NodeSound
  <2>6. i \in Nat /\ i \in 1..i /\ \A k \in 1..(i - 1) : k \in 1..i
    OBVIOUS
  <2>7. ASSUME Overflows(vs) PROVE \E k \in 1..i : e[k].op \in Arithmetical
    <3>1. PICK j \in 1..n : vs[j] = Overflow
      BY <1>1, <2>7 DEF Overflows
    <3>2. vs[j].type # ts[j]
      BY <1>1, <2>2, <2>4, <3>1, OnlyOverflows DEF Failed
    <3> QED BY <2>3, <2>6, <3>2
  <2> QED BY <1>3, <1>4, <2>5, <2>6, <2>7
<1> QED BY <1>3, <1>8, <1>9 DEF SoundAt

\* Soundness of visit for _evaluate, for an expression of any shape and depth.
LEMMA ExpressionSound ==
  ASSUME NEW e, IsExpression(e), NEW ctx, IsContext(ctx)
  PROVE  /\ visit(e) \in Type \cup {Invalid}
         /\ visit(e) # Invalid => \/ evaluate(e, ctx).type = visit(e)
                                  \/ evaluate(e, ctx) = Overflow /\ Computes(e)
<1> DEFINE Good == {i \in 1..Len(e) : SoundAt(e, ctx, i)}
<1>1. Len(e) \in Nat /\ Len(e) \in 1..Len(e)
  BY DEF IsExpression
<1>2. \A i \in 1..Len(e) : (1..(i - 1) \subseteq Good => i \in Good)
  BY SoundStep
<1>3. 1..Len(e) \subseteq Good
  <2> HIDE DEF Good
  <2> QED BY <1>1, <1>2, UpTo
<1>4. SoundAt(e, ctx, Len(e))
  BY <1>1, <1>3
<1>5. visit(e) = Types(e)[Len(e)] /\ evaluate(e, ctx) = Vals(e, ctx)[Len(e)]
  BY TypesUnfold, ValsUnfold
<1> QED BY <1>4, <1>5 DEF SoundAt, Computes, Arithmetical

-----------------------------------------------------------------------------
\* IsExpression, or no nodes at all.
WellFormed(e) ==
    /\ e \in Seq(Range(e))
    /\ \A i \in 1..Len(e) :
          /\ e[i].back \in Seq(1..(i - 1))
          /\ e[i].op = "literal" => e[i].value.type \in Scalar

\* A sequence is a sequence of its elements.
LEMMA SequenceOverItsRange ==
  ASSUME NEW S, NEW e \in Seq(S)
  PROVE  e \in Seq(Range(e))
<1>1. /\ Len(e) \in Nat /\ e = [i \in 1..Len(e) |-> e[i]]
      /\ \A i \in 1..Len(e) : e[i] \in Range(e)
  BY DEF Range
<1> DEFINE R == Range(e)
<1> HIDE DEF R
<1>2. Len(e) \in Nat /\ e = [i \in 1..Len(e) |-> e[i]] /\ \A i \in 1..Len(e) : e[i] \in R
  BY <1>1 DEF R
<1>3. e \in Seq(R)
  BY <1>2
<1> QED BY <1>3 DEF R

\* A sequence over a set is one over any larger set.
LEMMA SeqWider ==
  ASSUME NEW S, NEW T, S \subseteq T, NEW e \in Seq(S)
  PROVE  e \in Seq(T)
<1>1. Len(e) \in Nat /\ e = [i \in 1..Len(e) |-> e[i]] /\ \A i \in 1..Len(e) : e[i] \in T
  OBVIOUS
<1> QED BY <1>1

\* What is where in a concatenation.
LEMMA Concat ==
  ASSUME NEW x, x \in Seq(Range(x)), NEW y, y \in Seq(Range(y))
  PROVE  /\ x \o y \in Seq(Range(x \o y))
         /\ Len(x) \in Nat /\ Len(y) \in Nat /\ Len(x \o y) = Len(x) + Len(y)
         /\ \A i \in 1..Len(x \o y) :
               IF i <= Len(x) THEN (x \o y)[i] = x[i] ELSE (x \o y)[i] = y[i - Len(x)]
<1> DEFINE S == Range(x) \cup Range(y)
<1>1. x \in Seq(S)
  <2>1. Range(x) \subseteq S
    OBVIOUS
  <2> HIDE DEF S
  <2> QED BY <2>1, SeqWider
<1>2. y \in Seq(S)
  <2>1. Range(y) \subseteq S
    OBVIOUS
  <2> HIDE DEF S
  <2> QED BY <2>1, SeqWider
<1> HIDE DEF S
<1>3. x \o y \in Seq(S)
  BY <1>1, <1>2
<1>4. x \o y \in Seq(Range(x \o y))
  BY <1>3, SequenceOverItsRange
<1> QED BY <1>1, <1>2, <1>3, <1>4

\* References are relative, so expressions can be put one after the other.
LEMMA WellFormedConcat ==
  ASSUME NEW x, WellFormed(x), NEW y, WellFormed(y)
  PROVE  WellFormed(x \o y) /\ Len(x \o y) = Len(x) + Len(y) /\ Len(x) \in Nat /\ Len(y) \in Nat
<1>1. x \in Seq(Range(x)) /\ y \in Seq(Range(y))
  BY DEF WellFormed
<1>2. /\ x \o y \in Seq(Range(x \o y))
      /\ Len(x) \in Nat /\ Len(y) \in Nat /\ Len(x \o y) = Len(x) + Len(y)
      /\ \A i \in 1..Len(x \o y) :
            IF i <= Len(x) THEN (x \o y)[i] = x[i] ELSE (x \o y)[i] = y[i - Len(x)]
  BY <1>1, Concat
<1>3. ASSUME NEW i \in 1..Len(x \o y)
      PROVE  /\ (x \o y)[i].back \in Seq(1..(i - 1))
             /\ (x \o y)[i].op = "literal" => (x \o y)[i].value.type \in Scalar
  <2>1. CASE i <= Len(x)
    <3>1. i \in 1..Len(x) /\ (x \o y)[i] = x[i]
      BY <1>2, <2>1
    <3> QED BY <3>1 DEF WellFormed
  <2>2. CASE ~(i <= Len(x))
    <3> DEFINE k == i - Len(x)
    <3>1. k \in 1..Len(y) /\ (x \o y)[i] = y[k] /\ 1..(k - 1) \subseteq 1..(i - 1)
      BY <1>2, <2>2
    <3> HIDE DEF k
    <3>2. y[k].back \in Seq(1..(k - 1)) /\ (y[k].op = "literal" => y[k].value.type \in Scalar)
      BY <3>1 DEF WellFormed
    <3>3. y[k].back \in Seq(1..(i - 1))
      <4> DEFINE A == 1..(k - 1)
                 B == 1..(i - 1)
      <4>1. A \subseteq B /\ y[k].back \in Seq(A)
        BY <3>1, <3>2
      <4> HIDE DEF A, B
      <4>2. y[k].back \in Seq(B)
        BY <4>1, SeqWider
      <4> QED BY <4>2 DEF B
    <3> QED BY <3>1, <3>2, <3>3
  <2> QED BY <2>1, <2>2
<1> QED BY <1>2, <1>3 DEF WellFormed

\* A node may follow the arguments it refers to.
LEMMA WellFormedAppend ==
  ASSUME NEW x, WellFormed(x), NEW node, node.back \in Seq(1..Len(x)),
         node.op = "literal" => node.value.type \in Scalar
  PROVE  IsExpression(x \o <<node>>)
<1>1. x \in Seq(Range(x)) /\ <<node>> \in Seq(Range(<<node>>)) /\ Len(<<node>>) = 1
  <2>1. node \in Range(<<node>>)
    BY DEF Range
  <2> QED BY <2>1, Single DEF WellFormed
<1>2. /\ x \o <<node>> \in Seq(Range(x \o <<node>>))
      /\ Len(x) \in Nat /\ Len(x \o <<node>>) = Len(x) + 1
      /\ \A i \in 1..Len(x \o <<node>>) :
            IF i <= Len(x) THEN (x \o <<node>>)[i] = x[i]
                           ELSE (x \o <<node>>)[i] = <<node>>[i - Len(x)]
  BY <1>1, Concat
<1>3. ASSUME NEW i \in 1..Len(x \o <<node>>)
      PROVE  /\ (x \o <<node>>)[i].back \in Seq(1..(i - 1))
             /\ (x \o <<node>>)[i].op = "literal" => (x \o <<node>>)[i].value.type \in Scalar
  <2>1. CASE i <= Len(x)
    <3>1. i \in 1..Len(x) /\ (x \o <<node>>)[i] = x[i]
      BY <1>2, <2>1
    <3> QED BY <3>1 DEF WellFormed
  <2>2. CASE ~(i <= Len(x))
    <3>1. i = Len(x) + 1 /\ i - Len(x) = 1 /\ i - 1 = Len(x)
      BY <1>2, <2>2
    <3>2. (x \o <<node>>)[i] = <<node>>[1]
      BY <1>2, <2>2, <3>1
    <3>3. (x \o <<node>>)[i] = node
      BY <3>2
    <3> QED BY <3>1, <3>3
  <2> QED BY <2>1, <2>2
<1>4. x \o <<node>> # <<>>
  <2>1. Len(x \o <<node>>) # 0
    BY <1>2
  <2> QED BY <2>1
<1> QED BY <1>2, <1>3, <1>4 DEF IsExpression

\* A reference stays within the nodes before it.
LEMMA RefRange ==
  ASSUME NEW n \in Nat, NEW arg, NEW d, arg # <<>> => d \in 1..n
  PROVE  Ref(arg, d) \in Seq(1..n)
<1> DEFINE S == 1..n
<1>1. arg # <<>> => d \in S
  OBVIOUS
<1> HIDE DEF S
<1>2. Ref(arg, d) \in Seq(S)
  BY <1>1 DEF Ref
<1> QED BY <1>2 DEF S

\* An operation on expressions is an expression.
LEMMA WellFormedTree ==
  ASSUME NEW op, op # "literal", NEW value,
         NEW x, WellFormed(x), NEW y, WellFormed(y), NEW z, WellFormed(z)
  PROVE  IsExpression(Tree(op, value, x, y, z))
<1> DEFINE body == x \o y \o z
           a == Ref(x, Len(z) + Len(y) + 1)
           b == Ref(y, Len(z) + 1)
           c == Ref(z, 1)
           S == 1..Len(body)
<1>1. /\ WellFormed(body) /\ Len(body) = Len(x) + Len(y) + Len(z)
      /\ Len(x) \in Nat /\ Len(y) \in Nat /\ Len(z) \in Nat
  <2>1. WellFormed(x \o y) /\ Len(x \o y) = Len(x) + Len(y) /\ Len(x) \in Nat /\ Len(y) \in Nat
    BY WellFormedConcat
  <2>2. WellFormed((x \o y) \o z) /\ Len((x \o y) \o z) = Len(x \o y) + Len(z) /\ Len(z) \in Nat
    BY <2>1, WellFormedConcat
  <2> QED BY <2>1, <2>2
<1>2. (x # <<>> => Len(x) > 0) /\ (y # <<>> => Len(y) > 0) /\ (z # <<>> => Len(z) > 0)
  BY DEF WellFormed
<1>3. Len(body) \in Nat
  BY <1>1
<1>4. a \in Seq(S) /\ b \in Seq(S) /\ c \in Seq(S)
  <2>1. /\ x # <<>> => Len(z) + Len(y) + 1 \in S
        /\ y # <<>> => Len(z) + 1 \in S
        /\ z # <<>> => 1 \in S
    BY <1>1, <1>2
  <2> HIDE DEF body
  <2> QED BY <1>3, <2>1, RefRange
<1> HIDE DEF S, a, b, c
<1>5. a \o b \o c \in Seq(S)
  BY <1>4
<1> DEFINE node == Node(op, value, a \o b \o c)
<1>6. node.back = a \o b \o c /\ node.op = op
  BY DEF Node
<1>7. Tree(op, value, x, y, z) = body \o <<node>>
  BY DEF Tree, a, b, c
<1> HIDE DEF body, node
<1>8. IsExpression(body \o <<node>>)
  BY <1>1, <1>5, <1>6, WellFormedAppend DEF S
<1> QED BY <1>7, <1>8

\* What can be an argument of Tree.
LEMMA WellFormedArgument ==
  /\ WellFormed(<<>>)
  /\ \A e : IsExpression(e) => WellFormed(e)
<1>1. <<>> \in Seq(Range(<<>>)) /\ Len(<<>>) = 0
  OBVIOUS
<1>2. WellFormed(<<>>)
  BY <1>1 DEF WellFormed
<1> QED BY <1>2 DEF WellFormed, IsExpression

-----------------------------------------------------------------------------
\* The inductive invariant: drafts are expressions, only what validate_expression
\* accepts is published, and only published rule sets score.
EngineInv ==
    /\ IsExpression(draft)
    /\ status \in {"draft", "published", "refused"}
    /\ status = "published" => /\ validate_expression(draft) /\ validate_expression(Companion)
    /\ assessment # "none" => status = "published"

\* A draft grows into expressions only, and is not changed once published.
THEOREM EngineInvariant == Spec => []EngineInv
<1>1. Init => EngineInv
  BY RuleAssumption DEF Init, EngineInv
<1>2. EngineInv /\ [Next]_vars => EngineInv'
  <2> SUFFICES ASSUME EngineInv, [Next]_vars
               PROVE  EngineInv'
    OBVIOUS
  <2> USE DEF EngineInv
  <2>1. ASSUME Grow PROVE EngineInv'
    <3>1. PICK before, after \in {<<>>} \cup Filler :
             \/ \E op \in SUPPORTED_OPERATORS : draft' = Apply(op, before, draft, after)
             \/ draft' = ListOf(before, draft, after)
             \/ \E name \in DOMAIN Variables : draft' = Var(name, draft)
      BY <2>1 DEF Grow
    <3>2. WellFormed(before) /\ WellFormed(after) /\ WellFormed(draft) /\ WellFormed(<<>>)
      BY RuleAssumption, WellFormedArgument
    <3>3. "literal" \notin SUPPORTED_OPERATORS
      BY DEF SUPPORTED_OPERATORS, Ordering, Arithmetic, Connective
    <3>4. IsExpression(draft')
      <4>1. CASE \E op \in SUPPORTED_OPERATORS : draft' = Apply(op, before, draft, after)
        BY <3>2, <3>3, <4>1, WellFormedTree DEF Apply
      <4>2. CASE draft' = ListOf(before, draft, after)
        BY <3>2, <4>2, WellFormedTree DEF ListOf
      <4>3. CASE \E name \in DOMAIN Variables : draft' = Var(name, draft)
        BY <3>2, <4>3, WellFormedTree DEF Var
      <4> QED BY <3>1, <4>1, <4>2, <4>3
    <3> QED BY <2>1, <3>4 DEF Grow
  <2>2. ASSUME Publish PROVE EngineInv'
    <3>1. PICK t \in Thresholds :
             \/ parse_rule_set_definition(<<draft, Companion>>, t) /\ status' = "published"
             \/ status' = "refused"
      BY <2>2 DEF Publish
    <3>2. parse_rule_set_definition(<<draft, Companion>>, t) =>
             validate_expression(draft) /\ validate_expression(Companion)
      BY DEF parse_rule_set_definition
    <3>3. draft' = draft /\ assessment' = assessment /\ status = "draft"
      BY <2>2 DEF Publish
    <3> QED BY <3>1, <3>2, <3>3 DEF validate_expression
  <2>3. ASSUME ScoreTransaction PROVE EngineInv'
    BY <2>3 DEF ScoreTransaction, validate_expression
  <2>4. CASE UNCHANGED vars
    BY <2>4 DEF vars, validate_expression
  <2> QED BY <2>1, <2>2, <2>3, <2>4 DEF Next
<1> QED BY <1>1, <1>2, PTL DEF Spec

\* Type soundness of every draft the author can write, at any depth: an expression
\* that visit accepts evaluates, on every event, to a value of the type visit worked
\* out, or overflows in an addition, subtraction or multiplication.
THEOREM TypeSoundness == Spec => []TypeSound
<1>1. EngineInv => TypeSound
  BY RuleAssumption, ExpressionSound DEF EngineInv, TypeSound
<1> QED BY <1>1, EngineInvariant, PTL

\* A condition that validates raises nothing but an overflow.
LEMMA ConditionOutcome ==
  ASSUME NEW e, IsExpression(e), validate_expression(e), NEW ctx, IsContext(ctx)
  PROVE  Failed(evaluate(e, ctx)) => evaluate(e, ctx) = Overflow /\ Computes(e)
<1>1. visit(e) = BOOL /\ BOOL # Invalid /\ BOOL # ERROR
  BY KindsAreTypes DEF validate_expression
<1> QED BY <1>1, ExpressionSound DEF Failed

\* evaluate_rule_set reaches a verdict for conditions that validate, or one of them
\* overflows.
LEMMA RuleSetOutcome ==
  ASSUME NEW c, NEW d, IsExpression(c), IsExpression(d),
         validate_expression(c), validate_expression(d),
         NEW ctx, IsContext(ctx), NEW t
  PROVE  /\ evaluate_rule_set(<<c, d>>, t, ctx) \in {"REJECTED", "REVIEW", "APPROVED", "overflow"}
         /\ evaluate_rule_set(<<c, d>>, t, ctx) = "overflow" => Computes(c) \/ Computes(d)
<1> DEFINE vs == [i \in DOMAIN <<c, d>> |-> evaluate(<<c, d>>[i], ctx)]
<1>1. DOMAIN vs = 1..2 /\ vs[1] = evaluate(c, ctx) /\ vs[2] = evaluate(d, ctx)
  OBVIOUS
<1>2. \A i \in 1..2 : Failed(vs[i]) => vs[i] = Overflow /\ (Computes(c) \/ Computes(d))
  BY <1>1, ConditionOutcome
<1>3. Overflow.key[2] = "overflow"
  BY DEF Overflow, Value
<1>4. CASE Failures(vs) = {}
  <2>1. PICK r : evaluate_rule_set(<<c, d>>, t, ctx) = verdict_for(t, r)
    BY <1>4 DEF evaluate_rule_set
  <2> QED BY <2>1 DEF verdict_for
<1>5. CASE Failures(vs) # {}
  <2>1. evaluate_rule_set(<<c, d>>, t, ctx) = vs[Min(Failures(vs))].key[2]
    BY <1>5 DEF evaluate_rule_set
  <2> HIDE DEF vs
  <2>2. Failures(vs) \in SUBSET Nat
    BY <1>1 DEF Failures
  <2>3. Min(Failures(vs)) \in Failures(vs)
    BY <1>5, <2>2, MinIn
  <2>4. PICK i \in 1..2 : i = Min(Failures(vs)) /\ Failed(vs[i])
    BY <1>1, <2>3 DEF Failures
  <2> QED BY <1>2, <1>3, <2>1, <2>4
<1> QED BY <1>4, <1>5

\* A published rule set never fails a live transaction with a type error, a missing
\* variable or a wrong number of arguments; only Decimal arithmetic can raise.
THEOREM PublishedRulesScore == Spec => []ScoringNeverFails
<1>1. Init => ScoringNeverFails
  BY DEF Init, ScoringNeverFails
<1>2. EngineInv /\ ScoringNeverFails /\ [Next]_vars => ScoringNeverFails'
  <2> SUFFICES ASSUME EngineInv, ScoringNeverFails, [Next]_vars
               PROVE  ScoringNeverFails'
    OBVIOUS
  <2>1. ASSUME Grow \/ Publish PROVE ScoringNeverFails'
    <3>1. assessment = "none" /\ assessment' = "none"
      BY <2>1 DEF Grow, Publish, EngineInv
    <3> QED BY <3>1 DEF ScoringNeverFails
  <2>2. ASSUME ScoreTransaction PROVE ScoringNeverFails'
    <3>1. PICK ctx \in Context : assessment' = evaluate_rule_set(<<draft, Companion>>, thresholds, ctx)
      BY <2>2 DEF ScoreTransaction
    <3>2. /\ IsExpression(draft) /\ IsExpression(Companion) /\ IsContext(ctx)
          /\ validate_expression(draft) /\ validate_expression(Companion)
      BY <2>2, RuleAssumption DEF ScoreTransaction, EngineInv
    <3>3. draft' = draft
      BY <2>2 DEF ScoreTransaction
    <3>4. /\ assessment' \in {"REJECTED", "REVIEW", "APPROVED", "overflow"}
          /\ assessment' = "overflow" => Computes(draft) \/ Computes(Companion)
      BY <3>1, <3>2, RuleSetOutcome
    <3> QED BY <3>3, <3>4 DEF ScoringNeverFails, Computes
  <2>3. CASE UNCHANGED vars
    BY <2>3 DEF vars, ScoringNeverFails, Computes
  <2> QED BY <2>1, <2>2, <2>3 DEF Next
<1> QED BY <1>1, <1>2, EngineInvariant, PTL DEF Spec

\* What the dry run of parse_rule_set_definition refuses of rules that passed the
\* static check is an overflow: no type error is left for it to find.
THEOREM DryRunAddsOverflowOnly ==
  ASSUME NEW c, NEW d, IsExpression(c), IsExpression(d),
         validate_expression(c), validate_expression(d), NEW t
  PROVE  evaluate_rule_set(<<c, d>>, t, DryRun) \in Raises =>
            /\ evaluate_rule_set(<<c, d>>, t, DryRun) = "overflow"
            /\ Computes(c) \/ Computes(d)
<1>1. IsContext(DryRun)
  BY RuleAssumption
<1> QED BY <1>1, RuleSetOutcome DEF Raises
=============================================================================
