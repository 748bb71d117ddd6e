---------------------------- MODULE MCRuleEngine ----------------------------
(***************************************************************************)
(* Small instances of RuleEngine: a required and an optional variable of   *)
(* the types that matter, and every event over them.                       *)
(***************************************************************************)
EXTENDS RuleEngine, TLC

\* amount and category are required; the other three stand for channel, country
\* and the enrichment fields.
MCVariables ==
    [amount   |-> [type |-> NUMBER, required |-> TRUE],
     category |-> [type |-> TEXT,   required |-> TRUE],
     channel  |-> [type |-> TEXT,   required |-> FALSE],
     distance |-> [type |-> NUMBER, required |-> FALSE],
     merchant |-> [type |-> BOOL,   required |-> FALSE]]

MCSubstring == {<<"POS", "POS_ONLINE">>}

\* Every event: amount and category present, any of the others missing.
Sent == [amount   |-> {Number(0), Number(3)},
         category |-> {Text("ATM")},
         channel  |-> {Text("POS_ONLINE")},
         distance |-> {Number(1)},
         merchant |-> {Boolean(TRUE), Boolean(FALSE)}]
Events(names) == {ctx \in [names -> UNION Range(Sent)] : \A n \in names : ctx[n] \in Sent[n]}
MCContext == UNION {Events({"amount", "category"} \cup opt) :
                       opt \in SUBSET {"channel", "distance", "merchant"}}

MCDryRun == [amount |-> Number(2), category |-> Text("POS")]

One == Literal(Number(1))
Yes == Literal(Boolean(TRUE))
Pos == Literal(Text("POS"))

Pair(x, y) == ListOf(x, y, <<>>)
Not(e) == Apply("!", e, <<>>, <<>>)

MCLeaf ==
    {One, Yes, Pos, Literal(Null),
     ListOf(<<>>, <<>>, <<>>), Pair(Pos, Literal(Text("ATM"))), Pair(One, Pos),
     Var("amount", <<>>), Var("category", <<>>), Var("unknown", <<>>),
     Var("channel", <<>>), Var("channel", Pos), Var("channel", One),
     Var("distance", One), Var("merchant", Yes), Var("merchant", <<>>),
     Not(Not(Not(Yes)))}

MCCompanion == Apply(">", Var("amount", <<>>), One, <<>>)
MCFiller == {One, MCCompanion, Var("channel", Pos), ListOf(Pos, <<>>, <<>>)}
MCScore == <<2, 1>>
MCThresholds == {[review |-> 1, reject |-> 3], [review |-> 3, reject |-> 2]}
=============================================================================
