----------------------------- MODULE MCGraphRun -----------------------------
(* Families of graphs for GraphRun.  Every family varies one concern and     *)
(* takes all edge sets of a small shape; most of the graphs are rejected.    *)
EXTENDS GraphRun

Open == [object |-> TRUE, closed |-> FALSE, required |-> {}, type |-> <<>>]
Literal(v) == [scope |-> "literal", node |-> "", field |-> "", rest |-> "", value |-> v]
Ref(scope, x, f) == [scope |-> scope, node |-> x, field |-> f, rest |-> "", value |-> None]
Below(ref, k) == [ref EXCEPT !.rest = k]
Absent == [Ref("none", "", "") EXCEPT !.value = <<"null", 0>>]
Compare(l, op, r) == [shape |-> "compare", op |-> op, left |-> l, right |-> r, clauses |-> <<>>]
Junction(shape, s) == [Compare(Absent, "", Absent) EXCEPT !.shape = shape, !.clauses = s]
Flag == Compare(Ref("input", "", "f"), "is_not_empty", Absent)

Node(x, k) ==
    [id |-> x, kind |-> k, config |-> "ok", command |-> Literal(<<"str", 1>>), mapping |-> <<>>, extra |-> {},
     hidden |-> {}, schema |-> Open, out |-> Open, expr |-> IF k = "condition" THEN <<Flag>> ELSE <<>>, retry |-> -1, policy |-> 0]

\* The Data Input declares one field.
Object(closed, required, f, t) == [object |-> TRUE, closed |-> closed, required |-> required, type |-> [x \in {f} |-> t]]
In1(t) == [Node("i", "input") EXCEPT !.out = Object(TRUE, {"f"}, "f", t)]

Variables == [v |-> [type |-> "string", default |-> <<"str", 1>>], w |-> [type |-> "string", default |-> <<"int", 1>>]]
Graph(nodes, E) == [nodes |-> nodes, edges |-> E, variables |-> Variables]

\* The pairs of nodes in a fixed order, and the edges of a shape in that order.
Order == <<"i", "x", "y", "z", "m", "o">>
Pairs == [k \in 1 .. 36 |-> <<Order[1 + ((k - 1) \div 6)], Order[1 + ((k - 1) % 6)]>>]

\* The edges of a Condition take true and false in turn, the third has no handle.
Handle(nodes, s, i) ==
    IF \E n \in Range(nodes) : n.id = s[i][1] /\ n.kind = "condition"
    THEN <<"true", "false", "none">>[1 + (Cardinality({j \in 1 .. i - 1 : s[j][1] = s[i][1]}) % 3)]
    ELSE "none"
Edges(nodes, P) ==
    LET s == SelectSeq(Pairs, LAMBDA p : p \in P)
    IN  [i \in DOMAIN s |-> [id |-> i, src |-> s[i][1], dst |-> s[i][2], handle |-> Handle(nodes, s, i)]]
Shape(nodes, P) == Graph(nodes, Edges(nodes, P))

\* All digraphs on four nodes, with self-connections on one of them.
Pairs4 == {p \in {"i", "x", "y", "o"} \X {"i", "x", "y", "o"} : p[1] # p[2] \/ p[1] = "x"} \ {<<"o", "i">>, <<"o", "y">>}
Digraphs == {Shape(<<In1("string"), Node("x", k), Node("y", "agent"), Node("o", "output")>>, P) :
                k \in {"agent", "condition"}, P \in {P \in SUBSET Pairs4 : Cardinality(P) <= 5}}

\* All forward graphs on five nodes that start with i -> x.
Rank == [i |-> 1, x |-> 2, y |-> 3, z |-> 4, o |-> 5]
Pairs5 == {p \in {"i", "x", "y", "z"} \X {"x", "y", "z", "o"} : Rank[p[1]] < Rank[p[2]]} \ {<<"i", "o">>}
Forward == {P \in SUBSET Pairs5 : <<"i", "x">> \in P /\ Cardinality(P) <= 7}
Joins ==
    {Shape(<<In1("string"), Node("x", k[1]), Node("y", k[2]), Node("z", k[3]), Node("o", "output")>>, P) :
        k \in {<<"parallel", "agent", "merge">>, <<"parallel", "condition", "merge">>, <<"condition", "agent", "agent">>,
               <<"condition", "approval", "merge">>, <<"condition", "parallel", "merge">>, <<"parallel", "output", "merge">>},
        P \in Forward}

\* A reference from z or o to x, y or z, in a field that is checked or not.
RefNode(k, place, target) ==
    LET r == Ref("node", target, "g") IN
    CASE place = "mapping" -> [k EXCEPT !.mapping = [f \in {"f"} |-> r]]
      [] place = "extra" -> [k EXCEPT !.extra = {r}]
      [] OTHER -> [k EXCEPT !.hidden = {r}]
Out1 == Object(TRUE, {}, "g", "string")
Refs ==
    {Shape(<<In1("string"), [Node("x", k[1]) EXCEPT !.out = Out1], [Node("y", k[2]) EXCEPT !.out = Out1],
             RefNode([Node("z", k[3]) EXCEPT !.out = Out1], t[1], t[2]), RefNode(Node("o", "output"), t[3], t[4])>>, P) :
        k \in {<<"condition", "agent", "tool">>, <<"condition", "agent", "codex">>, <<"condition", "agent", "agent">>,
               <<"parallel", "agent", "agent">>, <<"agent", "wait", "tool">>},
        t \in {<<"mapping", "y", "mapping", "x">>, <<"hidden", "y", "extra", "z">>, <<"extra", "y", "mapping", "y">>},
        P \in {P \in Forward : <<"z", "o">> \in P /\ Cardinality(P) <= 5}}

Line == {<<"i", "x">>, <<"x", "y">>, <<"y", "z">>, <<"z", "o">>}
Types == {"integer", "number", "string", "boolean", "array", "object", "null"}

\* A literal or the output of x, mapped to an input of y.
Mappings ==
    {Shape(<<In1("string"),
             [Node("x", "agent") EXCEPT !.out = Object(c, {"g"}, "g", s)],
             [Node("y", "agent") EXCEPT !.mapping = [f \in {n} |-> v], !.schema = Object(c, {"f"}, "f", t)],
             Node("z", "merge"), Node("o", "output")>>,
           {<<"i", "x">>, <<"x", "y">>, <<"y", "z">>, <<"x", "z">>, <<"z", "o">>}) :
        c \in BOOLEAN, s \in {"integer", "number", "boolean"}, t \in Types, n \in {"f", "h"},
        v \in {Literal(<<"int", 1>>), Literal(<<"frac", 0>>), Literal(<<"bool", 1>>),
               Ref("node", "x", "g"), Ref("node", "x", "h"), Ref("input", "", "f")}}

\* Sources whose type is declared and not enforced, schemas that are not enforced.
Hole(b, c, k, g, t, v) ==
    Shape(<<[In1("object") EXCEPT !.out.object = b],
            [Node("x", k) EXCEPT !.out = Object(TRUE, {g}, g, "object")],
            [Node("y", "agent") EXCEPT !.mapping = [f \in {"f"} |-> v], !.schema = [Object(TRUE, {"f"}, "f", t) EXCEPT !.object = c]],
            Node("o", "output")>>,
          {<<"i", "x">>, <<"x", "y">>, <<"y", "o">>})
Holes ==
    {Hole(b[1], b[2], k, "g", t, v) :
        b \in (BOOLEAN \X BOOLEAN) \ {<<FALSE, FALSE>>}, k \in {"agent", "codex"}, t \in {"object", "string"},
        v \in {Ref("variables", "", "v"), Ref("variables", "", "w"), Below(Ref("variables", "", "v"), "k"),
               Ref("input", "", "f"), Below(Ref("input", "", "f"), "k"), Ref("run", "", "id"),
               Ref("node", "x", "g"), Below(Ref("node", "x", "g"), "k")}} \cup
    {Hole(TRUE, TRUE, "agent", g, "object", Ref("node", "x", g)) : g \in {"token", "trace"}}

\* Commands of a Runner node that resolve to no text, beside a parked node.
Commands ==
    {Shape(<<In1(t), Node("x", "parallel"), [Node("y", k[1]) EXCEPT !.command = c], Node("z", k[2]),
             Node("m", "merge"), Node("o", "output")>>,
           {<<"i", "x">>, <<"x", "y">>, <<"x", "z">>, <<"y", "m">>, <<"z", "m">>, <<"m", "o">>}) :
        t \in {"integer", "string"}, k \in {"tool", "codex"} \X {"approval", "wait", "agent"},
        c \in {Literal(<<"str", 0>>), Ref("input", "", "f"), Ref("node", "z", "g"), Below(Ref("input", "", "f"), "k")}}

\* Expressions over the input and a literal.
Operand(t) == Compare(Ref("input", "", "f"), t, Literal(<<"int", 1>>))
Expressions ==
    {<<Operand(op)>> : op \in ConditionOperator} \cup
    {<<Junction("and", <<2, 3>>), Operand(a), Operand(b)>> : a \in {"==", "<"}, b \in {"contains", "is_not_empty"}} \cup
    {<<Junction("or", <<2, 3>>), Operand(a), Junction("and", <<4>>), Operand(b)>> :
        a \in {"is_empty", "<"}, b \in {">=", "not_contains"}} \cup
    {<<Junction("and", <<>>)>>, <<Operand("~")>>, <<Compare(Absent, "==", Absent)>>, <<Junction("both", <<2>>), Flag>>, <<>>}
Conditions ==
    {Shape(<<In1(t), [Node("x", "condition") EXCEPT !.expr = e], Node("y", "transform"), Node("o", "output")>>,
           {<<"i", "x">>, <<"x", "y">>, <<"x", "o">>, <<"y", "o">>}) : t \in Types, e \in Expressions}

\* Retries, other scopes, bad configurations, and documents the contract refuses.
Chain(n) == Shape(<<In1("string"), n, Node("o", "output")>>, {<<"i", "x">>, <<"x", "o">>})
Others ==
    {Chain([Node("x", k) EXCEPT !.retry = r, !.policy = 1]) : k \in {"agent", "service", "tool"}, r \in {-1, 0, 1, 2}} \cup
    {Chain([Node("x", "agent") EXCEPT !.extra = {Ref(s, "", f)}]) : s \in {"variables", "input", "run"}, f \in {"v", "f", "id"}} \cup
    {Chain([Node("x", k) EXCEPT !.config = "bad"]) : k \in {"wait", "form", "tool", "transform", "router"}} \cup
    {Chain(Node("x", k)) : k \in {"wait", "form", "transform", "router"}} \cup
    {Chain([Node("x", "agent") EXCEPT !.extra = {Ref("node", y, "g")}]) : y \in {"x", "i", "q"}} \cup
    {Graph(<<>>, <<>>), Graph(<<In1("string"), In1("string")>>, <<>>),
     Graph(<<In1("string")>>, <<[id |-> 1, src |-> "i", dst |-> "q", handle |-> "none"]>>)} \cup
    {[Chain(Node("x", "agent")) EXCEPT !.edges = Append(@, [id |-> 9, src |-> "i", dst |-> "x", handle |-> "none"])]}

\* A Parallel whose two branches choose between two Merges, and an Output that the
\* Data Input also feeds, or does not.
Edge(k, x, y, h) == [id |-> k, src |-> x, dst |-> y, handle |-> h]
Detours ==
    {Graph(<<In1(t), Node("p", "parallel"), Node("x", "condition"), Node("y", "condition"), Node("m", "merge"),
             Node("n", "merge"), Node("o", "output"), Node("q", "output")>>,
           <<Edge(1, "i", "p", "none"), Edge(2, "p", "x", "none"), Edge(3, "p", "y", "none"),
             Edge(4, "x", "m", "true"), Edge(5, "x", "n", "false"), Edge(6, "y", "m", "true"), Edge(7, "y", "n", "false"),
             Edge(8, "m", "o", "none"), Edge(9, "n", "q", "none")>> \o s) :
        t \in {"string", "null"}, s \in {<<>>, <<Edge(10, "i", "o", "none")>>}}

MCGraphs == Holes \cup Commands \cup Detours \cup Digraphs \cup Joins \cup Refs \cup Mappings \cup Conditions \cup Others
=============================================================================
