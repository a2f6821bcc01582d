----------------------------- MODULE RuleEvaluation -----------------------------
(***************************************************************************)
(* What a playbook rule does with its condition once it is parsed: the     *)
(* boot checks (LoadRules of playbook.go, NewEngine of engine.go, and      *)
(* validateRuleFields of schema.go) arm the rule, leave it dormant or      *)
(* refuse to start, and the evaluator of expr.go decides for each event,   *)
(* whose payload may lack fields, whether an armed rule fires.             *)
(*                                                                         *)
(* A parsed condition is the sequence of the parser's nodes, each after    *)
(* its operands and the root last.  Numbers are integers and strings are   *)
(* left out: the operators tell apart numbers, booleans and the rest       *)
(* (objects, lists).  A payload maps the path of each leaf to its value.   *)
(***************************************************************************)
EXTENDS Integers, Sequences

CONSTANTS
    Names,      \* identifiers, "true" and "false" among them
    Declared,   \* the paths of the trigger's schema (events.DeclaredFields)
    Payloads,   \* the payloads an event may have
    Policies,   \* the rest of the rule as it may be written, [complete,
                \* trigger, tier, action, enabled]
    Registered, \* the actions of the registry
    AutoAllowed \* those on the allow-list of the auto tier

Num(n) == [num |-> n]
Bool(b) == [bool |-> b]
Object == [object |-> "map"]
Refusal(why) == [error |-> why]

IsNum(v) == "num" \in DOMAIN v
IsBool(v) == "bool" \in DOMAIN v
IsError(v) == "error" \in DOMAIN v

Scalars == [num : Int] \union [bool : BOOLEAN]

IsPrefixOf(short, long) ==
    Len(short) < Len(long) /\ short = SubSeq(long, 1, Len(short))

\* A leaf of a payload has no fields of its own; it may be a list (drift.features).
ASSUME RuleAssumption ==
    /\ AutoAllowed \subseteq Registered
    /\ \A payload \in Payloads :
          /\ \A p, q \in DOMAIN payload : ~IsPrefixOf(p, q)
          /\ \A leaf \in DOMAIN payload : payload[leaf] \in Scalars \union {Object}

VARIABLES
    cond,   \* the rule's compiled condition, NoTree without one
    rule,   \* "written", then "armed", "dormant" or "refused" at boot
    event,  \* the payload of the last event handled
    fired   \* whether the rule fired on it

ruleVars == <<cond, rule, event, fired>>

-----------------------------------------------------------------------------
(* Trees.  The right operand of a node ends just before the node, the left   *)
(* one before the right one, which is size nodes long.                       *)

Literal(v) == << [kind |-> "literal", value |-> v] >>
Path(segs) == << [kind |-> "path", path |-> segs] >>
Not(x) == Append(x, [kind |-> "not"])
Binary(op, l, r) == l \o r \o << [kind |-> "binary", op |-> op, size |-> Len(r)] >>
NoTree == <<>>

Logical == {"&&", "||"}
Operators == Logical \union {"==", "!=", ">", ">=", "<", "<=", "+", "-", "*", "/"}

Nodes == [kind : {"literal"}, value : Scalars] \union [kind : {"path"}, path : Seq(Names)]
           \union [kind : {"not"}] \union [kind : {"binary"}, op : Operators, size : Nat \ {0}]

Right(n) == n - 1
Left(tree, n) == n - 1 - tree[n].size

\* What Parse returns.
IsTree(tree) ==
    /\ tree \in Seq(Nodes) /\ tree # NoTree
    /\ \A n \in DOMAIN tree :
          /\ tree[n].kind = "not" => Right(n) \in DOMAIN tree
          /\ tree[n].kind = "binary" => Left(tree, n) \in DOMAIN tree

-----------------------------------------------------------------------------
(* eval *)

\* Mutant: a field that is missing reads as false.
LookupFalse(path, payload) ==
    IF path \in DOMAIN payload THEN payload[path] ELSE Bool(FALSE)

\* pathNode.eval: a path may end at a leaf, at an object or nowhere.
Lookup(path, payload) ==
    IF path \in DOMAIN payload THEN payload[path]
    ELSE IF \E leaf \in DOMAIN payload : IsPrefixOf(path, leaf) THEN Object
    ELSE IF \E leaf \in DOMAIN payload : IsPrefixOf(leaf, path) THEN Refusal("not an object")
    ELSE Refusal("missing")

Equal(l, r) == l = r /\ l # Object

\* Division rounds here; no condition of the model-checked size divides unevenly.
Quotient(n, d) == IF d < 0 THEN (-n) \div (-d) ELSE n \div d

Computed(op, m, n) ==
    CASE op = ">" -> Bool(m > n)
      [] op = ">=" -> Bool(m >= n)
      [] op = "<" -> Bool(m < n)
      [] op = "<=" -> Bool(m <= n)
      [] op = "+" -> Num(m + n)
      [] op = "-" -> Num(m - n)
      [] op = "*" -> Num(m * n)
      [] op = "/" -> Num(Quotient(m, n))

ApplyOp(op, l, r) ==
    IF op \in {"==", "!="} THEN Bool(Equal(l, r) = (op = "=="))
    ELSE IF ~(IsNum(l) /\ IsNum(r)) THEN Refusal("type")
    ELSE IF op = "/" /\ r.num = 0 THEN Refusal("zero")
    ELSE Computed(op, l.num, r.num)

Negated(v) ==
    IF IsError(v) THEN v ELSE IF IsBool(v) THEN Bool(~v.bool) ELSE Refusal("type")

\* && and || look at the right operand only when they need it.
Decides(op, l) == (op = "&&" /\ l = Bool(FALSE)) \/ (op = "||" /\ l = Bool(TRUE))

\* binNode.eval
Combined(op, l, r) ==
    IF IsError(l) THEN l
    ELSE IF op \in Logical
         THEN IF ~IsBool(l) THEN Refusal("type")
              ELSE IF Decides(op, l) THEN l
              ELSE IF IsError(r) \/ IsBool(r) THEN r ELSE Refusal("type")
         ELSE IF IsError(r) THEN r ELSE ApplyOp(op, l, r)

\* The value of node n, given those of the nodes before it.
NodeValue(tree, n, payload, value) ==
    LET node == tree[n] IN
    CASE node.kind = "literal" -> node.value
      [] node.kind = "path" -> Lookup(node.path, payload)
      [] node.kind = "not" -> Negated(value[Right(n)])
      [] node.kind = "binary" -> Combined(node.op, value[Left(tree, n)], value[Right(n)])

Values(tree, payload) ==
    LET value[n \in DOMAIN tree] == NodeValue(tree, n, payload, value) IN value

Eval(tree, payload) == Values(tree, payload)[Len(tree)]

\* Handle: the rule fires on the boolean true and on nothing else.
Fires(tree, payload) == Eval(tree, payload) = Bool(TRUE)

-----------------------------------------------------------------------------
(* validateRuleFields *)

Paths(tree) == {tree[n].path : n \in {m \in DOMAIN tree : tree[m].kind = "path"}}

\* Mutant: one declared field is enough.
KnowsSomeField(tree) == Paths(tree) # {} => Paths(tree) \intersect Declared # {}

KnowsFields(tree) == Paths(tree) \subseteq Declared

-----------------------------------------------------------------------------
EvaluationInit == cond = NoTree /\ rule = "written" /\ event = <<>> /\ fired = FALSE

\* LoadRules: an empty tier means approval, the auto tier is for the actions
\* of the allow-list. A rule without "enabled" is a disabled one.
Loads(policy, parsed) ==
    /\ policy.complete /\ policy.tier \in {"", "approval_required", "auto"}
    /\ parsed # NoTree
    /\ policy.tier = "auto" => policy.action \in AutoAllowed

\* Mutant: a dormant rule is taken as it is.
ArmsDormantUnchecked(policy, parsed) ==
    policy.enabled => /\ policy.trigger = "declared" /\ KnowsFields(parsed)
                      /\ policy.action \in Registered

\* NewEngine: the fields of a dormant rule are checked too, its action is not.
Arms(policy, parsed) ==
    /\ policy.trigger = "declared" /\ KnowsFields(parsed)
    /\ policy.enabled => policy.action \in Registered

\* Boot with what Parse makes of the condition, NoTree for a syntax error.
Boot(policy, parsed) ==
    /\ rule = "written"
    /\ cond' = parsed
    /\ rule' = IF ~(Loads(policy, parsed) /\ Arms(policy, parsed)) THEN "refused"
               ELSE IF policy.enabled THEN "armed" ELSE "dormant"
    /\ UNCHANGED <<event, fired>>

\* An event of the rule's trigger.
Handle(payload) ==
    /\ rule = "armed"
    /\ event' = payload
    /\ fired' = Fires(cond, payload)
    /\ UNCHANGED <<cond, rule>>

EvaluationNext ==
    \/ \E policy \in Policies, parsed \in {NoTree} \union {tree \in Seq(Nodes) : IsTree(tree)} :
          Boot(policy, parsed)
    \/ \E payload \in Payloads : Handle(payload)

\* For every parser that returns trees.
EvaluationSpec == EvaluationInit /\ [][EvaluationNext]_ruleVars

-----------------------------------------------------------------------------
\* A field that an event lacks never makes a rule fire: what fires on a
\* payload fires on every payload that carries more (pathNode.eval and the
\* operators above it).
MissingFieldNeverFires ==
    fired => \A fuller \in Payloads :
                 (DOMAIN event \subseteq DOMAIN fuller /\ \A f \in DOMAIN event : fuller[f] = event[f])
                     => Fires(cond, fuller)

\* A rule that passed boot, dormant ones included, does not refuse for want of
\* a field when the event carries what its type declares, so that enabling it
\* is safe (validateRuleFields, against eval).
BootCatchesTypos ==
    rule \in {"armed", "dormant"} => \A payload \in Payloads :
        Declared \subseteq DOMAIN payload =>
            Eval(cond, payload) \notin {Refusal("missing"), Refusal("not an object")}
===============================================================================
