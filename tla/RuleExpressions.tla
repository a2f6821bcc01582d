---------------------------- MODULE RuleExpressions ----------------------------
(***************************************************************************)
(* The parser of the rules' conditions in api/internal/playbook/expr.go,   *)
(* before the boot and the evaluation of RuleEvaluation: a policy author   *)
(* writes a condition token by token, and the server boots with it.        *)
(*                                                                         *)
(* A condition is the sequence of tokens that lex returns, strings left    *)
(* out.                                                                    *)
(***************************************************************************)
EXTENDS RuleEvaluation, FiniteSets

CONSTANTS
    Tokens,     \* the tokens an author may write, Names among them
    Digits,     \* those that are numbers: token |-> value
    MaxTokens   \* bound on the length of a condition

ASSUME TokenAssumption ==
    /\ Names \subseteq Tokens /\ DOMAIN Digits \subseteq Tokens \ Names
    /\ MaxTokens \in Nat

VARIABLE condition  \* the tokens of the rule's condition

vars == <<condition, ruleVars>>

Parsed(tree, at) == [ok |-> TRUE, tree |-> tree, at |-> at]
Failed(at) == [ok |-> FALSE, at |-> at]

-----------------------------------------------------------------------------
(* Parse: recursive descent, the next token at position at. *)

EOF == "end of condition"
Token(toks, at) == IF at <= Len(toks) THEN toks[at] ELSE EOF

\* Mutant: parseAnd never finds its operator.
TiersWithoutAnd ==
    << {"||"}, {}, {"==", "!=", ">", ">=", "<", "<="}, {"+", "-"}, {"*", "/"} >>

\* The operators of parseOr, parseAnd, parseCmp, parseAdd and parseMul.
Tiers == << {"||"}, {"&&"}, {"==", "!=", ">", ">=", "<", "<="}, {"+", "-"}, {"*", "/"} >>
CmpTier == 3

RECURSIVE PathFrom(_, _, _)
PathFrom(toks, segs, at) ==
    IF Token(toks, at) # "." THEN Parsed(Path(segs), at)
    ELSE IF Token(toks, at + 1) \in Names
         THEN PathFrom(toks, Append(segs, Token(toks, at + 1)), at + 2)
         ELSE Failed(at + 1)

RECURSIVE ParseTier(_, _, _), Chain(_, _, _), ParseUnary(_, _), ParsePrimary(_, _)

ParsePrimary(toks, at) ==
    LET t == Token(toks, at)
    IN CASE t = "(" ->
              LET inner == ParseTier(toks, 1, at + 1)
              IN IF inner.ok
                 THEN IF Token(toks, inner.at) = ")" THEN Parsed(inner.tree, inner.at + 1)
                      ELSE Failed(inner.at)
                 ELSE inner
         [] t \in {"true", "false"} -> Parsed(Literal(Bool(t = "true")), at + 1)
         [] t \in Names \ {"true", "false"} -> PathFrom(toks, <<t>>, at + 1)
         [] t \in DOMAIN Digits -> Parsed(Literal(Num(Digits[t])), at + 1)
         [] OTHER -> Failed(at)

ParseUnary(toks, at) ==
    IF Token(toks, at) # "!" THEN ParsePrimary(toks, at)
    ELSE LET operand == ParseUnary(toks, at + 1)
         IN IF operand.ok THEN Parsed(Not(operand.tree), operand.at) ELSE operand

ParseTier(toks, k, at) ==
    IF k > Len(Tiers) THEN ParseUnary(toks, at)
    ELSE Chain(toks, k, ParseTier(toks, k + 1, at))

\* The loop of a tier: operators associate to the left, and a comparison
\* has no second operator.
Chain(toks, k, left) ==
    IF ~left.ok \/ Token(toks, left.at) \notin Tiers[k] THEN left
    ELSE LET right == ParseTier(toks, k + 1, left.at + 1)
         IN IF ~right.ok THEN right
            ELSE LET both == Parsed(Binary(toks[left.at], left.tree, right.tree), right.at)
                 IN IF k = CmpTier THEN both ELSE Chain(toks, k, both)

\* Mutant: tokens after the expression are ignored.
ParseIgnoringRest(toks) == ParseTier(toks, 1, 1)

Parse(toks) ==
    LET expr == ParseTier(toks, 1, 1)
    IN IF expr.ok /\ Token(toks, expr.at) # EOF THEN Failed(expr.at) ELSE expr

-----------------------------------------------------------------------------
(* The grammar in the comment at the head of expr.go, as the set of trees it *)
(* gives to the tokens from i to j: every way to split them is tried.        *)

Grammar ==
    [or |-> [ops |-> {"||"}, operand |-> "and", repeats |-> TRUE],
     and |-> [ops |-> {"&&"}, operand |-> "cmp", repeats |-> TRUE],
     cmp |-> [ops |-> {"==", "!=", ">", ">=", "<", "<="}, operand |-> "add", repeats |-> FALSE],
     add |-> [ops |-> {"+", "-"}, operand |-> "mul", repeats |-> TRUE],
     mul |-> [ops |-> {"*", "/"}, operand |-> "unary", repeats |-> TRUE]]

\* "true" and "false" are literals, so no path begins with them.
IsPath(toks, i, j) ==
    /\ (j - i) % 2 = 0 /\ toks[i] \notin {"true", "false"}
    /\ \A n \in i..j : IF (n - i) % 2 = 0 THEN toks[n] \in Names ELSE toks[n] = "."

Leaves(toks, i, j) ==
    {Literal(Bool(t = "true")) : t \in {u \in {"true", "false"} : i = j /\ u = toks[i]}}
      \union {Literal(Num(Digits[t])) : t \in {u \in DOMAIN Digits : i = j /\ u = toks[i]}}
      \union {Path(segs) : segs \in IF IsPath(toks, i, j)
                                  THEN {[n \in 1..((j - i) \div 2 + 1) |-> toks[i + 2 * (n - 1)]]}
                                  ELSE {}}

RECURSIVE Trees(_, _, _, _)
Trees(symbol, toks, i, j) ==
    IF i > j THEN {}
    ELSE IF symbol = "unary"
    THEN Leaves(toks, i, j)
           \union (IF toks[i] = "!" THEN {Not(x) : x \in Trees("unary", toks, i + 1, j)} ELSE {})
           \union (IF toks[i] = "(" /\ toks[j] = ")" THEN Trees("or", toks, i + 1, j - 1) ELSE {})
    ELSE LET p == Grammar[symbol]
         IN Trees(p.operand, toks, i, j)
              \union UNION {{Binary(toks[m], l, r) :
                                l \in Trees(IF p.repeats THEN symbol ELSE p.operand, toks, i, m - 1),
                                r \in Trees(p.operand, toks, m + 1, j)} :
                            m \in {n \in i..j : toks[n] \in p.ops}}

-----------------------------------------------------------------------------
Init == condition = <<>> /\ EvaluationInit

\* What the author has written begins some sentence of the grammar: an operand
\* and the missing parentheses complete it, if anything does.
Opened == {n \in DOMAIN condition : condition[n] = "("}
Closed == {n \in DOMAIN condition : condition[n] = ")"}
Closers == [n \in 1..(Cardinality(Opened) - Cardinality(Closed)) |-> ")"]

Completable ==
    \E operand \in {<<>>} \union {<<name>> : name \in Names} :
        LET whole == condition \o operand \o Closers
        IN Trees("or", whole, 1, Len(whole)) # {}

\* The parser has stopped at a token, and no sentence begins like this: where
\* the two disagree the author writes on, whichever of them is at fault.
Hopeless ==
    LET result == Parse(condition)
    IN ~result.ok /\ result.at <= Len(condition) /\ ~Completable

Write ==
    /\ rule = "written" /\ Len(condition) < MaxTokens /\ ~Hopeless
    /\ \E token \in Tokens : condition' = Append(condition, token)
    /\ UNCHANGED ruleVars

Compiled == LET result == Parse(condition) IN IF result.ok THEN result.tree ELSE NoTree

Next ==
    \/ Write
    \/ \E policy \in Policies : Boot(policy, Compiled) /\ UNCHANGED condition
    \/ \E payload \in Payloads : Handle(payload) /\ UNCHANGED condition

Spec == Init /\ [][Next]_vars

-----------------------------------------------------------------------------
\* The parser accepts exactly the sentences of the grammar, and its tree is
\* the only one the grammar gives: Parse, against the grammar that expr.go
\* documents.  What it returns is a tree, as RuleEvaluation takes it to be.
AgreesWithGrammar ==
    rule = "written" =>
        LET result == Parse(condition)
        IN /\ Trees("or", condition, 1, Len(condition)) = IF result.ok THEN {result.tree} ELSE {}
           /\ result.ok => IsTree(result.tree)
===============================================================================
