-------------------------- MODULE RuleEvaluationProofs --------------------------
(***************************************************************************)
(* What RuleEvaluation guarantees for every condition a parser may return, *)
(* every schema and every event.  A tree's values are defined by recursion *)
(* over its nodes.  What holds of all of them is proved by minimal         *)
(* counterexample: the first node it fails at has its operands before it.  *)
(***************************************************************************)
EXTENDS RuleEvaluation, NaturalsInduction, WellFoundedInduction, TLAPS

----------------------------------------------------------------------------
(* The nodes of a tree and their values                                    *)

LEMMA Least ==
    ASSUME NEW S \in SUBSET Nat, S # {}
    PROVE  \E n \in S : \A m \in S : n <= m
<1>1. \E n \in S : \A m \in S : ~ (<<m, n>> \in OpToRel(<, Nat))
  BY NatLessThanWellFounded, WFMin, Zenon
<1>2. PICK n \in S : \A m \in S : ~ (<<m, n>> \in OpToRel(<, Nat))
  BY <1>1
<1>3. ASSUME NEW m \in S PROVE n <= m
  <2>1. SUFFICES ASSUME m < n PROVE FALSE
    OBVIOUS
  <2>2. <<m, n>> \in Nat \X Nat
    OBVIOUS
  <2>3. <<m, n>> \in OpToRel(<, Nat)
    BY <2>1, <2>2 DEF OpToRel
  <2>4. QED
    BY <1>2, <2>3, Zenon
<1>4. QED
  BY <1>3

\* The first n nodes of a tree have values.
Solved(tree, payload, n) == \E g : g = [i \in 1 .. n |-> NodeValue(tree, i, payload, g)]

\* Operands stand before their operator.
LEMMA NodeOf ==
    ASSUME NEW tree, IsTree(tree), NEW n \in DOMAIN tree
    PROVE  /\ Len(tree) \in Nat \ {0} /\ DOMAIN tree = 1 .. Len(tree) /\ n \in Nat
           /\ tree[n] \in Nodes
           /\ tree[n].kind \in {"literal", "path", "not", "binary"}
           /\ tree[n].kind = "not" => Right(n) \in 1 .. n - 1
           /\ tree[n].kind = "binary" => Left(tree, n) \in 1 .. n - 1 /\ Right(n) \in 1 .. n - 1
           /\ tree[n].kind = "binary" => tree[n].op \in Operators
           /\ tree[n].kind = "literal" => tree[n].value \in Scalars
<1>1. tree \in Seq(Nodes) /\ tree # <<>>
  BY DEF IsTree, NoTree
<1>2. Len(tree) \in Nat \ {0} /\ DOMAIN tree = 1 .. Len(tree) /\ n \in Nat /\ tree[n] \in Nodes
  BY <1>1
<1>3. CASE tree[n] \in [kind : {"literal"}, value : Scalars]
  BY <1>2, <1>3
<1>4. CASE tree[n] \in [kind : {"path"}, path : Seq(Names)]
  BY <1>2, <1>4
<1>5. CASE tree[n] \in [kind : {"not"}]
  BY <1>2, <1>5 DEF IsTree, Right
<1>6. CASE tree[n] \in [kind : {"binary"}, op : Operators, size : Nat \ {0}]
  BY <1>2, <1>6 DEF IsTree, Right, Left
<1>7. QED
  BY <1>2, <1>3, <1>4, <1>5, <1>6 DEF Nodes

LEMMA NodeSize ==
    ASSUME NEW tree, IsTree(tree), NEW n \in DOMAIN tree, tree[n].kind = "binary"
    PROVE  tree[n].size \in Nat \ {0}
<1>1. tree[n] \in Nodes
  BY NodeOf
<1>2. QED
  BY <1>1 DEF Nodes

\* A node's value depends on those of earlier nodes only.
LEMMA NodeValueLocal ==
    ASSUME NEW tree, IsTree(tree), NEW n \in DOMAIN tree, NEW payload, NEW g, NEW h,
           \A i \in 1 .. n - 1 : g[i] = h[i]
    PROVE  NodeValue(tree, n, payload, g) = NodeValue(tree, n, payload, h)
<1>1. CASE tree[n].kind = "literal" \/ tree[n].kind = "path"
  BY <1>1 DEF NodeValue
<1>2. CASE tree[n].kind = "not"
  <2>1. g[Right(n)] = h[Right(n)]
    BY <1>2, NodeOf
  <2>2. QED
    BY <1>2, <2>1 DEF NodeValue
<1>3. CASE tree[n].kind = "binary"
  <2>1. g[Right(n)] = h[Right(n)] /\ g[Left(tree, n)] = h[Left(tree, n)]
    BY <1>3, NodeOf
  <2>2. QED
    BY <1>3, <2>1 DEF NodeValue
<1>4. QED
  BY <1>1, <1>2, <1>3, NodeOf

\* The evaluator's recursive function exists, node after node.
LEMMA PrefixSolved ==
    ASSUME NEW tree, IsTree(tree), NEW payload, NEW n \in 0 .. Len(tree)
    PROVE  Solved(tree, payload, n)
<1> DEFINE Bad == {k \in 0 .. Len(tree) : ~Solved(tree, payload, k)}
<1>1. Len(tree) \in Nat /\ DOMAIN tree = 1 .. Len(tree)
  BY DEF IsTree
<1>2. Solved(tree, payload, 0)
  <2>1. <<>> = [i \in 1 .. 0 |-> NodeValue(tree, i, payload, <<>>)]
    OBVIOUS
  <2>2. QED
    BY <2>1 DEF Solved
<1>3. ASSUME NEW k \in 1 .. Len(tree), Solved(tree, payload, k - 1)
      PROVE  Solved(tree, payload, k)
  <2>1. PICK g : g = [i \in 1 .. k - 1 |-> NodeValue(tree, i, payload, g)]
    BY <1>3 DEF Solved
  <2> DEFINE h == [i \in 1 .. k |-> IF i < k THEN g[i] ELSE NodeValue(tree, k, payload, g)]
  <2>2. \A i \in 1 .. k - 1 : g[i] = h[i]
    BY <1>1
  <2>3. \A i \in 1 .. k : NodeValue(tree, i, payload, g) = NodeValue(tree, i, payload, h)
    <3> TAKE i \in 1 .. k
    <3> HIDE DEF h
    <3>1. i \in DOMAIN tree /\ \A j \in 1 .. i - 1 : g[j] = h[j]
      BY <1>1, <2>2
    <3>2. QED
      BY <3>1, NodeValueLocal
  <2>4. \A i \in 1 .. k : h[i] = NodeValue(tree, i, payload, h)
    <3>1. \A i \in 1 .. k : h[i] = NodeValue(tree, i, payload, g)
      <4> TAKE i \in 1 .. k
      <4>1. CASE i < k
        <5>1. g[i] = NodeValue(tree, i, payload, g)
          BY <1>1, <2>1, <4>1
        <5>2. QED
          BY <4>1, <5>1
      <4>2. CASE i = k
        BY <1>1, <4>2
      <4>3. QED
        BY <1>1, <4>1, <4>2
    <3>2. QED
      BY <2>3, <3>1
  <2>5. h = [i \in 1 .. k |-> h[i]]
    OBVIOUS
  <2> HIDE DEF h
  <2>6. h = [i \in 1 .. k |-> NodeValue(tree, i, payload, h)]
    BY <2>4, <2>5
  <2>7. QED
    BY <2>6 DEF Solved
<1>4. Bad = {}
  <2> SUFFICES ASSUME Bad # {} PROVE FALSE
    OBVIOUS
  <2>1. Bad \in SUBSET Nat
    OBVIOUS
  <2>2. PICK k \in Bad : \A m \in Bad : k <= m
    <3> HIDE DEF Bad
    <3>1. QED
      BY <2>1, Least
  <2>3. k # 0 /\ k \in 1 .. Len(tree) /\ k - 1 \in 0 .. Len(tree) /\ k - 1 \notin Bad
    BY <1>1, <1>2, <2>2
  <2>4. QED
    BY <1>3, <2>2, <2>3
<1>5. QED
  BY <1>4

\* ... so that every node has the value its operands give it.
LEMMA ValueOfNode ==
    ASSUME NEW tree, IsTree(tree), NEW payload, NEW n \in DOMAIN tree
    PROVE  Values(tree, payload)[n] = NodeValue(tree, n, payload, Values(tree, payload))
<1>1. DOMAIN tree = 1 .. Len(tree) /\ Len(tree) \in Nat
  BY DEF IsTree
<1>2. \E g : g = [i \in DOMAIN tree |-> NodeValue(tree, i, payload, g)]
  <2>1. Len(tree) \in 0 .. Len(tree)
    BY <1>1
  <2>2. Solved(tree, payload, Len(tree))
    BY <2>1, PrefixSolved
  <2>3. QED
    BY <1>1, <2>2 DEF Solved
<1>3. Values(tree, payload)
        = CHOOSE g : g = [i \in DOMAIN tree |-> NodeValue(tree, i, payload, g)]
  BY DEF Values
<1>4. Values(tree, payload)
        = [i \in DOMAIN tree |-> NodeValue(tree, i, payload, Values(tree, payload))]
  BY <1>2, <1>3
<1>5. QED
  BY <1>4

----------------------------------------------------------------------------
(* A tree evaluates as its operands do                                     *)

\* part stands in tree after the first k nodes.
StandsAfter(k, part, tree) ==
    \A i \in DOMAIN part : k + i \in DOMAIN tree /\ tree[k + i] = part[i]

\* An operand has the value it has as a tree of its own.
LEMMA OperandAt ==
    ASSUME NEW tree, IsTree(tree), NEW part, IsTree(part), NEW payload, NEW k \in Nat,
           StandsAfter(k, part, tree), NEW n \in DOMAIN part
    PROVE  Values(tree, payload)[k + n] = Values(part, payload)[n]
<1> DEFINE g == Values(tree, payload)
           h == Values(part, payload)
           Lost == {i \in DOMAIN part : g[k + i] # h[i]}
<1>1. DOMAIN part = 1 .. Len(part) /\ Len(part) \in Nat
  BY NodeOf
<1> HIDE DEF g, h
<1>2. Lost = {}
  <2> SUFFICES ASSUME Lost # {} PROVE FALSE
    OBVIOUS
  <2>1. Lost \in SUBSET Nat
    BY <1>1
  <2>2. PICK i \in Lost : \A j \in Lost : i <= j
    <3> HIDE DEF Lost
    <3>1. QED
      BY <2>1, Least
  <2>3. i \in DOMAIN part /\ i \in Nat /\ k + i \in DOMAIN tree /\ tree[k + i] = part[i]
    BY <1>1, <2>2 DEF StandsAfter
  <2>4. \A j \in 1 .. i - 1 : g[k + j] = h[j]
    <3>1. \A j \in 1 .. i - 1 : j \in DOMAIN part /\ j \notin Lost
      BY <1>1, <2>2
    <3>2. QED
      BY <3>1
  <2>5. g[k + i] = NodeValue(tree, k + i, payload, g) /\ h[i] = NodeValue(part, i, payload, h)
    BY <2>3, ValueOfNode DEF g, h
  <2>6. NodeValue(tree, k + i, payload, g) = NodeValue(part, i, payload, h)
    <3>1. CASE part[i].kind = "literal" \/ part[i].kind = "path"
      BY <2>3, <3>1 DEF NodeValue
    <3>2. CASE part[i].kind = "not"
      <4>1. Right(i) \in 1 .. i - 1
        BY <2>3, <3>2, NodeOf
      <4>2. Right(k + i) = k + Right(i)
        BY <2>3 DEF Right
      <4>3. g[Right(k + i)] = h[Right(i)]
        BY <2>4, <4>1, <4>2
      <4>4. QED
        BY <2>3, <3>2, <4>3 DEF NodeValue
    <3>3. CASE part[i].kind = "binary"
      <4>1. part[i].size \in Nat
        BY <1>1, <2>3, <3>3, NodeSize
      <4>2. Right(i) \in 1 .. i - 1 /\ Left(part, i) \in 1 .. i - 1
        BY <2>3, <3>3, NodeOf
      <4>3. Right(k + i) = k + Right(i) /\ Left(tree, k + i) = k + Left(part, i)
        BY <2>3, <4>1 DEF Right, Left
      <4>4. g[Right(k + i)] = h[Right(i)] /\ g[Left(tree, k + i)] = h[Left(part, i)]
        BY <2>4, <4>2, <4>3
      <4>5. QED
        BY <2>3, <3>3, <4>4 DEF NodeValue
    <3>4. QED
      BY <2>3, <3>1, <3>2, <3>3, NodeOf
  <2>7. g[k + i] # h[i]
    BY <2>2
  <2>8. QED
    BY <2>5, <2>6, <2>7
<1>3. QED
  BY <1>2 DEF g, h

\* The nodes of a tree under an operator.
LEMMA NegationParts ==
    ASSUME NEW x, IsTree(x)
    PROVE  /\ IsTree(Not(x)) /\ Len(Not(x)) = Len(x) + 1 /\ Len(x) \in Nat \ {0}
           /\ \A i \in DOMAIN x : i \in DOMAIN Not(x) /\ Not(x)[i] = x[i]
           /\ Not(x)[Len(x) + 1] = [kind |-> "not"]
<1>1. x \in Seq(Nodes) /\ x # <<>> /\ Len(x) \in Nat \ {0} /\ DOMAIN x = 1 .. Len(x)
  BY DEF IsTree, NoTree
<1>2. [kind |-> "not"] \in Nodes
  BY DEF Nodes
<1> DEFINE y == Append(x, [kind |-> "not"])
<1>3. /\ y \in Seq(Nodes) /\ Len(y) = Len(x) + 1 /\ DOMAIN y = 1 .. Len(x) + 1
      /\ \A i \in DOMAIN x : y[i] = x[i]
      /\ y[Len(x) + 1] = [kind |-> "not"]
  BY <1>1, <1>2
<1> HIDE DEF y
<1>4. ASSUME NEW n \in DOMAIN y
      PROVE  /\ y[n].kind = "not" => Right(n) \in DOMAIN y
             /\ y[n].kind = "binary" => Left(y, n) \in DOMAIN y
  <2>1. CASE n \in DOMAIN x
    BY <1>1, <1>3, <2>1 DEF IsTree, Left, Right
  <2>2. CASE n = Len(x) + 1
    BY <1>1, <1>3, <2>2 DEF Right
  <2>3. QED
    BY <1>1, <1>3, <2>1, <2>2
<1>5. y # <<>>
  BY <1>1, <1>3
<1>6. IsTree(y)
  BY <1>3, <1>4, <1>5 DEF IsTree, NoTree
<1>7. \A i \in DOMAIN x : i \in DOMAIN y
  BY <1>1, <1>3
<1>8. QED
  BY <1>1, <1>3, <1>6, <1>7 DEF Not, y

IsBinary(y, op, l, r) ==
    /\ IsTree(y) /\ Len(y) = Len(l) + Len(r) + 1
    /\ Len(l) \in Nat \ {0} /\ Len(r) \in Nat \ {0}
    /\ \A i \in DOMAIN l : i \in DOMAIN y /\ y[i] = l[i]
    /\ \A i \in DOMAIN r : Len(l) + i \in DOMAIN y /\ y[Len(l) + i] = r[i]
    /\ y[Len(l) + Len(r) + 1] = [kind |-> "binary", op |-> op, size |-> Len(r)]

LEMMA BinaryParts ==
    ASSUME NEW op \in Operators, NEW l, IsTree(l), NEW r, IsTree(r)
    PROVE  IsBinary(Binary(op, l, r), op, l, r)
<1>1. /\ l \in Seq(Nodes) /\ Len(l) \in Nat \ {0} /\ DOMAIN l = 1 .. Len(l)
      /\ r \in Seq(Nodes) /\ Len(r) \in Nat \ {0} /\ DOMAIN r = 1 .. Len(r)
  BY DEF IsTree, NoTree
<1> DEFINE node == [kind |-> "binary", op |-> op, size |-> Len(r)]
           y == l \o r \o <<node>>
<1>2. node \in Nodes
  BY <1>1 DEF Nodes
<1> HIDE DEF node
<1>3. /\ y \in Seq(Nodes) /\ Len(y) = Len(l) + Len(r) + 1 /\ DOMAIN y = 1 .. Len(l) + Len(r) + 1
      /\ \A i \in 1 .. Len(l) : y[i] = l[i]
      /\ \A i \in 1 .. Len(r) : y[Len(l) + i] = r[i]
      /\ y[Len(l) + Len(r) + 1] = node
  BY <1>1, <1>2
<1> HIDE DEF y
<1>4. ASSUME NEW n \in DOMAIN y
      PROVE  /\ y[n].kind = "not" => Right(n) \in DOMAIN y
             /\ y[n].kind = "binary" => Left(y, n) \in DOMAIN y
  <2>1. CASE n \in 1 .. Len(l)
    <3>1. y[n] = l[n]
      BY <1>3, <2>1
    <3>2. QED
      BY <1>1, <1>3, <2>1, <3>1 DEF IsTree, Left, Right
  <2>2. CASE n - Len(l) \in 1 .. Len(r)
    <3> DEFINE i == n - Len(l)
    <3>1. y[n] = r[i] /\ i \in DOMAIN r /\ n = Len(l) + i
      <4>1. n \in Nat
        BY <1>1, <1>3
      <4>2. i \in 1 .. Len(r) /\ n = Len(l) + i
        BY <1>1, <2>2, <4>1
      <4> HIDE DEF i
      <4>3. QED
        BY <1>1, <1>3, <4>2
    <3>2. CASE r[i].kind = "not"
      <4>1. Right(i) \in DOMAIN r
        BY <3>1, <3>2, IsTree(r) DEF IsTree
      <4>2. Right(n) = Len(l) + Right(i)
        BY <1>1, <3>1 DEF Right
      <4>3. QED
        BY <1>1, <1>3, <3>1, <3>2, <4>1, <4>2
    <3>3. CASE r[i].kind = "binary"
      <4>1. r[i].size \in Nat
        BY <3>1, <3>3, NodeSize
      <4>2. Left(r, i) \in 1 .. Len(r)
        BY <1>1, <3>1, <3>3 DEF IsTree
      <4>3. Left(y, n) = Len(l) + Left(r, i)
        BY <1>1, <3>1, <4>1 DEF Left
      <4>4. QED
        BY <1>1, <1>3, <3>1, <3>3, <4>2, <4>3
    <3>4. QED
      BY <3>1, <3>2, <3>3
  <2>3. CASE n = Len(l) + Len(r) + 1
    <3>1. y[n].kind = "binary" /\ y[n].size = Len(r)
      BY <1>3, <2>3 DEF node
    <3>2. Left(y, n) = Len(l)
      BY <1>1, <2>3, <3>1 DEF Left
    <3>3. QED
      BY <1>1, <1>3, <3>1, <3>2
  <2>4. n \in 1 .. Len(l) \/ n - Len(l) \in 1 .. Len(r) \/ n = Len(l) + Len(r) + 1
    <3> HIDE DEF node
    <3>1. n \in 1 .. Len(l) + Len(r) + 1
      BY <1>3, <1>4
    <3>2. QED
      BY <1>1, <3>1
  <2>5. QED
    BY <2>1, <2>2, <2>3, <2>4
<1>5. y # <<>>
  BY <1>1, <1>3
<1>6. IsTree(y)
  BY <1>3, <1>4, <1>5 DEF IsTree, NoTree
<1>7. /\ \A i \in DOMAIN l : i \in DOMAIN y
      /\ \A i \in DOMAIN r : Len(l) + i \in DOMAIN y
  BY <1>1, <1>3
<1>8. y = Binary(op, l, r)
  BY DEF Binary, y, node
<1>9. QED
  BY <1>1, <1>3, <1>6, <1>7, <1>8 DEF node, IsBinary

\* The evaluator of a parsed condition is the recursion over operators that
\* unaryNode.eval and binNode.eval are: the value of a negation or of a binary
\* operator is computed from those of its operands, however deep these are.
THEOREM EvalRecurses ==
    /\ \A x : IsTree(x) => \A payload : Eval(Not(x), payload) = Negated(Eval(x, payload))
    /\ \A op \in Operators : \A l, r : IsTree(l) /\ IsTree(r) =>
          \A payload : Eval(Binary(op, l, r), payload)
                         = Combined(op, Eval(l, payload), Eval(r, payload))
<1>1. ASSUME NEW x, IsTree(x), NEW payload
      PROVE  Eval(Not(x), payload) = Negated(Eval(x, payload))
  <2> DEFINE y == Not(x)
             n == Len(x) + 1
  <2>1. /\ IsTree(y) /\ Len(y) = n /\ Len(x) \in Nat \ {0} /\ y[n].kind = "not"
        /\ \A i \in DOMAIN x : i \in DOMAIN y /\ y[i] = x[i]
    BY <1>1, NegationParts
  <2> HIDE DEF y
  <2>2. n \in DOMAIN y /\ Len(x) \in DOMAIN x /\ Right(n) = Len(x)
    BY <1>1, <2>1 DEF IsTree, Right
  <2>3. Eval(y, payload) = NodeValue(y, n, payload, Values(y, payload))
    BY <2>1, <2>2, ValueOfNode DEF Eval
  <2>4. NodeValue(y, n, payload, Values(y, payload)) = Negated(Values(y, payload)[Len(x)])
    BY <2>1, <2>2 DEF NodeValue
  <2>5. Values(y, payload)[Len(x)] = Values(x, payload)[Len(x)]
    <3>1. StandsAfter(0, x, y)
      BY <1>1, <2>1 DEF IsTree, StandsAfter
    <3>2. IsTree(y) /\ IsTree(x) /\ 0 \in Nat /\ Len(x) \in DOMAIN x
      BY <1>1, <2>1, <2>2
    <3> HIDE DEF n
    <3>3. Values(y, payload)[0 + Len(x)] = Values(x, payload)[Len(x)]
      BY <3>1, <3>2, OperandAt
    <3>4. QED
      BY <2>1, <3>3
  <2>6. QED
    BY <2>3, <2>4, <2>5 DEF y, Eval
<1>2. ASSUME NEW op \in Operators, NEW l, NEW r, IsTree(l), IsTree(r), NEW payload
      PROVE  Eval(Binary(op, l, r), payload) = Combined(op, Eval(l, payload), Eval(r, payload))
  <2> DEFINE y == Binary(op, l, r)
             n == Len(l) + Len(r) + 1
  <2>1. /\ IsTree(y) /\ Len(y) = n /\ Len(l) \in Nat \ {0} /\ Len(r) \in Nat \ {0}
        /\ y[n].kind = "binary" /\ y[n].op = op /\ y[n].size = Len(r)
        /\ \A i \in DOMAIN l : i \in DOMAIN y /\ y[i] = l[i]
        /\ \A i \in DOMAIN r : Len(l) + i \in DOMAIN y /\ y[Len(l) + i] = r[i]
    <3>1. IsBinary(y, op, l, r)
      BY <1>2, BinaryParts
    <3> HIDE DEF y
    <3>2. QED
      BY <3>1 DEF IsBinary
  <2> HIDE DEF y
  <2>2. /\ n \in DOMAIN y /\ Len(l) \in DOMAIN l /\ Len(r) \in DOMAIN r
        /\ Right(n) = Len(l) + Len(r) /\ Left(y, n) = Len(l)
    BY <1>2, <2>1 DEF IsTree, Right, Left
  <2>3. Eval(y, payload) = NodeValue(y, n, payload, Values(y, payload))
    BY <2>1, <2>2, ValueOfNode DEF Eval
  <2>4. NodeValue(y, n, payload, Values(y, payload))
          = Combined(op, Values(y, payload)[Len(l)], Values(y, payload)[Len(l) + Len(r)])
    BY <2>1, <2>2 DEF NodeValue
  <2>5. Values(y, payload)[Len(l)] = Values(l, payload)[Len(l)]
    <3>1. StandsAfter(0, l, y)
      BY <1>2, <2>1 DEF IsTree, StandsAfter
    <3>2. IsTree(y) /\ IsTree(l) /\ 0 \in Nat /\ Len(l) \in DOMAIN l
      BY <1>2, <2>1, <2>2
    <3>3. Values(y, payload)[0 + Len(l)] = Values(l, payload)[Len(l)]
      BY <3>1, <3>2, OperandAt
    <3>4. QED
      BY <2>1, <3>3
  <2>6. Values(y, payload)[Len(l) + Len(r)] = Values(r, payload)[Len(r)]
    <3>1. StandsAfter(Len(l), r, y)
      BY <2>1 DEF StandsAfter
    <3>2. IsTree(y) /\ IsTree(r) /\ Len(l) \in Nat /\ Len(r) \in DOMAIN r
      BY <1>2, <2>1, <2>2
    <3>3. QED
      BY <3>1, <3>2, OperandAt
  <2>7. QED
    BY <2>3, <2>4, <2>5, <2>6 DEF y, Eval
<1>3. QED
  BY <1>1, <1>2

----------------------------------------------------------------------------
(* What a field more may change                                            *)

\* fuller carries what payload carries, and perhaps more.
Carries(fuller, payload) ==
    DOMAIN payload \subseteq DOMAIN fuller /\ \A f \in DOMAIN payload : fuller[f] = payload[f]

\* What a payload answers, a fuller one answers too.
LEMMA LookupKept ==
    ASSUME NEW payload \in Payloads, NEW fuller \in Payloads, Carries(fuller, payload),
           NEW path, ~IsError(Lookup(path, payload))
    PROVE  Lookup(path, fuller) = Lookup(path, payload)
<1>1. CASE path \in DOMAIN payload
  BY <1>1 DEF Carries, Lookup
<1>2. CASE path \notin DOMAIN payload
  <2>1. IsError(Refusal("missing")) /\ IsError(Refusal("not an object"))
    BY DEF IsError, Refusal
  <2>2. PICK leaf \in DOMAIN payload : IsPrefixOf(path, leaf)
    BY <1>2, <2>1 DEF Lookup
  <2>3. leaf \in DOMAIN fuller /\ path \notin DOMAIN fuller
    <3>1. leaf \in DOMAIN fuller
      BY <2>2 DEF Carries
    <3>2. QED
      BY <2>2, <3>1, RuleAssumption
  <2>4. QED
    BY <1>2, <2>2, <2>3 DEF Lookup
<1>3. QED
  BY <1>1, <1>2

\* A node that has a value keeps it if the operands that have one do: a right
\* operand that && or || skipped may have none.
LEMMA NodeKept ==
    ASSUME NEW payload \in Payloads, NEW fuller \in Payloads, Carries(fuller, payload),
           NEW tree, IsTree(tree), NEW n \in DOMAIN tree, NEW g, NEW h,
           \A i \in 1 .. n - 1 : ~IsError(g[i]) => h[i] = g[i],
           ~IsError(NodeValue(tree, n, payload, g))
    PROVE  NodeValue(tree, n, fuller, h) = NodeValue(tree, n, payload, g)
<1>1. CASE tree[n].kind = "literal"
  BY <1>1 DEF NodeValue
<1>2. CASE tree[n].kind = "path"
  <2>1. /\ NodeValue(tree, n, payload, g) = Lookup(tree[n].path, payload)
        /\ NodeValue(tree, n, fuller, h) = Lookup(tree[n].path, fuller)
    BY <1>2 DEF NodeValue
  <2>2. QED
    BY <2>1, LookupKept
<1>3. CASE tree[n].kind = "not"
  <2>1. /\ NodeValue(tree, n, payload, g) = Negated(g[Right(n)])
        /\ NodeValue(tree, n, fuller, h) = Negated(h[Right(n)])
    BY <1>3 DEF NodeValue
  <2>2. Right(n) \in 1 .. n - 1 /\ ~IsError(g[Right(n)])
    BY <1>3, <2>1, NodeOf DEF Negated
  <2>3. QED
    BY <2>1, <2>2
<1>4. CASE tree[n].kind = "binary"
  <2> DEFINE op == tree[n].op
             left == Left(tree, n)
             right == Right(n)
  <2>1. /\ NodeValue(tree, n, payload, g) = Combined(op, g[left], g[right])
        /\ NodeValue(tree, n, fuller, h) = Combined(op, h[left], h[right])
    BY <1>4 DEF NodeValue
  <2>2. left \in 1 .. n - 1 /\ right \in 1 .. n - 1
    BY <1>4, NodeOf
  <2> HIDE DEF op, left, right
  <2>3. ~IsError(g[left]) /\ h[left] = g[left]
    BY <2>1, <2>2 DEF Combined
  <2>4. CASE op \in Logical /\ (~IsBool(g[left]) \/ Decides(op, g[left]))
    BY <2>1, <2>3, <2>4 DEF Combined
  <2>5. CASE ~(op \in Logical /\ (~IsBool(g[left]) \/ Decides(op, g[left])))
    <3>1. CASE IsError(g[right])
      BY <2>1, <2>3, <2>5, <3>1 DEF Combined
    <3>2. CASE ~IsError(g[right])
      BY <2>1, <2>2, <2>3, <3>2
    <3>3. QED
      BY <3>1, <3>2
  <2>6. QED
    BY <2>4, <2>5
<1>5. QED
  BY <1>1, <1>2, <1>3, <1>4, NodeOf

LEMMA ValuesKept ==
    ASSUME NEW payload \in Payloads, NEW fuller \in Payloads, Carries(fuller, payload),
           NEW tree, IsTree(tree), NEW n \in DOMAIN tree, ~IsError(Values(tree, payload)[n])
    PROVE  Values(tree, fuller)[n] = Values(tree, payload)[n]
<1> DEFINE g == Values(tree, payload)
           h == Values(tree, fuller)
           Lost == {i \in DOMAIN tree : ~IsError(g[i]) /\ h[i] # g[i]}
<1>1. DOMAIN tree = 1 .. Len(tree) /\ Len(tree) \in Nat
  BY NodeOf
<1> HIDE DEF g, h
<1>2. Lost = {}
  <2> SUFFICES ASSUME Lost # {} PROVE FALSE
    OBVIOUS
  <2>1. Lost \in SUBSET Nat
    BY <1>1
  <2>2. PICK i \in Lost : \A j \in Lost : i <= j
    <3> HIDE DEF Lost
    <3>1. QED
      BY <2>1, Least
  <2>3. \A j \in 1 .. i - 1 : j \in DOMAIN tree /\ j \notin Lost
    BY <1>1, <2>2
  <2>4. \A j \in 1 .. i - 1 : ~IsError(g[j]) => h[j] = g[j]
    BY <2>3
  <2>5. /\ g[i] = NodeValue(tree, i, payload, g) /\ h[i] = NodeValue(tree, i, fuller, h)
        /\ ~IsError(g[i]) /\ h[i] # g[i]
    BY ValueOfNode DEF g, h
  <2>6. QED
    BY <2>4, <2>5, NodeKept
<1>3. QED
  BY <1>2 DEF g, h

LEMMA FiresStill ==
    ASSUME NEW payload \in Payloads, NEW fuller \in Payloads, Carries(fuller, payload),
           NEW tree, IsTree(tree), Fires(tree, payload)
    PROVE  Fires(tree, fuller)
<1>1. Len(tree) \in DOMAIN tree
  BY DEF IsTree, NoTree
<1>2. Values(tree, payload)[Len(tree)] = Bool(TRUE)
  BY DEF Fires, Eval
<1>3. ~IsError(Bool(TRUE))
  BY DEF IsError, Bool
<1>4. QED
  BY <1>1, <1>2, <1>3, ValuesKept DEF Fires, Eval

----------------------------------------------------------------------------
(* What a condition over declared fields may answer                        *)

\* What is refused for want of a field.
Unknown(v) == v \in {Refusal("missing"), Refusal("not an object")}

LEMMA KnownResults ==
    ASSUME NEW x
    PROVE  /\ ~Unknown(Num(x)) /\ ~Unknown(Bool(x))
           /\ ~Unknown(Refusal("type")) /\ ~Unknown(Refusal("zero"))
BY DEF Unknown, Num, Bool, Refusal

LEMMA ScalarsKnown ==
    ASSUME NEW v \in Scalars \union {Object}
    PROVE  ~Unknown(v)
<1>1. "error" \notin DOMAIN v
  <2>1. CASE v \in Scalars
    BY <2>1 DEF Scalars
  <2>2. CASE v = Object
    BY <2>2 DEF Object
  <2>3. QED
    BY <2>1, <2>2
<1>2. \A why : "error" \in DOMAIN Refusal(why)
  BY DEF Refusal
<1>3. QED
  BY <1>1, <1>2 DEF Unknown

LEMMA ComputedKnown ==
    ASSUME NEW op \in Operators \ (Logical \union {"==", "!="}), NEW m, NEW n
    PROVE  ~Unknown(Computed(op, m, n))
<1>1. \E x : Computed(op, m, n) = Num(x) \/ Computed(op, m, n) = Bool(x)
  <2>1. op \in {">", ">=", "<", "<=", "+", "-", "*", "/"}
    BY DEF Operators, Logical
  <2>2. CASE op = ">"
    BY <2>2 DEF Computed
  <2>3. CASE op = ">="
    BY <2>3 DEF Computed
  <2>4. CASE op = "<"
    BY <2>4 DEF Computed
  <2>5. CASE op = "<="
    BY <2>5 DEF Computed
  <2>6. CASE op = "+"
    BY <2>6 DEF Computed
  <2>7. CASE op = "-"
    BY <2>7 DEF Computed
  <2>8. CASE op = "*"
    BY <2>8 DEF Computed
  <2>9. CASE op = "/"
    BY <2>9 DEF Computed
  <2>10. QED
    BY <2>1, <2>2, <2>3, <2>4, <2>5, <2>6, <2>7, <2>8, <2>9
<1>2. QED
  BY <1>1, KnownResults

LEMMA CombinedKnown ==
    ASSUME NEW op \in Operators, NEW l, NEW r, ~Unknown(l), ~Unknown(r)
    PROVE  ~Unknown(Combined(op, l, r))
<1>1. op \notin Logical => ~Unknown(ApplyOp(op, l, r))
  <2>1. CASE op \in {"==", "!="}
    BY <2>1, KnownResults DEF ApplyOp
  <2>2. CASE op \notin Logical \union {"==", "!="}
    BY <2>2, ComputedKnown, KnownResults DEF ApplyOp
  <2>3. QED
    BY <2>1, <2>2
<1>2. QED
  BY <1>1, KnownResults DEF Combined

LEMMA NodeKnown ==
    ASSUME NEW tree, IsTree(tree), KnowsFields(tree), NEW payload \in Payloads, Declared \subseteq DOMAIN payload,
           NEW n \in DOMAIN tree, NEW g, \A i \in 1 .. n - 1 : ~Unknown(g[i])
    PROVE  ~Unknown(NodeValue(tree, n, payload, g))
<1>1. CASE tree[n].kind = "literal"
  <2>1. NodeValue(tree, n, payload, g) = tree[n].value
    BY <1>1 DEF NodeValue
  <2>2. QED
    BY <1>1, <2>1, NodeOf, ScalarsKnown
<1>2. CASE tree[n].kind = "path"
  <2>1. NodeValue(tree, n, payload, g) = Lookup(tree[n].path, payload)
    BY <1>2 DEF NodeValue
  <2>2. tree[n].path \in DOMAIN payload
    BY <1>2 DEF KnowsFields, Paths
  <2>3. Lookup(tree[n].path, payload) \in Scalars \union {Object}
    BY <2>2, RuleAssumption DEF Lookup
  <2>4. QED
    BY <2>1, <2>3, ScalarsKnown
<1>3. CASE tree[n].kind = "not"
  <2>1. NodeValue(tree, n, payload, g) = Negated(g[Right(n)])
    BY <1>3 DEF NodeValue
  <2>2. ~Unknown(g[Right(n)])
    BY <1>3, NodeOf
  <2>3. QED
    BY <2>1, <2>2, KnownResults DEF Negated
<1>4. CASE tree[n].kind = "binary"
  <2>1. NodeValue(tree, n, payload, g) = Combined(tree[n].op, g[Left(tree, n)], g[Right(n)])
    BY <1>4 DEF NodeValue
  <2>2. ~Unknown(g[Right(n)]) /\ ~Unknown(g[Left(tree, n)])
    BY <1>4, NodeOf
  <2>3. tree[n].op \in Operators
    BY <1>4, NodeOf
  <2>4. QED
    BY <2>1, <2>2, <2>3, CombinedKnown
<1>5. QED
  BY <1>1, <1>2, <1>3, <1>4, NodeOf

LEMMA EvalKnown ==
    ASSUME NEW tree, IsTree(tree), KnowsFields(tree), NEW payload \in Payloads, Declared \subseteq DOMAIN payload
    PROVE  ~Unknown(Eval(tree, payload))
<1> DEFINE g == Values(tree, payload)
           Lost == {i \in DOMAIN tree : Unknown(g[i])}
<1>1. DOMAIN tree = 1 .. Len(tree) /\ Len(tree) \in DOMAIN tree /\ Len(tree) \in Nat
  BY DEF IsTree, NoTree
<1> HIDE DEF g
<1>2. Lost = {}
  <2> SUFFICES ASSUME Lost # {} PROVE FALSE
    OBVIOUS
  <2>1. Lost \in SUBSET Nat
    BY <1>1
  <2>2. PICK i \in Lost : \A j \in Lost : i <= j
    <3> HIDE DEF Lost
    <3>1. QED
      BY <2>1, Least
  <2>3. \A j \in 1 .. i - 1 : j \in DOMAIN tree /\ j \notin Lost
    BY <1>1, <2>2
  <2>4. \A j \in 1 .. i - 1 : ~Unknown(g[j])
    BY <2>3
  <2>5. g[i] = NodeValue(tree, i, payload, g) /\ Unknown(g[i])
    BY ValueOfNode DEF g
  <2>6. QED
    BY <2>4, <2>5, NodeKnown
<1>3. QED
  BY <1>1, <1>2 DEF g, Eval

----------------------------------------------------------------------------
(* The rule                                                                *)

\* A rule that passed boot has a condition over declared fields; a rule that
\* fired did so on the last event, with the condition it still has.
RuleInv ==
    /\ rule \in {"armed", "dormant"} => IsTree(cond) /\ KnowsFields(cond)
    /\ fired => rule = "armed" /\ event \in Payloads /\ Fires(cond, event)

LEMMA RuleStep == RuleInv /\ [EvaluationNext]_ruleVars => RuleInv'
<1> SUFFICES ASSUME RuleInv, [EvaluationNext]_ruleVars PROVE RuleInv'
  OBVIOUS
<1>1. ASSUME NEW policy \in Policies, NEW parsed, parsed = NoTree \/ IsTree(parsed), Boot(policy, parsed)
      PROVE  RuleInv'
  BY <1>1 DEF RuleInv, Boot, Loads, Arms, KnowsFields, Paths
<1>2. ASSUME NEW payload \in Payloads, Handle(payload)
      PROVE  RuleInv'
  BY <1>2 DEF RuleInv, Handle
<1>3. CASE UNCHANGED ruleVars
  BY <1>3 DEF RuleInv, ruleVars
<1>4. QED
  BY <1>1, <1>2, <1>3 DEF EvaluationNext

LEMMA RuleAlways == EvaluationSpec => []RuleInv
<1>1. EvaluationInit => RuleInv
  BY DEF EvaluationInit, RuleInv
<1>2. QED
  BY <1>1, RuleStep, PTL DEF EvaluationSpec

\* For every condition that a parser may return, every schema and every event:
\* what fires on a payload fires on every payload that carries more.
THEOREM LessNeverFires == EvaluationSpec => []MissingFieldNeverFires
<1>1. RuleInv => MissingFieldNeverFires
  BY FiresStill DEF RuleInv, MissingFieldNeverFires, Carries
<1>2. QED
  BY <1>1, RuleAlways, PTL

\* For every condition, schema and policy: a rule that passed boot, armed or
\* dormant, never refuses a complete event for want of a field.
THEOREM TyposRefusedAtBoot == EvaluationSpec => []BootCatchesTypos
<1>1. RuleInv => BootCatchesTypos
  BY EvalKnown DEF RuleInv, BootCatchesTypos, Unknown
<1>2. QED
  BY <1>1, RuleAlways, PTL
===============================================================================
