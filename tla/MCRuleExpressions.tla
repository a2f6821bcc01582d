--------------------------- MODULE MCRuleExpressions ---------------------------
(* One operator of each tier; a schema with the fields p and q.p, each a      *)
(* number, a boolean or a list in an event that carries it.  The paths q, p.p *)
(* and q.q are typing errors, q.q although an event carries it; true.p is no  *)
(* path.                                                                      *)
EXTENDS RuleExpressions

MCTokens == {"p", "q", "true", "0", "||", "&&", "==", "-", "/", "!", "(", ")", "."}
MCNames == {"p", "q", "true"}
MCDigits == [t \in {"0"} |-> 0]
MCDeclared == {<<"p">>, <<"q", "p">>}
MCPayloads ==
    UNION {[fields -> {Num(0), Num(1), Bool(TRUE), Object}] : fields \in SUBSET MCDeclared}
      \union [MCDeclared \union {<<"q", "q">>} -> {Num(0), Bool(TRUE)}]

\* A complete rule, and one for each way to be refused or left dormant.
MCRule == [complete |-> TRUE, trigger |-> "declared", tier |-> "", action |-> "note", enabled |-> TRUE]
MCPolicies == { MCRule,
    [MCRule EXCEPT !.tier = "auto"], [MCRule EXCEPT !.tier = "auto", !.action = "order"],
    [MCRule EXCEPT !.tier = "unknown"], [MCRule EXCEPT !.complete = FALSE],
    [MCRule EXCEPT !.action = "unknown"], [MCRule EXCEPT !.trigger = "unknown"],
    [MCRule EXCEPT !.enabled = FALSE, !.action = "unknown"] }
===============================================================================
