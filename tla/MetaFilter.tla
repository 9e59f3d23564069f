----------------------------- MODULE MetaFilter -----------------------------
(***************************************************************************)
(* MetaStore of likhadb-store: the predicate a search filters rows with    *)
(* (make_filter, eval_predicate), and a reference reading of the same      *)
(* predicates as sets of payloads.  Pure operators.                        *)
(*                                                                         *)
(* A payload is a function from the fields it has to values; a value is    *)
(* <<"num", n>> or <<"str", n>>.  A predicate is a record that has the     *)
(* keys its JSON object has; "in" takes a set of values.                   *)
(***************************************************************************)
EXTENDS Integers, Sequences

CONSTANT NoPayload

RECURSIVE EvalPredicate(_, _)

\* Value::as_f64 of the field and of the operand, both there.
BothNumbers(pay, p) ==
    /\ p.field \in DOMAIN pay /\ "value" \in DOMAIN p
    /\ pay[p.field][1] = "num" /\ p.value[1] = "num"

\* Mutant: a missing field compares as zero.
EvalLeafZero(pay, p) ==
    LET num == IF p.field \in DOMAIN pay THEN pay[p.field][2] ELSE 0
    IN  CASE p.op = "eq"  -> p.field \in DOMAIN pay /\ pay[p.field] = p.value
          [] p.op = "lte" -> num <= p.value[2]
          [] p.op = "gt"  -> num > p.value[2]
          [] OTHER        -> TRUE

\* The leaf operators.  "ne" holds of a field that is not there; anything
\* malformed or unknown is false.
EvalLeaf(pay, p) ==
    LET has == p.field \in DOMAIN pay
        operand == "value" \in DOMAIN p
    IN  CASE p.op = "eq"     -> operand /\ has /\ pay[p.field] = p.value
          [] p.op = "ne"     -> operand /\ (~has \/ pay[p.field] # p.value)
          [] p.op = "exists" -> has
          [] p.op = "gt"     -> BothNumbers(pay, p) /\ pay[p.field][2] > p.value[2]
          [] p.op = "lt"     -> BothNumbers(pay, p) /\ pay[p.field][2] < p.value[2]
          [] p.op = "gte"    -> BothNumbers(pay, p) /\ pay[p.field][2] >= p.value[2]
          [] p.op = "lte"    -> BothNumbers(pay, p) /\ pay[p.field][2] <= p.value[2]
          [] p.op = "in"     -> operand /\ has /\ pay[p.field] \in p.value
          [] OTHER           -> FALSE

\* eval_predicate.
EvalPredicate(pay, p) ==
    /\ "op" \in DOMAIN p
    /\ CASE p.op = "and" -> /\ "filters" \in DOMAIN p
                            /\ \A i \in DOMAIN p.filters :
                                  EvalPredicate(pay, p.filters[i])
         [] p.op = "or"  -> /\ "filters" \in DOMAIN p
                            /\ \E i \in DOMAIN p.filters :
                                  EvalPredicate(pay, p.filters[i])
         [] OTHER        -> "field" \in DOMAIN p /\ EvalLeaf(pay, p)

\* make_filter: a row without payload passes no predicate.
Passes(pay, p) == pay # NoPayload /\ EvalPredicate(pay, p)

----------------------------------------------------------------------------
(* The reference: the payloads of a universe that a predicate describes.     *)

RECURSIVE Meaning(_, _)

Leaf(op, p) == [op |-> op, field |-> p.field, value |-> p.value]

\* Only "eq", "lt", "exists" are taken from the payload; the others follow
\* from them by complement, union and intersection.
Meaning(universe, p) ==
    LET eq == {y \in universe : p.field \in DOMAIN y /\ y[p.field] = p.value}
        numbers == {y \in universe : p.field \in DOMAIN y /\ y[p.field][1] = "num"}
    IN  CASE p.op = "and" ->
               {y \in universe : \A i \in DOMAIN p.filters :
                                     y \in Meaning(universe, p.filters[i])}
          [] p.op = "or" ->
               UNION {Meaning(universe, p.filters[i]) : i \in DOMAIN p.filters}
          [] p.op = "eq" -> eq
          [] p.op = "ne" -> universe \ eq
          [] p.op = "exists" -> {y \in universe : p.field \in DOMAIN y}
          [] p.op = "in" -> UNION {Meaning(universe, [op |-> "eq", field |-> p.field,
                                                      value |-> v]) : v \in p.value}
          [] p.op = "lt" -> {y \in numbers : y[p.field][2] < p.value[2]}
          [] p.op = "gte" -> numbers \ Meaning(universe, Leaf("lt", p))
          [] p.op = "lte" -> (numbers \cap eq) \cup Meaning(universe, Leaf("lt", p))
          [] p.op = "gt" -> numbers \ Meaning(universe, Leaf("lte", p))
=============================================================================
