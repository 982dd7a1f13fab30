--------------------------- MODULE RuleExpression ---------------------------
(***************************************************************************)
(* The typed expressions of project rules: what the checker of version 3   *)
(* accepts, what the evaluator computes from the collected facts, and the  *)
(* fragment of versions 1 and 2, which keeps a checker and an evaluator of *)
(* its own.                                                                *)
(*                                                                         *)
(* An expression is [op, name, args, words]: name is the field, source,    *)
(* variable, binding or relation it mentions, args its operands in the     *)
(* order they are evaluated, words its literal values.  An atom is         *)
(* [is, text, n, from]: a truth value (n = 0 or 1), a number, a string (a  *)
(* sequence of letters, which are numbers) or the n-th entity of a source. *)
(* Budgets of bytes, entities and seconds, which end an evaluation with an *)
(* error, and the observations an outcome reports are left out.            *)
(***************************************************************************)
LOCAL INSTANCE Naturals
LOCAL INSTANCE Sequences
LOCAL INSTANCE FiniteSets
LOCAL INSTANCE FiniteSetsExt
LOCAL INSTANCE SequencesExt
LOCAL INSTANCE TLC

CONSTANTS
    None,       \* no binding, no fact, no value
    MaxDepth,   \* how deep an expression may nest
    MaxNodes,   \* and how many nodes it may have
    FewValues   \* distinct values an index keeps before it sorts

Atom(is, text, n, from) == [is |-> is, text |-> text, n |-> n, from |-> from]
Truth(b) == Atom("bool", <<>>, IF b THEN 1 ELSE 0, "")
Number(n) == Atom("number", <<>>, n, "")
String(text) == Atom("string", text, 0, "")
EntityOf(source, n) == Atom("entity", <<>>, n, source)

-----------------------------------------------------------------------------
(* Types.  A kind is a sequence: a collection's is its element's after     *)
(* "collection"; the empty one stands for a type error.                    *)
Ill == <<>>
Scalars == {<<"bool">>, <<"number">>, <<"string">>}
EntityKind(source) == <<"entity", source>>
Of(kind) == <<"collection">> \o kind
Element(kind) == IF kind # Ill /\ kind[1] = "collection" THEN Tail(kind) ELSE Ill
When(condition, kind) == IF condition THEN kind ELSE Ill

Binders == {"all", "any", "filter", "map"}
Connectives == {"and", "or", "concat"}

RECURSIVE Nodes(_), Depth(_)
Nodes(e) == 1 + FoldLeft(LAMBDA sum, arg : sum + Nodes(arg), 0, e.args)
Depth(e) == IF e.args = <<>> THEN 0 ELSE 1 + Max({Depth(arg) : arg \in ToSet(e.args)})

(* Of a value against, or changed by, literal words.                       *)
WordedKind(op, words, kind) ==
    CASE op = "in" ->
           When(kind \in Scalars /\ words # <<>> /\ {<<w.is>> : w \in ToSet(words)} = {kind}, <<"bool">>)
      [] op = "matches" -> When(kind = <<"string">>, <<"bool">>)
      [] op = "replace" -> When(kind = <<"string">> /\ words[1].text # <<>>, <<"string">>)

(* What the checker finds: the kind, and the sources whose paths are read. *)
RECURSIVE Check(_, _, _, _)
Check(e, sources, vars, current) ==
    LET first == Check(e.args[1], sources, vars, current)
        named == e.name # None
        element == Element(first.kind)
        inner == IF named THEN (e.name :> element) @@ vars ELSE vars
        operands == [i \in DOMAIN e.args |->
                       IF e.op \in Binders /\ i = 2
                       THEN IF element = Ill \/ (named /\ e.name \in DOMAIN vars)
                            THEN [kind |-> Ill, paths |-> {}]
                            ELSE Check(e.args[2], sources, inner, element)
                       ELSE Check(e.args[i], sources, vars, current)]
        kind(i) == operands[i].kind
        target == IF e.args = <<>> THEN current ELSE kind(1)
        entity == target # Ill /\ target[1] = "entity"
        found ==
          CASE e.op \in {"bool", "number", "string"} -> <<e.op>>
            [] e.op = "entities" -> Of(EntityKind("entities"))
            [] e.op = "source" -> When(e.name \in sources, Of(EntityKind(e.name)))
            [] e.op = "var" -> IF e.name \in DOMAIN vars THEN vars[e.name] ELSE Ill
            [] e.op = "field" -> When(entity, <<"string">>)
            [] e.op \in Connectives ->
                 LET each == IF e.op = "concat" THEN <<"string">> ELSE <<"bool">>
                 IN  When(e.args # <<>> /\ \A i \in DOMAIN e.args : kind(i) = each, each)
            [] e.op = "not" -> When(kind(1) = <<"bool">>, <<"bool">>)
            [] e.op \in {"all", "any"} -> When(kind(2) = <<"bool">>, <<"bool">>)
            [] e.op = "filter" -> When(kind(2) = <<"bool">>, kind(1))
            [] e.op = "map" -> When(named /\ kind(2) \in Scalars, Of(kind(2)))
            [] e.op = "count" -> When(element # Ill, <<"number">>)
            [] e.op = "distinct" -> When(element \in Scalars, kind(1))
            [] e.op = "contains" ->
                 When(element \in Scalars /\ kind(2) = element, <<"bool">>)
            [] e.op = "subset" ->
                 When(element \in Scalars /\ kind(2) = kind(1), <<"bool">>)
            [] e.op = "compare" ->
                 When(/\ kind(1) \in Scalars /\ kind(2) = kind(1)
                      /\ e.name \in {"eq", "ne"} \/ kind(1) = <<"number">>, <<"bool">>)
            [] e.op \in {"in", "matches", "replace"} -> WordedKind(e.op, e.words, kind(1))
    IN  [kind |-> found,
         paths |-> UNION {operands[i].paths : i \in DOMAIN e.args}
                   \cup (IF e.op = "field" /\ e.name = "path" /\ entity THEN {target[2]} ELSE {})]

(* A rule's expression is accepted: small, closed, and a truth value.      *)
Small(e) == Depth(e) <= MaxDepth /\ Nodes(e) <= MaxNodes
Accepts(e, sources) ==
    "entities" \notin sources /\ Small(e) /\ Check(e, sources, <<>>, Ill).kind = <<"bool">>

-----------------------------------------------------------------------------
(* Values: one atom, a collection of them, or nothing when the evaluation  *)
(* fails.                                                                  *)
One(atom) == [many |-> FALSE, items |-> <<atom>>]
Many(items) == [many |-> TRUE, items |-> items]
Failed == [many |-> FALSE, items |-> <<>>]
IsOne(value) == ~value.many /\ value # Failed
Is(value, is) == IsOne(value) /\ value.items[1].is = is
IfDefined(condition, value) == IF condition THEN value ELSE Failed

(* The order of two scalars; only those of one kind have one.              *)
Before(s, t) ==
    \/ IsStrictPrefix(s, t)
    \/ \E i \in DOMAIN s \cap DOMAIN t :
          s[i] < t[i] /\ SubSeq(s, 1, i - 1) = SubSeq(t, 1, i - 1)
Comparable(a, b) == a.is = b.is /\ a.is # "entity"
Less(a, b) == IF a.is = "string" THEN Before(a.text, b.text) ELSE a.n < b.n
Equal(a, b) == ~Less(a, b) /\ ~Less(b, a)

\* Plausible bug: the comparison that admits equals does not.
Holds_Strict(a, relation, b) ==
    CASE relation = "eq" -> Equal(a, b)
      [] relation = "ne" -> ~Equal(a, b)
      [] relation \in {"lt", "le"} -> Less(a, b)
      [] relation \in {"gt", "ge"} -> Less(b, a)

Holds(a, relation, b) ==
    CASE relation = "eq" -> Equal(a, b)
      [] relation = "ne" -> ~Equal(a, b)
      [] relation = "lt" -> Less(a, b)
      [] relation = "le" -> ~Less(b, a)
      [] relation = "gt" -> Less(b, a)
      [] relation = "ge" -> ~Less(a, b)

(* Sorting the places of a collection's items, by runs of doubling width.  *)
RECURSIVE Merge(_, _, _), Runs(_, _, _)
Merge(items, left, right) ==
    IF left = <<>> \/ right = <<>> THEN left \o right
    ELSE IF Less(items[right[1]], items[left[1]])
         THEN <<right[1]>> \o Merge(items, left, Tail(right))
         ELSE <<left[1]>> \o Merge(items, Tail(left), right)
Runs(items, places, width) ==
    IF width >= Len(places) THEN places
    ELSE LET pairs == (Len(places) + 2 * width - 1) \div (2 * width)
             run(k) == SubSeq(places, k * width + 1,
                               IF (k + 1) * width < Len(places) THEN (k + 1) * width ELSE Len(places))
         IN  Runs(items, FlattenSeq([j \in 1..pairs |-> Merge(items, run(2 * j - 2), run(2 * j - 1))]),
                  2 * width)
OrderedIndices(items) == Runs(items, [i \in DOMAIN items |-> i], 1)

(* The index of a collection: its first few distinct values, or a sorted   *)
(* list of all of its places.                                              *)
Probe(items) ==
    FoldLeftDomain(LAMBDA kept, i :
        IF Len(kept) > FewValues \/ \E k \in ToSet(kept) : Equal(items[k], items[i])
        THEN kept ELSE Append(kept, i), <<>>, items)

\* Plausible bug: the places are taken to be in order already.
ScalarIndex_Unsorted(items) ==
    LET few == Probe(items)
    IN  IF Len(few) <= FewValues THEN [sorted |-> FALSE, places |-> few]
        ELSE [sorted |-> TRUE, places |-> [i \in DOMAIN items |-> i]]

ScalarIndex(items) ==
    LET few == Probe(items)
    IN  IF Len(few) <= FewValues THEN [sorted |-> FALSE, places |-> few]
        ELSE [sorted |-> TRUE, places |-> OrderedIndices(items)]

Distinct(items) ==
    LET index == ScalarIndex(items)
        kept == FoldLeft(LAMBDA unique, place :
                    IF unique # <<>> /\ Equal(items[Last(unique)], items[place])
                    THEN unique ELSE Append(unique, place), <<>>, index.places)
    IN  IF ~index.sorted THEN [k \in DOMAIN index.places |-> items[index.places[k]]]
        ELSE LET first == SetToSortSeq(ToSet(kept), <)
             IN  [k \in DOMAIN first |-> items[first[k]]]

RECURSIVE Search(_, _, _, _, _)
Search(items, places, value, start, end) ==
    /\ start < end
    /\ LET middle == start + (end - start) \div 2
           found == items[places[middle]]
       IN  CASE Equal(found, value) -> TRUE
             [] Less(found, value) -> Search(items, places, value, middle + 1, end)
             [] OTHER -> Search(items, places, value, start, middle)
IndexedContains(items, index, value) ==
    IF index.sorted THEN Search(items, index.places, value, 1, Len(index.places) + 1)
    ELSE \E k \in ToSet(index.places) : Equal(items[k], value)

RECURSIVE Log2(_)
Log2(n) == IF n < 2 THEN 0 ELSE 1 + Log2(n \div 2)
ScanLimit(items) == 2 * Log2(IF items = <<>> THEN 1 ELSE Len(items)) + 1
Subset(left, right) ==
    IF Len(left) <= ScanLimit(right)
    THEN \A l \in ToSet(left) : \E r \in ToSet(right) : Equal(l, r)
    ELSE LET index == ScalarIndex(right)
         IN  \A l \in ToSet(left) : IndexedContains(right, index, l)

RECURSIVE Replace(_, _, _)
Replace(text, from, to) ==
    IF text = <<>> THEN <<>>
    ELSE IF IsPrefix(from, text)
         THEN to \o Replace(SubSeq(text, Len(from) + 1, Len(text)), from, to)
         ELSE <<text[1]>> \o Replace(Tail(text), from, to)

(* The evaluator.  Every operand is evaluated, whatever the others yield.  *)
Placed(source, entities) == [i \in DOMAIN entities |-> EntityOf(source, i)]
Fact(facts, atom, field) ==
    LET entity == facts[atom.from][atom.n]
    IN  CASE field = "name" -> entity.name
          [] field = "text" -> entity.text
          [] field = "path" -> entity.path

(* What a binder makes of its items and of its body's value for each.      *)
Bound(op, first, bodies) ==
    LET holds == {i \in DOMAIN bodies : bodies[i] = One(Truth(TRUE))}
        kept == SetToSortSeq(holds, <)
        decided == first.many /\ \A i \in DOMAIN bodies : Is(bodies[i], "bool")
    IN  CASE op = "all" -> IfDefined(decided, One(Truth(holds = DOMAIN bodies)))
          [] op = "any" -> IfDefined(decided, One(Truth(holds # {})))
          [] op = "filter" ->
               IfDefined(decided, Many([k \in DOMAIN kept |-> first.items[kept[k]]]))
          [] op = "map" ->
               IfDefined(first.many /\ \A i \in DOMAIN bodies : IsOne(bodies[i]),
                         Many([i \in DOMAIN bodies |-> bodies[i].items[1]]))

(* Collections and scalars compared with one another.                      *)
Compared(op, relation, first, second) ==
    LET comparable(items) == \A i, j \in DOMAIN items : Comparable(items[i], items[j])
        both == comparable(first.items \o second.items)
        value == second.items[1]
    IN  CASE op = "count" -> IfDefined(first.many, One(Number(Len(first.items))))
          [] op = "distinct" -> IfDefined(first.many /\ comparable(first.items), Many(Distinct(first.items)))
          [] op = "contains" ->
               IfDefined(first.many /\ IsOne(second) /\ both,
                         One(Truth(\E item \in ToSet(first.items) : Equal(item, value))))
          [] op = "subset" ->
               IfDefined(first.many /\ second.many /\ both, One(Truth(Subset(first.items, second.items))))
          [] op = "compare" ->
               IfDefined(IsOne(first) /\ IsOne(second) /\ both,
                         One(Truth(Holds(first.items[1], relation, value))))

(* Values against, or changed by, the words of the expression.             *)
Worded(op, words, first) ==
    LET atom == first.items[1]
    IN  CASE op = "in" ->
               IfDefined(IsOne(first) /\ \A word \in ToSet(words) : Comparable(atom, word),
                         One(Truth(\E word \in ToSet(words) : Equal(atom, word))))
          [] op = "matches" ->
               IfDefined(Is(first, "string"), One(Truth(words[1].text \in SubSeqs(atom.text))))
          [] op = "replace" ->
               IfDefined(Is(first, "string"), One(String(Replace(atom.text, words[1].text, words[2].text))))

RECURSIVE Eval(_, _, _, _)
Eval(e, facts, vars, current) ==
    LET v(i) == Eval(e.args[i], facts, vars, current)
        first == v(1)
        second == IF e.op \in {"count", "distinct"} THEN Many(<<>>) ELSE v(2)
        operands == [i \in DOMAIN e.args |-> v(i)]
        true == {i \in DOMAIN operands : operands[i] = One(Truth(TRUE))}
        operandsAre(kind) == \A i \in DOMAIN operands : Is(operands[i], kind)
        bodies ==                            \* a binder's body, for each item
            [i \in DOMAIN first.items |->
               LET item == first.items[i]
               IN  Eval(e.args[2], facts,
                        IF e.name = None THEN vars ELSE (e.name :> item) @@ vars, item)]
        target == IF e.args = <<>> THEN current ELSE IF IsOne(first) THEN first.items[1] ELSE None
    IN  CASE e.op \in {"bool", "number", "string"} -> One(e.words[1])
          [] e.op \in {"entities", "source"} ->
               LET source == IF e.op = "source" THEN e.name ELSE "entities"
               IN  IfDefined(source \in DOMAIN facts, Many(Placed(source, facts[source])))
          [] e.op = "var" -> IfDefined(e.name \in DOMAIN vars, One(vars[e.name]))
          [] e.op = "field" ->
               IfDefined(target # None /\ target.is = "entity" /\ Fact(facts, target, e.name) # None,
                         One(String(Fact(facts, target, e.name))))
          [] e.op = "and" -> IfDefined(operandsAre("bool"), One(Truth(true = DOMAIN operands)))
          [] e.op = "or" -> IfDefined(operandsAre("bool"), One(Truth(true # {})))
          [] e.op = "not" -> IfDefined(Is(first, "bool"), One(Truth(true = {})))
          [] e.op = "concat" ->
               IfDefined(operandsAre("string"),
                         One(String(FlattenSeq([i \in DOMAIN operands |-> operands[i].items[1].text]))))
          [] e.op \in Binders -> Bound(e.op, first, bodies)
          [] e.op \in {"count", "distinct", "contains", "subset", "compare"} ->
               Compared(e.op, e.name, first, second)
          [] e.op \in {"in", "matches", "replace"} -> Worded(e.op, e.words, first)

(* A verdict, or None: facts of every source must be complete, and have a  *)
(* path where the expression reads one, before anything is evaluated.      *)
Named(facts) == DOMAIN facts \ {"entities"}

\* Plausible bug: a path must be there only where the entities' own is read.
Usable_Entities(e, facts, complete) ==
    /\ DOMAIN facts \subseteq complete
    /\ "entities" \in Check(e, Named(facts), <<>>, Ill).paths =>
         \A i \in DOMAIN facts["entities"] : facts["entities"][i].path # None

Usable(e, facts, complete) ==
    /\ DOMAIN facts \subseteq complete
    /\ \A source \in Check(e, Named(facts), <<>>, Ill).paths :
         \A i \in DOMAIN facts[source] : facts[source][i].path # None

Evaluate(e, facts, complete) ==
    LET value == Eval(e, facts, <<>>, None)
    IN  IF Accepts(e, Named(facts)) /\ Usable(e, facts, complete) /\ Is(value, "bool")
        THEN value = One(Truth(TRUE)) ELSE None

-----------------------------------------------------------------------------
(* Versions 1 and 2: entity fields are those of the innermost predicate,   *)
(* and the only collection is that of the entities.                        *)
LegacyOps == {"bool", "number", "string", "field", "entities", "and", "or", "not", "all", "any",
              "filter", "count", "compare", "in", "matches"}
RECURSIVE Legacy(_), LegacyKind(_, _), LegacyEval(_, _, _)
Legacy(e) ==
    /\ e.op \in LegacyOps
    /\ e.op \in Binders => e.name = None
    /\ e.op = "field" => e.args = <<>>
    /\ \A arg \in ToSet(e.args) : Legacy(arg)
LegacyKind(e, bound) ==
    LET kind(i) == LegacyKind(e.args[i], bound \/ (e.op \in Binders /\ i = 2))
    IN  CASE e.op \in {"bool", "number", "string"} -> e.op
          [] e.op = "field" -> IF bound THEN "string" ELSE "ill"
          [] e.op = "entities" -> "collection"
          [] e.op \in {"and", "or", "not"} ->
               IF e.args # <<>> /\ \A i \in DOMAIN e.args : kind(i) = "bool" THEN "bool" ELSE "ill"
          [] e.op \in Binders ->
               IF kind(1) = "collection" /\ kind(2) = "bool"
               THEN IF e.op = "filter" THEN "collection" ELSE "bool" ELSE "ill"
          [] e.op = "count" -> IF kind(1) = "collection" THEN "number" ELSE "ill"
          [] e.op = "compare" ->
               IF /\ kind(1) = kind(2) /\ kind(1) \in {"bool", "number", "string"}
                  /\ e.name \in {"eq", "ne"} \/ kind(1) = "number" THEN "bool" ELSE "ill"
          [] e.op = "in" ->
               IF e.words # <<>> /\ {w.is : w \in ToSet(e.words)} = {kind(1)} THEN "bool" ELSE "ill"
          [] e.op = "matches" -> IF kind(1) = "string" THEN "bool" ELSE "ill"
LegacyAccepts(e) == Legacy(e) /\ Small(e) /\ LegacyKind(e, FALSE) = "bool"

(* Its evaluator works on the places of the entities: here a truth value,  *)
(* a number, a string or a sequence of places, as the kind says.           *)
LegacyEval(e, entities, current) ==
    LET v(i) == LegacyEval(e.args[i], entities, current)
        holds == SelectSeq(v(1), LAMBDA i : LegacyEval(e.args[2], entities, i))
        scalar == LegacyKind(e.args[1], TRUE)
        equal(word) ==
            CASE scalar = "bool" -> v(1) = (word.n = 1)
              [] scalar = "number" -> v(1) = word.n
              [] scalar = "string" -> v(1) = word.text
    IN  CASE e.op = "bool" -> e.words[1].n = 1
          [] e.op = "number" -> e.words[1].n
          [] e.op = "string" -> e.words[1].text
          [] e.op = "field" -> entities[current][e.name]
          [] e.op = "entities" -> [i \in DOMAIN entities |-> i]
          [] e.op = "and" -> \A i \in DOMAIN e.args : v(i)
          [] e.op = "or" -> \E i \in DOMAIN e.args : v(i)
          [] e.op = "not" -> ~v(1)
          [] e.op = "all" -> Len(holds) = Len(v(1))
          [] e.op = "any" -> holds # <<>>
          [] e.op = "filter" -> holds
          [] e.op = "count" -> Len(v(1))
          [] e.op = "in" -> \E word \in ToSet(e.words) : equal(word)
          [] e.op = "matches" -> e.words[1].text \in SubSeqs(v(1))
          [] e.op = "compare" ->
               CASE e.name = "eq" -> v(1) = v(2)
                 [] e.name = "ne" -> v(1) # v(2)
                 [] e.name = "lt" -> v(1) < v(2)
                 [] e.name = "le" -> v(1) <= v(2)
                 [] e.name = "gt" -> v(1) > v(2)
                 [] e.name = "ge" -> v(1) >= v(2)
LegacyEvaluate(e, entities) ==
    LET paths == "entities" \in Check(e, {}, <<>>, Ill).paths
    IN  IF LegacyAccepts(e) /\ (paths => \A i \in DOMAIN entities : entities[i].path # None)
        THEN LegacyEval(e, entities, None) ELSE None

-----------------------------------------------------------------------------
(* An expression the checker gives a kind has a value of that kind on all  *)
(* facts it may be evaluated on: no rule is accepted only to stop on a     *)
(* type error once some repository has the entities for it.                *)
KindOf(atom) == IF atom.is = "entity" THEN EntityKind(atom.from) ELSE <<atom.is>>
HasKind(value, kind) ==
    IF kind[1] = "collection"
    THEN value.many /\ \A atom \in ToSet(value.items) : KindOf(atom) = Element(kind)
    ELSE IsOne(value) /\ KindOf(value.items[1]) = kind
WellTypedEvaluates(e, facts, complete) ==
    LET kind == Check(e, Named(facts), <<>>, Ill).kind
    IN  kind # Ill /\ Usable(e, facts, complete) => HasKind(Eval(e, facts, <<>>, None), kind)

(* The verdict does not depend on the order in which facts were collected. *)
OrderOfFactsIrrelevant(e, facts, complete) ==
    Evaluate(e, facts, complete)
      = Evaluate(e, [source \in DOMAIN facts |-> Reverse(facts[source])], complete)

(* A rule of version 1 or 2 is accepted by, and has its verdict under,     *)
(* version 3: its expression keeps its meaning when the rule is moved on.  *)
LegacyKeepsItsMeaning(e, facts, complete) ==
    Legacy(e) => /\ LegacyAccepts(e) <=> Accepts(e, {})
                 /\ "entities" \in complete
                      => LegacyEvaluate(e, facts["entities"])
                           = Evaluate(e, [entities |-> facts["entities"]], {"entities"})

(* Whichever way it is computed, scan, list of few or sorted index: the    *)
(* distinct items are the first occurrences, in their order, and inclusion *)
(* is that of the sets of values.                                          *)
IndexRight(left, right) ==
    /\ Distinct(left) = FoldLeft(LAMBDA seen, item :
            IF item \in ToSet(seen) THEN seen ELSE Append(seen, item), <<>>, left)
    /\ Subset(left, right) <=> ToSet(left) \subseteq ToSet(right)
=============================================================================
