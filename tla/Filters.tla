-------------------------------- MODULE Filters --------------------------------
(***************************************************************************)
(* The pure part of core/querying.py and core/filtering.py: request keys    *)
(* and values, the conditions built from them for SQLAlchemy statements and *)
(* for raw SQL, sorting and pagination.                                     *)
(*                                                                         *)
(* A name is the sequence of its parts, so that "class_" is                 *)
(* <<"class", Underscore>> and the key "class___in" has three underscores.  *)
(* A WHERE keeps the rows its condition is true for; without a NOT,         *)
(* "unknown" may be treated as false.                                       *)
(***************************************************************************)
EXTENDS Integers, Sequences, Comprehensions, FiniteSetsExt

CONSTANTS Words,        \* what texts are made of, apart from underscores
          Filterable,   \* QuerySpec: public names and their columns
          Sortable,
          DefaultSort,  \* what it lists, or Nothing
          Named,        \* the columns whose names are plain SQL identifiers
          Null

Nothing == [kind |-> "nothing"]
Number(n) == [kind |-> "number", n |-> n]
Several(ns) == [kind |-> "several", items |-> ns]
Truth(b) == [kind |-> "truth", is |-> b]
Word(w) == [kind |-> "word", word |-> w]

Refusal == [refused |-> TRUE]
Accept(x) == [refused |-> FALSE, it |-> x]

-----------------------------------------------------------------------------
(* Keys.                                                                   *)

Underscore == "underscore"
Names == Seq(Words \union {Underscore})
Separator == <<Underscore, Underscore>>

FilterKey(field, operator) ==
    IF operator = "eq" THEN field ELSE field \o Separator \o <<operator>>

\* The keys a model declares; fields[f] is the set of operators of f.
FilterFieldDefinitions(fields) ==
    UNION {{[key |-> FilterKey(f, o), operator |-> o] : o \in fields[f]} : f \in DOMAIN fields}

\* key.partition("__"): the first separator counts.
ParseFilterKey(key) ==
    LET separators == {i \in 1..Len(key) - 1 : key[i] = Underscore /\ key[i + 1] = Underscore}
        at == Min(separators)
        rest == SubSeq(key, at + 2, Len(key))
    IN  IF separators = {} THEN [field |-> key, operator |-> <<"eq">>]
        ELSE [field |-> SubSeq(key, 1, at - 1),
              operator |-> IF rest = << >> THEN <<"eq">> ELSE rest]

-----------------------------------------------------------------------------
(* Filters.                                                                *)

ColumnFilterOperators ==
    [eq |-> "=", ne |-> "!=", lt |-> "<", lte |-> "<=", gt |-> ">", gte |-> ">=",
     like |-> "LIKE", ilike |-> "lower_LIKE_lower"]

RawFilterOperators ==
    [eq |-> "=", ne |-> "!=", lt |-> "<", lte |-> "<=", gt |-> ">", gte |-> ">=",
     like |-> "LIKE", ilike |-> "ILIKE"]

NullFilterOperators == {"isnull", "notnull"}

Yes == {"1", "true", "t", "yes", "y", "on"}
No == {"0", "false", "f", "no", "n", "off"}

\* _coerce_bool_filter, on a word that is stripped and in lower case.
IsBool(value) == value.kind = "truth" \/ (value.kind = "word" /\ value.word \in Yes \cup No)
CoerceBoolFilter(value) == IF value.kind = "truth" THEN value.is ELSE value.word \in Yes

MatchesNull(operator, value) == CoerceBoolFilter(value) = (operator = "isnull")

CoerceInValues(value) == IF value.kind = "several" THEN value.items ELSE <<value.n>>

\* None is skipped, so that optional parameters may be passed on.
Given(filters) == {i \in DOMAIN filters : filters[i].value # Nothing}

NormalizedFilter(filters, i) ==
    LET parsed == ParseFilterKey(filters[i].key)
        operator == Head(parsed.operator)
        value == filters[i].value
        As(o, v) == Accept([index |-> i, column |-> Filterable[parsed.field],
                            operator |-> o, value |-> v])
    IN  IF parsed.field \notin DOMAIN Filterable \/ Len(parsed.operator) # 1 THEN Refusal
        ELSE CASE operator \in NullFilterOperators ->
                      IF ~IsBool(value) THEN Refusal
                      ELSE As(IF MatchesNull(operator, value) THEN "isnull" ELSE "notnull", Nothing)
               [] operator = "in" ->
                      IF CoerceInValues(value) = << >> THEN Refusal
                      ELSE As("in", Several(CoerceInValues(value)))
               [] operator \in DOMAIN ColumnFilterOperators -> As(operator, value)
               [] OTHER -> Refusal

NormalizeFilters(filters) ==
    LET normalized == [i \in Given(filters) |-> NormalizedFilter(filters, i)]
    IN  IF \E i \in Given(filters) : normalized[i].refused THEN Refusal
        ELSE Accept({normalized[i].it : i \in Given(filters)})

-----------------------------------------------------------------------------
(* Conditions.  A WHERE is a set of clauses that AND joins, and a clause a  *)
(* set of predicates that OR joins: their order decides nothing.           *)

IsTrue(symbol, x, value) ==
    \/ symbol = "IS_NULL" /\ x = Null
    \/ symbol = "IS_NOT_NULL" /\ x # Null
    \/ symbol = "IN" /\ \E k \in DOMAIN value.items : x = value.items[k]
    \/ symbol \in {"=", "LIKE", "lower_LIKE_lower"} /\ x = value.n
    \/ /\ x # Null
       /\ \/ symbol = "!=" /\ x # value.n
          \/ symbol = "<" /\ x < value.n
          \/ symbol = "<=" /\ x <= value.n
          \/ symbol = ">" /\ x > value.n
          \/ symbol = ">=" /\ x >= value.n

Symbol(operator, comparisons) ==
    CASE operator = "isnull" -> "IS_NULL"
      [] operator = "notnull" -> "IS_NOT_NULL"
      [] operator = "in" -> "IN"
      [] OTHER -> comparisons[operator]

\* _filter_conditions; the value is part of the expression.
FilterConditions(filters) ==
    LET normalized == NormalizeFilters(filters)
    IN  IF normalized.refused THEN Refusal
        ELSE Accept({{[column |-> f.column, symbol |-> Symbol(f.operator, ColumnFilterOperators),
                       value |-> f.value]} : f \in normalized.it})

\* Each clause is in parentheses of its own.
GroupedHolds(clauses, row) ==
    \A c \in clauses : \E p \in c : IsTrue(p.symbol, row[p.column], p.value)

\* where_fragment: fixed conditions and the filters.
WhereFragment(fixed, filters) ==
    LET conditions == FilterConditions(filters)
    IN  IF conditions.refused THEN Refusal ELSE Accept(fixed \union conditions.it)

-----------------------------------------------------------------------------
(* Raw SQL: predicates name a parameter of the query.                      *)

\* Faulty variant: a parameter is called after its column.
NamedByColumn(filter) == <<"generated", filter.column>>

Generated(filter) == <<"generated", filter.index>>
IsGenerated(name) == name[1] = "generated"

\* IS NULL and IS NOT NULL have no parameter.
Valued(given) == {f \in given : f.operator \notin NullFilterOperators}

\* params[name] = value: the last one stays.
LastOf(given, n) ==
    CHOOSE f \in Valued(given) : /\ Generated(f) = n
                                 /\ \A g \in Valued(given) : Generated(g) = n => g.index <= f.index

RawCondition(f) ==
    {[column |-> f.column, symbol |-> Symbol(f.operator, RawFilterOperators), name |-> Generated(f)]}

RawWhere(fixed, given) ==
    [clauses |-> fixed \union {RawCondition(f) : f \in given},
     params |-> [n \in {Generated(f) : f \in Valued(given)} |-> LastOf(given, n).value],
     expanding |-> {Generated(f) : f \in {g \in Valued(given) : g.operator = "in"}}]

BuildWhereClause(fixed, filters) ==
    LET normalized == NormalizeFilters(filters)
    IN  IF \/ \E c \in fixed : \E p \in c : IsGenerated(p.name)
           \/ normalized.refused
           \/ \E f \in normalized.it : f.column \notin Named
        THEN Refusal ELSE Accept(RawWhere(fixed, normalized.it))

\* RawWhereClause.bind, on a query some of whose parameters have values.
Bind(bound, where) ==
    IF DOMAIN bound \cap DOMAIN where.params # {} THEN Refusal
    ELSE Accept([n \in DOMAIN bound \cup DOMAIN where.params |->
                    IF n \in DOMAIN where.params THEN where.params[n] ELSE bound[n]])

-----------------------------------------------------------------------------
(* Sorting and pagination.                                                 *)

\* A token is stripped; what is left may be nothing.
ParseSort(tokens) ==
    LET listed == Only(tokens, {i \in DOMAIN tokens : tokens[i] # << >>})
    IN  [k \in DOMAIN listed |->
            IF Head(listed[k]) = "-" THEN [field |-> Tail(listed[k]), descending |-> TRUE]
            ELSE [field |-> listed[k], descending |-> FALSE]]

\* Faulty variant: an empty string is taken for a sort expression.
RequestedSort(sort) == IF sort # Nothing THEN sort ELSE DefaultSort

\* None and the empty string fall back to the default.
EffectiveSort(sort) ==
    IF sort # Nothing /\ sort.tokens # << >> THEN sort ELSE DefaultSort

Tokens(sort) == IF sort = Nothing THEN << >> ELSE sort.tokens

SortClauses(sort) ==
    LET requested == ParseSort(Tokens(EffectiveSort(sort)))
    IN  IF \E k \in DOMAIN requested : requested[k].field \notin DOMAIN Sortable THEN Refusal
        ELSE Accept([k \in DOMAIN requested |->
                        [column |-> Sortable[requested[k].field],
                         descending |-> requested[k].descending]])

\* What ORDER BY is put in front of; without clauses, the fragment is "".
OrderByFragment(sort) == SortClauses(sort)

BuildOrderByClause(sort) ==
    LET clauses == SortClauses(sort)
    IN  IF clauses.refused \/ \E k \in DOMAIN clauses.it : clauses.it[k].column \notin Named
        THEN Refusal ELSE clauses

\* _coerce_int fails on a word that is no number.
Pagination(limit, offset) ==
    IF \/ limit.kind = "word" \/ offset.kind = "word"
       \/ limit.kind = "number" /\ limit.n <= 0
       \/ offset.kind = "number" /\ offset.n < 0
    THEN Refusal ELSE Accept([limit |-> limit, offset |-> offset])
=============================================================================
