------------------------------- MODULE Querying -------------------------------
(***************************************************************************)
(* Requests that filter, sort and page one table (core/querying.py), each   *)
(* answered by three endpoints with the same QuerySpec: apply_query on a    *)
(* select, where_fragment in a template string, and build_where_clause with *)
(* bind on a text query.  The database is SQL Server.                       *)
(***************************************************************************)
EXTENDS Filters

CONSTANTS Columns, Values,  \* of the table
          Fields,           \* the filters a request model declares, as FilterField's
          Options,          \* keys and values a request may give
          Sorts, Limits, Offsets,
          FixedClauses,     \* what the developer puts in front of the filters
          Bounds,           \* the values a text query has before bind
          MaxFilters

\* The names of operators.
Comparisons == {"eq", "ne", "lt", "lte", "gt", "gte", "like", "ilike"}
Operators == Comparisons \union {"in", "isnull", "notnull"}

Typed == {Nothing} \union [kind : {"number"}, n : Values]
            \union [kind : {"several"}, items : Seq(Values)]
            \union [kind : {"truth"}, is : BOOLEAN]
            \union [kind : {"word"}, word : Words]

\* A value has its column's type; only `in` takes several, and what isnull and
\* notnull are given is looked at later.
Fits(operator, value) ==
    CASE operator \in NullFilterOperators -> TRUE
      [] operator = "in" -> value.kind \in {"number", "several"}
      [] OTHER -> value.kind = "number"

ASSUME QueryingAssumption ==
    /\ MaxFilters \in Nat /\ Values \subseteq Int /\ Null \notin Values
    /\ Operators \subseteq Words /\ DOMAIN Filterable \subseteq Names
    /\ \A f \in DOMAIN Filterable : Filterable[f] \in Columns
    /\ \A f \in DOMAIN Sortable : Sortable[f] \in Columns
    /\ Named \subseteq Columns
    /\ \A o \in Options :
           /\ o.key \in Names /\ o.value \in Typed
           /\ o.value # Nothing => Fits(ParseFilterKey(o.key).operator[1], o.value)
    /\ \A f \in FixedClauses : \A c \in f : \A p \in c : p.symbol \notin {"IN", "ILIKE"}
    /\ \A s \in Sorts : s # Nothing => s.tokens \in Seq(Names)
    \* a default sort names a field
    /\ DefaultSort # Nothing =>
           /\ DefaultSort.tokens \in Seq(Names)
           /\ \E k \in DOMAIN DefaultSort.tokens : DefaultSort.tokens[k] # << >>

VARIABLES filters,  \* the request's parameters, in order
          paging,   \* its sort, limit and offset
          fixed, bound,
          answer
vars == <<filters, paging, fixed, bound, answer>>

Unanswered == [answered |-> FALSE]
Unpaged == [sort |-> Nothing, limit |-> Nothing, offset |-> Nothing]
Rows == [Columns -> Values \cup {Null}]

Init == /\ filters = << >>
        /\ paging = Unpaged
        /\ fixed \in FixedClauses /\ bound \in Bounds
        /\ \A c \in fixed : \A p \in c : p.name \in DOMAIN bound
        /\ answer = Unanswered

-----------------------------------------------------------------------------
(* The request.                                                            *)

AskFilter(option) ==
    /\ ~answer.answered
    /\ Len(filters) < MaxFilters
    /\ \A i \in DOMAIN filters : filters[i].key # option.key
    /\ filters' = Append(filters, option)
    /\ UNCHANGED <<paging, fixed, bound, answer>>

AskPage(sort, limit, offset) ==
    /\ ~answer.answered /\ paging = Unpaged
    /\ paging' = [sort |-> sort, limit |-> limit, offset |-> offset]
    /\ UNCHANGED <<filters, fixed, bound, answer>>

-----------------------------------------------------------------------------
(* The answers.                                                            *)

\* The fixed clauses with the values of their parameters.
FixedConditions ==
    {{[column |-> p.column, symbol |-> p.symbol, value |-> bound[p.name]] : p \in c} : c \in fixed}

Select(clauses) == {row \in Rows : GroupedHolds(clauses, row)}

\* SQL Server has no ILIKE, and a list needs an expanding parameter.
RunsOnSqlServer(clause, names) ==
    \A p \in clause : /\ p.symbol # "ILIKE"
                      /\ p.symbol = "IN" => p.name \in names

Failure == [refused |-> FALSE, failed |-> TRUE]

RunText(where, values) ==
    IF \A c \in where.clauses : RunsOnSqlServer(c, where.expanding)
    THEN Accept(Select({{[column |-> p.column, symbol |-> p.symbol,
                          value |-> IF p.name \in DOMAIN values THEN values[p.name] ELSE Nothing] :
                             p \in c} : c \in where.clauses}))
    ELSE Failure

\* build_where_clause, and bind onto the text query it is part of.
RawRows ==
    LET where == BuildWhereClause(fixed, filters)
        values == Bind(bound, where.it)
    IN  CASE where.refused -> Refusal
          [] values.refused -> Refusal
          [] OTHER -> RunText(where.it, values.it)

FragmentRows ==
    LET where == WhereFragment(FixedConditions, filters)
    IN  IF where.refused THEN Refusal ELSE Accept(Select(where.it))

\* apply_query: apply_filters, apply_sort and apply_pagination, in this order.
ApplyQuery ==
    LET conditions == FilterConditions(filters)
        order == SortClauses(paging.sort)
        page == Pagination(paging.limit, paging.offset)
    IN  IF conditions.refused \/ order.refused \/ page.refused THEN Refusal
        ELSE Accept([rows |-> Select(FixedConditions \union conditions.it),
                     order |-> order.it, page |-> page.it])

Answer ==
    /\ ~answer.answered
    /\ answer' = [answered |-> TRUE, orm |-> ApplyQuery, fragment |-> FragmentRows,
                  fragmentOrder |-> OrderByFragment(paging.sort),
                  raw |-> RawRows, rawOrder |-> BuildOrderByClause(paging.sort)]
    /\ UNCHANGED <<filters, paging, fixed, bound>>

Next == \/ \E o \in Options : AskFilter(o)
        \/ \E s \in Sorts, l \in Limits, o \in Offsets : AskPage(s, l, o)
        \/ Answer

Spec == Init /\ [][Next]_vars

-----------------------------------------------------------------------------
(* Properties.                                                             *)

FixedHolds(row) ==
    \A c \in fixed : \E p \in c : IsTrue(p.symbol, row[p.column], bound[p.name])

\* What a key stands for: without an operator, or with an empty one, it is eq.
Says(filter, name, operator) ==
    /\ name \in DOMAIN Filterable
    /\ \/ filter.key = name \o Separator \o <<operator>>
       \/ operator = "eq" /\ filter.key \in {name, name \o Separator}

Affirms(value) == value = Truth(TRUE) \/ \E w \in Yes : value = Word(w)
Negates(value) == value = Truth(FALSE) \/ \E w \in No : value = Word(w)

Usable(operator, value) ==
    \/ operator \in Comparisons
    \/ operator = "in" /\ value # Several(<< >>)
    \/ operator \in {"isnull", "notnull"} /\ (Affirms(value) \/ Negates(value))

Meaning(operator, x, value) ==
    CASE operator = "isnull" -> (x = Null) = Affirms(value)
      [] operator = "notnull" -> (x = Null) = Negates(value)
      [] operator = "in" -> IF value.kind = "several"
                            THEN \E k \in DOMAIN value.items : x = value.items[k]
                            ELSE x = value.n
      [] operator \in {"eq", "like", "ilike"} -> x = value.n
      [] operator = "ne" -> x # Null /\ x # value.n
      [] operator = "lt" -> x # Null /\ x < value.n
      [] operator = "lte" -> x # Null /\ x <= value.n
      [] operator = "gt" -> x # Null /\ x > value.n
      [] operator = "gte" -> x # Null /\ x >= value.n

\* The filters that are given, and what they ask for.
Asks(i, name, operator) == i \in Given(filters) /\ Says(filters[i], name, operator)

Understood ==
    \A i \in Given(filters) : \E n \in DOMAIN Filterable, o \in Operators :
        Asks(i, n, o) /\ Usable(o, filters[i].value)

Meant ==
    {row \in Rows :
        /\ FixedHolds(row)
        /\ \A i \in Given(filters) : \E n \in DOMAIN Filterable, o \in Operators :
               Asks(i, n, o) /\ Meaning(o, row[Filterable[n]], filters[i].value)}

\* What only raw SQL cannot say: a column whose name is no identifier, a parameter
\* that has a value already, and a fixed clause in the generated ones' namespace.
Sayable ==
    /\ \A i \in Given(filters), n \in DOMAIN Filterable, o \in Operators :
           Asks(i, n, o) => /\ Filterable[n] \in Named
                            /\ o \in Comparisons \union {"in"} =>
                                   <<"generated", i>> \notin DOMAIN bound
    /\ \A c \in fixed : \A p \in c : p.name[1] # "generated"

\* The three ways to filter accept the same requests and select the same rows: those
\* for which what the developer fixed and every filter that is given hold, each on
\* its own.  What only raw SQL cannot say, it refuses; ilike fails on SQL Server.
SelectsTheSameRows ==
    answer.answered =>
        /\ answer.fragment = IF Understood THEN Accept(Meant) ELSE Refusal
        /\ ~answer.orm.refused => Understood /\ answer.orm.it.rows = Meant
        /\ \/ \E i \in Given(filters), n \in DOMAIN Filterable : Asks(i, n, "ilike")
           \/ answer.raw = IF Understood /\ Sayable THEN Accept(Meant) ELSE Refusal

\* With a default sort, a page that starts behind the first row has an order, which
\* SQL Server requires (without one the statement does not compile): also when the
\* sort is empty, though not when it is blank (order_by_fragment's docstring promises
\* an order then too).  The fragment and the raw clause have the same order.
OffsetsHaveAnOrder ==
    answer.answered /\ ~answer.orm.refused =>
        LET page == answer.orm.it.page
            blank == paging.sort # Nothing /\ paging.sort.tokens # << >>
                     /\ \A k \in DOMAIN paging.sort.tokens : paging.sort.tokens[k] = << >>
        IN  /\ /\ DefaultSort # Nothing /\ ~blank
               /\ page.offset.kind = "number" /\ page.offset.n > 0
               => answer.orm.it.order # << >>
            /\ answer.fragmentOrder.it = answer.orm.it.order
            /\ ~answer.rawOrder.refused => answer.rawOrder.it = answer.orm.it.order

\* create_filter_model's docstring: the model "produces filters suitable for"
\* apply_query.  A request made of the keys the model declares is applied.
DeclaredFiltersAreAccepted ==
    (/\ answer.answered
     /\ \A i \in DOMAIN filters :
            \E d \in FilterFieldDefinitions(Fields) : d.key = filters[i].key)
        => ~answer.fragment.refused
=============================================================================
