------------------------------ MODULE MCQuerying ------------------------------
(***************************************************************************)
(* Constants for Querying: a table with two columns, one of which has a name *)
(* that is no SQL identifier.                                               *)
(***************************************************************************)
EXTENDS Querying, TLC

CONSTANTS plain, odd

MCWords == Operators \union {"p", "o", "x", "class", "between", "perhaps", "yes", "off", "two", "-"}
MCFilterable == (<<"p">> :> plain) @@ (<<"o">> :> odd)
MCSortable == MCFilterable
MCDefaultSort == [kind |-> "sort", tokens |-> << <<"p">> >>]

\* Every operator on one column, some of them on the other, and two keys nothing
\* is declared for.
Key(name, operator) == FilterKey(<<name>>, operator)
Option(key, value) == [key |-> key, value |-> value]

MCOptions ==
    {Option(Key("p", o), Number(1)) : o \in DOMAIN ColumnFilterOperators}
    \cup {Option(Key("p", "lte"), Nothing), Option(Key("p", "eq"), Nothing),
          Option(Key("p", "in"), Number(1)), Option(Key("p", "in"), Several(<<0, 2>>)),
          Option(Key("p", "in"), Several(<< >>)),
          Option(Key("p", "isnull"), Truth(TRUE)), Option(Key("p", "isnull"), Word("off")),
          Option(Key("p", "notnull"), Word("yes")), Option(Key("p", "notnull"), Word("perhaps")),
          Option(Key("o", "eq"), Number(0)), Option(Key("o", "isnull"), Truth(TRUE)),
          Option(Key("x", "eq"), Number(0)), Option(Key("x", "eq"), Nothing),
          Option(Key("p", "between"), Number(1)), Option(<<"p", Underscore, Underscore>>, Number(2)),
          Option(<<"p", Underscore, Underscore, "eq">>, Number(0))}

MCSort(tokens) == [kind |-> "sort", tokens |-> tokens]
MCSorts == {Nothing, MCSort(<< >>), MCSort(<< << >>, << >> >>),
            MCSort(<< <<"-", "p">>, << >>, <<"o">> >>), MCSort(<< <<"x">> >>)}
MCLimits == {Number(1), Number(0)}  \* no limit: a request that asks for no page
MCOffsets == {Nothing, Number(0), Number(1), Number(-1), Word("two")}

Predicate(column, symbol, name) == [column |-> column, symbol |-> symbol, name |-> name]
MCFixedClauses ==
    {{},
     {{Predicate(plain, "=", <<"term">>), Predicate(odd, "=", <<"term">>)}},
     {{Predicate(plain, "=", <<"generated", 1>>)}}}
MCBounds ==
    {<<"term">> :> Number(1), (<<"term">> :> Number(1)) @@ (<<"generated", 1>> :> Number(2))}

MCFields == (<<"p">> :> {"eq", "in"}) @@ (<<"o">> :> {"eq"})

\* A model with a field called class_.
KeyFields == (<<"p">> :> {"eq", "in"}) @@ (<<"class", Underscore>> :> {"eq", "gte"})
KeyFilterable == (<<"p">> :> plain) @@ (<<"class", Underscore>> :> odd)
KeyOptions == {Option(d.key, IF d.operator = "in" THEN Several(<<1>>) ELSE Number(1)) :
                   d \in FilterFieldDefinitions(KeyFields)}
Unsorted == {Nothing}
=============================================================================
