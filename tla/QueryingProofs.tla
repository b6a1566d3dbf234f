---------------------------- MODULE QueryingProofs ----------------------------
(***************************************************************************)
(* Theorems about Querying, for any fields and columns, requests with any  *)
(* number of filters, fixed clauses and sorts.                             *)
(***************************************************************************)
EXTENDS Querying, FiniteSetTheorems, SequenceTheorems, WellFoundedInduction, TLAPS

-----------------------------------------------------------------------------
(* Keys are taken apart where they were joined.                            *)

\* A name that cannot be taken for the front of a key: `_parse_filter_key` splits
\* at the first two underscores.
CleanName(name) ==
    /\ \A i \in 1..Len(name) - 1 : ~(name[i] = Underscore /\ name[i + 1] = Underscore)
    /\ name # << >> => name[Len(name)] # Underscore

CleanNames == \A name \in DOMAIN Filterable : CleanName(name)

Less == {ss \in Nat \X Nat : ss[1] < ss[2]}

LEMMA Least ==
    ASSUME NEW T \in SUBSET Nat, T # {}
    PROVE  \E x \in T : \A y \in T : x <= y
  <1>1. IsWellFoundedOn(Less, Nat)
    BY NatLessThanWellFounded DEF OpToRel, Less
  <1>2. PICK x \in T : \A y \in T : ~(<<y, x>> \in Less)
    BY <1>1, WFMin
  <1>3. ASSUME NEW y \in T PROVE ~(y < x)
    BY <1>2 DEF Less
  <1> QED
    BY <1>3

LEMMA LeastIsMin ==
    ASSUME NEW T \in SUBSET Nat, T # {}
    PROVE  Min(T) \in T
  BY Least DEF Min

Separators(key) == {i \in 1..Len(key) - 1 : key[i] = Underscore /\ key[i + 1] = Underscore}

LEMMA SeparatorType ==
    ASSUME NEW S, Underscore \in S
    PROVE  /\ Separator \in Seq(S) /\ Len(Separator) = 2
           /\ Separator[1] = Underscore /\ Separator[2] = Underscore
  BY DEF Separator

Split(key, at) ==
    [field |-> SubSeq(key, 1, at - 1),
     operator |-> IF SubSeq(key, at + 2, Len(key)) = << >> THEN <<"eq">>
                  ELSE SubSeq(key, at + 2, Len(key))]

LEMMA ParsedBySplit ==
    ASSUME NEW key
    PROVE  ParseFilterKey(key) =
               IF Separators(key) = {} THEN [field |-> key, operator |-> <<"eq">>]
               ELSE Split(key, Min(Separators(key)))
  BY Zenon DEF ParseFilterKey, Separators, Split

\* A name, a separator and the rest of a key, position by position.
IsJoined(key, name, rest) ==
    /\ Len(key) = Len(name) + 2 + Len(rest)
    /\ \A i \in 1..Len(name) : key[i] = name[i]
    /\ key[Len(name) + 1] = Underscore /\ key[Len(name) + 2] = Underscore
    /\ \A i \in 1..Len(rest) : key[Len(name) + 2 + i] = rest[i]

LEMMA Joined ==
    ASSUME NEW S, Underscore \in S, NEW name \in Seq(S), NEW rest \in Seq(S)
    PROVE  /\ name \o Separator \o rest \in Seq(S)
           /\ IsJoined(name \o Separator \o rest, name, rest)
  <1>00. PICK key : key = name \o Separator \o rest
    OBVIOUS
  <1>0. Len(Separator) = 2 /\ Separator \in Seq(S)
    BY SeparatorType, Zenon
  <1>1. PICK front : front = name \o Separator
    OBVIOUS
  <1>2. /\ front \in Seq(S) /\ Len(front) = Len(name) + Len(Separator)
        /\ \A i \in 1..Len(name) + Len(Separator) :
               front[i] = IF i <= Len(name) THEN name[i] ELSE Separator[i - Len(name)]
    BY <1>1, SeparatorType, ConcatProperties
  <1>3. /\ key \in Seq(S) /\ Len(key) = Len(front) + Len(rest)
        /\ \A i \in 1..Len(front) + Len(rest) :
               key[i] = IF i <= Len(front) THEN front[i] ELSE rest[i - Len(front)]
    BY <1>00, <1>1, <1>2, ConcatProperties
  <1>4. Len(name) \in Nat /\ Len(rest) \in Nat /\ Len(front) = Len(name) + 2
    BY <1>0, <1>2
  <1>5. ASSUME NEW i \in 1..Len(name) PROVE key[i] = name[i]
    BY <1>2, <1>3, <1>4, SeparatorType
  <1>6. key[Len(name) + 1] = Underscore /\ key[Len(name) + 2] = Underscore
    BY <1>2, <1>3, <1>4, SeparatorType
  <1>7. ASSUME NEW i \in 1..Len(rest) PROVE key[Len(name) + 2 + i] = rest[i]
    BY <1>3, <1>4
  <1> QED
    BY <1>00, <1>3, <1>4, <1>5, <1>6, <1>7 DEF IsJoined

LEMMA ParsedByItself ==
    ASSUME NEW S, Underscore \in S, NEW name \in Seq(S), CleanName(name)
    PROVE  ParseFilterKey(name) = [field |-> name, operator |-> <<"eq">>]
  <1>1. Separators(name) = {}
    BY DEF CleanName, Separators
  <1> QED
    BY <1>1 DEF ParseFilterKey, Separators

LEMMA ParsedWithOperator ==
    ASSUME NEW S, Underscore \in S, NEW name \in Seq(S), CleanName(name), NEW rest \in Seq(S)
    PROVE  ParseFilterKey(name \o Separator \o rest) =
               [field |-> name, operator |-> IF rest = << >> THEN <<"eq">> ELSE rest]
  <1> DEFINE m == Len(name)
  <1>0. PICK key : key = name \o Separator \o rest
    OBVIOUS
  <1>1. /\ key \in Seq(S) /\ m \in Nat /\ Len(key) = m + 2 + Len(rest) /\ Len(rest) \in Nat
        /\ \A i \in 1..m : key[i] = name[i]
        /\ key[m + 1] = Underscore /\ key[m + 2] = Underscore
        /\ \A i \in 1..Len(rest) : key[m + 2 + i] = rest[i]
    <2>1. key \in Seq(S) /\ IsJoined(key, name, rest)
      BY <1>0, Joined, Zenon
    <2> QED
      BY <2>1 DEF IsJoined
  <1>2. m + 1 \in Separators(key)
    BY <1>1 DEF Separators
  <1>3. ASSUME NEW i \in Separators(key) PROVE m + 1 <= i
    <2>1. i \in Nat /\ i >= 1 /\ key[i] = Underscore /\ key[i + 1] = Underscore
      BY DEF Separators
    <2>2. SUFFICES ASSUME i <= m PROVE FALSE
      BY <1>1, <2>1
    <2>3. name[i] = Underscore
      BY <1>1, <2>1, <2>2
    <2>4. CASE i = m
      BY <2>1, <2>3, <2>4 DEF CleanName
    <2>5. CASE i < m
      <3>1. i + 1 \in 1..m /\ i \in 1..m - 1
        BY <1>1, <2>1, <2>5
      <3> QED
        BY <3>1, <1>1, <2>1, <2>3 DEF CleanName
    <2> QED
      BY <1>1, <2>1, <2>2, <2>4, <2>5
  <1>4. Min(Separators(key)) = m + 1
    <2>1. \A x \in Separators(key) : (\A y \in Separators(key) : x <= y) <=> x = m + 1
      BY <1>1, <1>2, <1>3 DEF Separators
    <2> QED
      BY <1>2, <2>1 DEF Min
  <1>5. SubSeq(key, 1, m) = name
    BY <1>1
  <1>6. SubSeq(key, m + 3, Len(key)) = rest
    <2>1. /\ SubSeq(key, m + 3, Len(key)) \in Seq(S)
          /\ Len(SubSeq(key, m + 3, Len(key))) = Len(rest)
          /\ \A i \in 1..Len(rest) : SubSeq(key, m + 3, Len(key))[i] = rest[i]
      <3>1. \A i \in m + 3..Len(key) : key[i] \in S
        BY <1>1
      <3>2. /\ SubSeq(key, m + 3, Len(key)) \in Seq(S)
            /\ Len(SubSeq(key, m + 3, Len(key))) =
                   IF m + 3 <= Len(key) THEN Len(key) - (m + 3) + 1 ELSE 0
            /\ \A i \in 1..Len(key) - (m + 3) + 1 :
                   SubSeq(key, m + 3, Len(key))[i] = key[m + 3 + i - 1]
        BY <1>1, <3>1, SubSeqProperties
      <3>3. /\ Len(SubSeq(key, m + 3, Len(key))) = Len(rest)
            /\ Len(key) - (m + 3) + 1 = Len(rest)
        BY <1>1, <3>2
      <3>4. ASSUME NEW i \in 1..Len(rest)
            PROVE  SubSeq(key, m + 3, Len(key))[i] = rest[i]
        <4>1. SubSeq(key, m + 3, Len(key))[i] = key[m + 3 + i - 1] /\ m + 3 + i - 1 = m + 2 + i
          BY <1>1, <3>2, <3>3
        <4> QED
          BY <1>1, <4>1
      <3> QED
        BY <3>2, <3>3, <3>4
    <2> QED
      BY <2>1, SeqEqual
  <1>7. m + 1 - 1 = m /\ m + 1 + 2 = m + 3 /\ Separators(key) # {}
    BY <1>1, <1>2
  <1> QED
    <2>2. Split(key, m + 1) = [field |-> name, operator |-> IF rest = << >> THEN <<"eq">> ELSE rest]
      <3>1. PICK at : at = m + 1
        OBVIOUS
      <3>2. SubSeq(key, 1, at - 1) = name /\ SubSeq(key, at + 2, Len(key)) = rest
        BY <1>1, <1>5, <1>6, <3>1, SMT
      <3>3. Split(key, at) = [field |-> name, operator |-> IF rest = << >> THEN <<"eq">> ELSE rest]
        BY <3>2, Zenon DEF Split
      <3> QED
        BY <3>1, <3>3, Zenon
    <2>3. ParseFilterKey(key) = [field |-> name, operator |-> IF rest = << >> THEN <<"eq">> ELSE rest]
      BY <1>4, <1>7, <2>2, ParsedBySplit, Zenon
    <2> QED
      BY <1>0, <2>3, Zenon

LEMMA ParsedIsJoined ==
    ASSUME NEW S, Underscore \in S, "eq" \in S, NEW key \in Seq(S),
           NEW parsed, parsed = ParseFilterKey(key)
    PROVE  /\ parsed.field \in Seq(S) /\ parsed.operator \in Seq(S) /\ parsed.operator # << >>
           /\ \/ key = parsed.field /\ parsed.operator = <<"eq">>
              \/ key = parsed.field \o Separator /\ parsed.operator = <<"eq">>
              \/ key = parsed.field \o Separator \o parsed.operator
  <1>1. CASE Separators(key) = {}
    BY <1>1 DEF ParseFilterKey, Separators
  <1>2. CASE Separators(key) # {}
    <2> DEFINE at == Min(Separators(key))
               name == SubSeq(key, 1, at - 1)
               rest == SubSeq(key, at + 2, Len(key))
    <2>1. at \in Separators(key)
      <3>1. Separators(key) \subseteq Nat
        BY DEF Separators
      <3> QED
        BY <1>2, <3>1, LeastIsMin
    <2>2. /\ at \in 1..Len(key) - 1 /\ Len(key) \in Nat /\ key[at] = Underscore /\ key[at + 1] = Underscore
      BY <2>1 DEF Separators
    <2> HIDE DEF at
    <2>3. /\ name \in Seq(S) /\ Len(name) = at - 1 /\ \A i \in 1..at - 1 : name[i] = key[i]
          /\ rest \in Seq(S) /\ Len(rest) = Len(key) - at - 1
          /\ \A i \in 1..Len(rest) : rest[i] = key[at + 1 + i]
      BY <2>2
    <2> HIDE DEF name, rest
    <2>4. key = name \o Separator \o rest
      <3>0. PICK whole : whole = name \o Separator \o rest
        OBVIOUS
      <3>1. /\ whole \in Seq(S) /\ Len(whole) = at - 1 + 2 + Len(rest)
            /\ \A i \in 1..at - 1 : whole[i] = name[i]
            /\ whole[at - 1 + 1] = Underscore /\ whole[at - 1 + 2] = Underscore
            /\ \A i \in 1..Len(rest) : whole[at - 1 + 2 + i] = rest[i]
        <4>1. whole \in Seq(S) /\ IsJoined(whole, name, rest)
          BY <2>3, <3>0, Joined, Zenon
        <4> QED
          BY <2>3, <4>1 DEF IsJoined
      <3>2. Len(whole) = Len(key)
        BY <2>2, <2>3, <3>1
      <3>3. ASSUME NEW i \in 1..Len(key) PROVE whole[i] = key[i]
        <4>1. CASE i < at
          BY <2>2, <2>3, <3>1, <4>1
        <4>2. CASE i = at \/ i = at + 1
          BY <2>2, <3>1, <4>2
        <4>3. CASE i > at + 1
          <5>1. i - at - 1 \in 1..Len(rest) /\ at - 1 + 2 + (i - at - 1) = i /\ at + 1 + (i - at - 1) = i
            BY <2>2, <2>3, <4>3
          <5> QED
            BY <2>3, <3>1, <5>1
        <4> QED
          BY <2>2, <4>1, <4>2, <4>3
      <3> QED
        BY <2>2, <3>0, <3>1, <3>2, <3>3, SeqEqual
    <2>5. ParseFilterKey(key) = [field |-> name, operator |-> IF rest = << >> THEN <<"eq">> ELSE rest]
      BY <1>2 DEF ParseFilterKey, Separators, at, name, rest
    <2>6. CASE rest = << >>
      <3>1. key = name \o Separator
        <4>1. name \o Separator \in Seq(S)
          BY <2>3, ConcatProperties DEF Separator
        <4> QED
          BY <2>4, <2>6, <4>1, ConcatEmptySeq
      <3> QED
        BY <2>3, <2>5, <2>6, <3>1
    <2>7. CASE rest # << >>
      <3>1. parsed.field = name /\ parsed.operator = rest
        BY <2>5, <2>7
      <3> QED
        BY <2>3, <2>4, <2>7, <3>1, Zenon
    <2> QED
      BY <2>6, <2>7
  <1> QED
    BY <1>1, <1>2

LEMMA KnownParts ==
    /\ Names = Seq(Words \union {Underscore}) /\ Underscore \in Words \union {Underscore}
    /\ \A o \in Operators : o \in Words \union {Underscore}
    /\ "eq" \in Words \union {Underscore}
    /\ \A n \in DOMAIN Filterable : n \in Seq(Words \union {Underscore})
  BY QueryingAssumption DEF Names, Operators, Comparisons

\* A key says what it is parsed to, as no name hides an underscore at its end.
LEMMA SaysIsParsed ==
    ASSUME CleanNames, NEW filter, filter.key \in Names,
           NEW n \in DOMAIN Filterable, NEW o \in Operators,
           NEW parsed, parsed = ParseFilterKey(filter.key)
    PROVE  Says(filter, n, o) <=> parsed.field = n /\ parsed.operator = <<o>>
  <1> DEFINE S == Words \union {Underscore}
  <1>1. /\ Underscore \in S /\ "eq" \in S /\ o \in S /\ n \in Seq(S) /\ filter.key \in Seq(S)
    BY KnownParts
  <1> HIDE DEF S
  <1>2. CleanName(n)
    BY DEF CleanNames
  <1>3. << >> \in Seq(S) /\ <<o>> \in Seq(S) /\ <<o>> # << >> /\ <<"eq">> # << >>
    BY <1>1
  <1>4. ASSUME Says(filter, n, o) PROVE parsed.field = n /\ parsed.operator = <<o>>
    <2>1. CASE filter.key = n \o Separator \o <<o>>
      <3>1. ParseFilterKey(n \o Separator \o <<o>>) =
                [field |-> n, operator |-> IF <<o>> = << >> THEN <<"eq">> ELSE <<o>>]
        BY <1>1, <1>2, <1>3, ParsedWithOperator, Zenon
      <3> QED
        BY <2>1, <3>1, <1>3
    <2>2. CASE o = "eq" /\ filter.key = n
      <3>1. ParseFilterKey(n) = [field |-> n, operator |-> <<"eq">>]
        BY <1>1, <1>2, ParsedByItself, Zenon
      <3> QED
        BY <2>2, <3>1
    <2>3. CASE o = "eq" /\ filter.key = n \o Separator
      <3>1. ParseFilterKey(n \o Separator \o << >>) =
                [field |-> n, operator |-> IF << >> = << >> THEN <<"eq">> ELSE << >>]
        BY <1>1, <1>2, <1>3, ParsedWithOperator, Zenon
      <3>2. n \o Separator \in Seq(S)
        BY <1>1, SeparatorType
      <3>3. n \o Separator \o << >> = n \o Separator
        BY <3>2, ConcatEmptySeq
      <3> QED
        BY <2>3, <3>1, <3>3
    <2> QED
      BY <1>4, <2>1, <2>2, <2>3 DEF Says
  <1>5. ASSUME parsed.field = n, parsed.operator = <<o>> PROVE Says(filter, n, o)
    <2>1. \/ filter.key = parsed.field /\ parsed.operator = <<"eq">>
          \/ filter.key = parsed.field \o Separator /\ parsed.operator = <<"eq">>
          \/ filter.key = parsed.field \o Separator \o parsed.operator
      BY <1>1, ParsedIsJoined, Zenon
    <2>2. <<o>> = <<"eq">> => o = "eq"
      OBVIOUS
    <2> QED
      BY <1>5, <2>1, <2>2 DEF Says
  <1> QED
    BY <1>4, <1>5

-----------------------------------------------------------------------------
(* Filters mean what they say.                                             *)

NormalOperator(o, value) ==
    IF o \in NullFilterOperators
    THEN IF Affirms(value) <=> o = "isnull" THEN "isnull" ELSE "notnull"
    ELSE o

NormalValue(o, value) ==
    IF o \in NullFilterOperators THEN Nothing
    ELSE IF o = "in" THEN Several(CoerceInValues(value)) ELSE value

Normal(i, n, o, value) ==
    [index |-> i, column |-> Filterable[n],
     operator |-> NormalOperator(o, value), value |-> NormalValue(o, value)]

LEMMA BooleanWords ==
    ASSUME NEW value \in Typed
    PROVE  /\ IsBool(value) <=> Affirms(value) \/ Negates(value)
           /\ IsBool(value) => /\ CoerceBoolFilter(value) \in BOOLEAN
                               /\ CoerceBoolFilter(value) <=> Affirms(value)
           /\ ~(Affirms(value) /\ Negates(value))
  <1>1. Yes \intersect No = {}
    BY DEF Yes, No
  <1>2. CASE value.kind = "truth"
    <2>1. value.is \in BOOLEAN /\ value = [kind |-> "truth", is |-> value.is]
      BY <1>2 DEF Typed, Nothing
    <2>2. \A w : value # Word(w)
      BY <1>2 DEF Word
    <2>3. (value = Truth(TRUE) <=> value.is) /\ (value = Truth(FALSE) <=> ~value.is)
      BY <2>1 DEF Truth
    <2>4. (CoerceBoolFilter(value) <=> value.is) /\ IsBool(value)
      BY <1>2, Zenon DEF CoerceBoolFilter, IsBool
    <2>5. (Affirms(value) <=> value.is) /\ (Negates(value) <=> ~value.is)
      BY <2>2, <2>3, Zenon DEF Affirms, Negates
    <2>6. CoerceBoolFilter(value) \in BOOLEAN
      BY <1>2, <2>1 DEF CoerceBoolFilter
    <2> QED
      BY <2>4, <2>5, <2>6, Zenon
  <1>3. CASE value.kind = "word"
    <2>1. value = [kind |-> "word", word |-> value.word]
      BY <1>3 DEF Typed, Nothing
    <2>2. \A w : value = Word(w) <=> value.word = w
      BY <2>1 DEF Word
    <2>3. \A b : value # Truth(b)
      BY <1>3 DEF Truth
    <2>4. (Affirms(value) <=> value.word \in Yes) /\ (Negates(value) <=> value.word \in No)
      BY <2>2, <2>3, Zenon DEF Affirms, Negates
    <2>5. (CoerceBoolFilter(value) <=> value.word \in Yes)
      BY <1>3 DEF CoerceBoolFilter
    <2>6. IsBool(value) <=> value.word \in Yes \union No
      BY <1>3 DEF IsBool
    <2>7. CoerceBoolFilter(value) \in BOOLEAN
      BY <1>3 DEF CoerceBoolFilter
    <2>8. ~(value.word \in Yes /\ value.word \in No)
      BY <1>1
    <2> QED
      BY <2>4, <2>5, <2>6, <2>7, <2>8, Zenon
  <1>4. CASE value.kind \notin {"truth", "word"}
    BY <1>4 DEF IsBool, Affirms, Negates, Truth, Word
  <1> QED
    BY <1>2, <1>3, <1>4

LEMMA OperatorNames ==
    /\ DOMAIN ColumnFilterOperators = Comparisons
    /\ NullFilterOperators = {"isnull", "notnull"}
    /\ \A o \in Operators : \/ o \in NullFilterOperators
                            \/ o = "in"
                            \/ o \in Comparisons
    /\ \A o \in Comparisons : o \notin NullFilterOperators /\ o # "in"
  BY DEF ColumnFilterOperators, Comparisons, NullFilterOperators, Operators

\* A filter that says something usable is accepted as what it says.
LEMMA Understands ==
    ASSUME CleanNames, NEW fs, NEW i, fs[i].key \in Names, fs[i].value \in Typed,
           NEW n \in DOMAIN Filterable, NEW o \in Operators, Says(fs[i], n, o),
           Fits(o, fs[i].value)
    PROVE  NormalizedFilter(fs, i) = IF Usable(o, fs[i].value)
                                     THEN Accept(Normal(i, n, o, fs[i].value)) ELSE Refusal
  <1>1. PICK parsed : parsed = ParseFilterKey(fs[i].key)
    OBVIOUS
  <1>2. PICK value : value = fs[i].value
    OBVIOUS
  <1>3. parsed.field = n /\ parsed.operator = <<o>>
    BY <1>1, SaysIsParsed
  <1>4. Head(parsed.operator) = o /\ Len(parsed.operator) = 1
    BY <1>3
  <1> DEFINE As(op, v) == Accept([index |-> i, column |-> Filterable[n], operator |-> op, value |-> v])
  <1>5. NormalizedFilter(fs, i) =
            CASE o \in NullFilterOperators ->
                     IF ~IsBool(value) THEN Refusal
                     ELSE As(IF MatchesNull(o, value) THEN "isnull" ELSE "notnull", Nothing)
              [] o = "in" ->
                     IF CoerceInValues(value) = << >> THEN Refusal
                     ELSE As("in", Several(CoerceInValues(value)))
              [] o \in DOMAIN ColumnFilterOperators -> As(o, value)
              [] OTHER -> Refusal
    BY <1>1, <1>2, <1>3, <1>4, Zenon DEF NormalizedFilter
  <1> HIDE DEF As
  <1>6. CASE o \in NullFilterOperators
    <2>1. o # "in" /\ o \notin Comparisons
      BY <1>6, OperatorNames
    <2>2. Usable(o, value) <=> IsBool(value)
      BY <1>2, <1>6, <2>1, BooleanWords, OperatorNames DEF Usable
    <2>3. IsBool(value) => (MatchesNull(o, value) <=> (Affirms(value) <=> o = "isnull"))
      <3>1. IsBool(value) => /\ CoerceBoolFilter(value) \in BOOLEAN
                             /\ CoerceBoolFilter(value) <=> Affirms(value)
        BY <1>2, BooleanWords
      <3> QED
        BY <3>1, Zenon DEF MatchesNull
    <2>4. NormalizedFilter(fs, i) =
              IF ~IsBool(value) THEN Refusal
              ELSE As(IF MatchesNull(o, value) THEN "isnull" ELSE "notnull", Nothing)
      <3>1. o \notin DOMAIN ColumnFilterOperators
        BY <2>1, OperatorNames
      <3> QED
        BY <1>5, <1>6, <2>1, <3>1, Zenon
    <2> QED
      BY <1>2, <1>6, <2>2, <2>3, <2>4 DEF As, Normal, NormalOperator, NormalValue
  <1>7. CASE o = "in"
    <2>1. o \notin NullFilterOperators /\ o \notin Comparisons
      BY <1>7, OperatorNames
    <2>2. Usable(o, value) <=> CoerceInValues(value) # << >>
      <3>1. CASE value.kind = "several"
        <4>1. value = [kind |-> "several", items |-> value.items]
          BY <1>2, <3>1 DEF Typed, Nothing
        <4>2. value = Several(<< >>) <=> value.items = << >>
          BY <4>1 DEF Several
        <4> QED
          BY <1>7, <2>1, <3>1, <4>2, OperatorNames DEF Usable, CoerceInValues
      <3>2. CASE value.kind # "several"
        <4>1. value # Several(<< >>) /\ <<value.n>> # << >>
          BY <3>2 DEF Several
        <4> QED
          BY <1>7, <2>1, <3>2, <4>1 DEF Usable, CoerceInValues
      <3> QED
        BY <3>1, <3>2
    <2>3. NormalizedFilter(fs, i) = IF CoerceInValues(value) = << >> THEN Refusal
                                    ELSE As("in", Several(CoerceInValues(value)))
      <3>1. o \notin DOMAIN ColumnFilterOperators
        BY <2>1, OperatorNames
      <3> QED
        BY <1>5, <1>7, <2>1, <3>1, Zenon
    <2> QED
      BY <1>2, <1>7, <2>1, <2>2, <2>3 DEF As, Normal, NormalOperator, NormalValue
  <1>8. CASE o \in Comparisons
    <2>1. o \notin NullFilterOperators /\ o # "in"
      BY <1>8, OperatorNames
    <2>2. NormalizedFilter(fs, i) = As(o, value)
      BY <1>5, <1>8, <2>1, OperatorNames
    <2> QED
      BY <1>2, <1>8, <2>1, <2>2 DEF As, Usable, Normal, NormalOperator, NormalValue
  <1> QED
    BY <1>6, <1>7, <1>8, OperatorNames

\* A filter that says nothing is refused.
LEMMA RefusesTheRest ==
    ASSUME CleanNames, NEW fs, NEW i, fs[i].key \in Names,
           \A n \in DOMAIN Filterable, o \in Operators : ~Says(fs[i], n, o)
    PROVE  NormalizedFilter(fs, i) = Refusal
  <1>1. PICK parsed : parsed = ParseFilterKey(fs[i].key)
    OBVIOUS
  <1> DEFINE o == Head(parsed.operator)
  <1>2. CASE parsed.field \notin DOMAIN Filterable \/ Len(parsed.operator) # 1
    BY <1>1, <1>2 DEF NormalizedFilter
  <1>3. CASE parsed.field \in DOMAIN Filterable /\ Len(parsed.operator) = 1
    <2>1. parsed.operator \in Seq(Words \union {Underscore})
      BY <1>1, KnownParts, ParsedIsJoined
    <2>2. parsed.operator = <<o>>
      BY <1>3, <2>1
    <2>3. o \notin Operators
      BY <1>1, <1>3, <2>2, SaysIsParsed
    <2>4. /\ o \notin NullFilterOperators /\ o # "in"
          /\ o \notin DOMAIN ColumnFilterOperators
      BY <2>3, OperatorNames DEF Operators
    <2> HIDE DEF o
    <2>5. NormalizedFilter(fs, i) =
            CASE o \in NullFilterOperators ->
                     IF ~IsBool(fs[i].value) THEN Refusal
                     ELSE Accept([index |-> i, column |-> Filterable[parsed.field],
                                  operator |-> IF MatchesNull(o, fs[i].value) THEN "isnull" ELSE "notnull",
                                  value |-> Nothing])
              [] o = "in" ->
                     IF CoerceInValues(fs[i].value) = << >> THEN Refusal
                     ELSE Accept([index |-> i, column |-> Filterable[parsed.field],
                                  operator |-> "in", value |-> Several(CoerceInValues(fs[i].value))])
              [] o \in DOMAIN ColumnFilterOperators ->
                     Accept([index |-> i, column |-> Filterable[parsed.field],
                             operator |-> o, value |-> fs[i].value])
              [] OTHER -> Refusal
      BY <1>1, <1>3, Zenon DEF NormalizedFilter, o
    <2> QED
      BY <1>3, <2>4, <2>5
  <1> QED
    BY <1>2, <1>3

\* The condition made of a filter is true of the rows the filter means.
LEMMA ConditionsMean ==
    ASSUME NEW o \in Operators, NEW value \in Typed, Fits(o, value), Usable(o, value),
           NEW x \in Values \union {Null}
    PROVE  IsTrue(Symbol(NormalOperator(o, value), ColumnFilterOperators), x, NormalValue(o, value))
               <=> Meaning(o, x, value)
  <1>1. Null \notin Values
    BY QueryingAssumption
  <1>2. CASE o \in NullFilterOperators
    <2>1. o \notin Comparisons /\ o # "in" /\ (o = "isnull" \/ o = "notnull")
      BY <1>2, OperatorNames
    <2>2. (Affirms(value) \/ Negates(value)) /\ ~(Affirms(value) /\ Negates(value))
      BY <2>1, BooleanWords DEF Usable
    <2>3. CASE NormalOperator(o, value) = "isnull"
      <3>1. Symbol(NormalOperator(o, value), ColumnFilterOperators) = "IS_NULL"
        BY <2>3 DEF Symbol
      <3>2. Affirms(value) <=> o = "isnull"
        BY <1>2, <2>3 DEF NormalOperator
      <3>3. IsTrue("IS_NULL", x, NormalValue(o, value)) <=> x = Null
        BY DEF IsTrue
      <3>4. Meaning(o, x, value) <=> x = Null
        BY <2>1, <2>2, <3>2 DEF Meaning
      <3> QED
        BY <3>1, <3>3, <3>4
    <2>4. CASE NormalOperator(o, value) # "isnull"
      <3>1. NormalOperator(o, value) = "notnull" /\ ~(Affirms(value) <=> o = "isnull")
        BY <1>2, <2>4 DEF NormalOperator
      <3>2. Symbol(NormalOperator(o, value), ColumnFilterOperators) = "IS_NOT_NULL"
        BY <3>1 DEF Symbol
      <3>3. IsTrue("IS_NOT_NULL", x, NormalValue(o, value)) <=> x # Null
        BY DEF IsTrue
      <3>4. Meaning(o, x, value) <=> x # Null
        <4>1. CASE o = "isnull"
          <5>1. ~Affirms(value)
            BY <2>2, <3>1, <4>1
          <5>2. Meaning(o, x, value) = ((x = Null) = Affirms(value))
            BY <4>1, Zenon DEF Meaning
          <5> QED
            BY <5>1, <5>2, Zenon DEF Affirms
        <4>2. CASE o = "notnull"
          <5>1. ~Negates(value)
            BY <2>2, <3>1, <4>2
          <5>2. Meaning(o, x, value) = ((x = Null) = Negates(value))
            BY <4>2, Zenon DEF Meaning
          <5> QED
            BY <5>1, <5>2, Zenon DEF Negates
        <4> QED
          BY <2>1, <4>1, <4>2
      <3> QED
        BY <3>2, <3>3, <3>4
    <2> QED
      BY <2>3, <2>4
  <1>3. CASE o = "in"
    <2>1. o \notin NullFilterOperators
      BY <1>3, OperatorNames
    <2>2. Symbol(NormalOperator(o, value), ColumnFilterOperators) = "IN"
      BY <1>3, <2>1 DEF Symbol, NormalOperator
    <2>3. NormalValue(o, value).items = CoerceInValues(value)
      BY <1>3, <2>1 DEF NormalValue, Several
    <2>4. IsTrue("IN", x, NormalValue(o, value))
              <=> \E k \in DOMAIN CoerceInValues(value) : x = CoerceInValues(value)[k]
      BY <2>3 DEF IsTrue
    <2>5. CASE value.kind = "several"
      BY <1>3, <2>2, <2>4, <2>5 DEF CoerceInValues, Meaning
    <2>6. CASE value.kind # "several"
      <3>1. CoerceInValues(value) = <<value.n>>
        BY <2>6 DEF CoerceInValues
      <3>2. (\E k \in DOMAIN <<value.n>> : x = <<value.n>>[k]) <=> x = value.n
        OBVIOUS
      <3>3. Meaning(o, x, value) <=> x = value.n
        BY <1>3, <2>6 DEF Meaning
      <3> QED
        BY <2>2, <2>4, <3>1, <3>2, <3>3
    <2> QED
      BY <2>5, <2>6
  <1>4. CASE o \in Comparisons
    <2>1. o \notin NullFilterOperators /\ o # "in"
      BY <1>4, OperatorNames
    <2>2. value.kind = "number"
      BY <2>1 DEF Fits
    <2>3. value.n \in Values
      BY <2>2 DEF Typed, Nothing
    <2>4. NormalOperator(o, value) = o /\ NormalValue(o, value) = value
      BY <2>1 DEF NormalOperator, NormalValue
    <2>5. Symbol(o, ColumnFilterOperators) = ColumnFilterOperators[o]
      BY <2>1 DEF Symbol, NullFilterOperators
    <2>6. IsTrue(ColumnFilterOperators[o], x, value) <=> Meaning(o, x, value)
      <3>1. CASE o \in {"eq", "like", "ilike"}
        <4>1. IsTrue(ColumnFilterOperators[o], x, value) <=> x = value.n
          BY <1>1, <2>3, <3>1 DEF ColumnFilterOperators, IsTrue
        <4> QED
          BY <3>1, <4>1 DEF Meaning
      <3>2. CASE o = "ne"
        BY <3>2 DEF ColumnFilterOperators, IsTrue, Meaning
      <3>3. CASE o = "lt"
        BY <3>3 DEF ColumnFilterOperators, IsTrue, Meaning
      <3>4. CASE o = "lte"
        BY <3>4 DEF ColumnFilterOperators, IsTrue, Meaning
      <3>5. CASE o = "gt"
        BY <3>5 DEF ColumnFilterOperators, IsTrue, Meaning
      <3>6. CASE o = "gte"
        BY <3>6 DEF ColumnFilterOperators, IsTrue, Meaning
      <3> QED
        BY <1>4, <3>1, <3>2, <3>3, <3>4, <3>5, <3>6 DEF Comparisons
    <2> QED
      BY <2>4, <2>5, <2>6
  <1> QED
    BY <1>2, <1>3, <1>4, OperatorNames

-----------------------------------------------------------------------------
(* The conditions of a request.                                            *)

QueryType ==
    /\ filters \in Seq(Options)
    /\ fixed \in FixedClauses /\ bound \in Bounds
    /\ \A c \in fixed : \A p \in c : p.name \in DOMAIN bound

LEMMA GivenFilters ==
    ASSUME QueryType, NEW i \in Given(filters)
    PROVE  /\ i \in DOMAIN filters /\ filters[i].key \in Names /\ filters[i].value \in Typed
           /\ filters[i].value # Nothing
           /\ Fits(ParseFilterKey(filters[i].key).operator[1], filters[i].value)
  <1>1. i \in DOMAIN filters /\ filters[i].value # Nothing
    BY DEF Given
  <1>2. filters[i] \in Options
    BY <1>1 DEF QueryType
  <1> QED
    BY <1>1, <1>2, QueryingAssumption

LEMMA AskedOnce ==
    ASSUME CleanNames, QueryType, NEW i \in Given(filters),
           NEW n \in DOMAIN Filterable, NEW o \in Operators, Asks(i, n, o),
           NEW nn \in DOMAIN Filterable, NEW oo \in Operators, Asks(i, nn, oo)
    PROVE  n = nn /\ o = oo
  <1>1. Says(filters[i], n, o) /\ Says(filters[i], nn, oo)
    BY DEF Asks
  <1>2. PICK parsed : parsed = ParseFilterKey(filters[i].key)
    OBVIOUS
  <1>3. parsed.field = n /\ parsed.operator = <<o>> /\ parsed.field = nn /\ parsed.operator = <<oo>>
    BY <1>1, <1>2, GivenFilters, SaysIsParsed
  <1>4. <<o>> = <<oo>> => o = oo
    OBVIOUS
  <1> QED
    BY <1>3, <1>4

LEMMA AskedFits ==
    ASSUME CleanNames, QueryType, NEW i \in Given(filters),
           NEW n \in DOMAIN Filterable, NEW o \in Operators, Asks(i, n, o)
    PROVE  /\ Fits(o, filters[i].value)
           /\ NormalizedFilter(filters, i) = IF Usable(o, filters[i].value)
                                             THEN Accept(Normal(i, n, o, filters[i].value)) ELSE Refusal
  <1>1. Says(filters[i], n, o)
    BY DEF Asks
  <1>2. PICK parsed : parsed = ParseFilterKey(filters[i].key)
    OBVIOUS
  <1>3. parsed.operator = <<o>>
    BY <1>1, <1>2, GivenFilters, SaysIsParsed
  <1>4. Fits(o, filters[i].value)
    <2>1. parsed.operator[1] = o
      BY <1>3
    <2> QED
      BY <1>2, <2>1, GivenFilters
  <1> QED
    BY <1>1, <1>4, GivenFilters, Understands

\* A request is accepted if each of its filters says something usable.
LEMMA AcceptsTheUnderstood ==
    ASSUME CleanNames, QueryType
    PROVE  NormalizeFilters(filters) =
               IF Understood THEN Accept({NormalizedFilter(filters, i).it : i \in Given(filters)})
               ELSE Refusal
  <1>1. ASSUME NEW i \in Given(filters)
        PROVE  ~NormalizedFilter(filters, i).refused
                   <=> \E n \in DOMAIN Filterable, o \in Operators :
                           Asks(i, n, o) /\ Usable(o, filters[i].value)
    <2>1. CASE \E n \in DOMAIN Filterable, o \in Operators : Asks(i, n, o)
      <3>1. PICK n \in DOMAIN Filterable, o \in Operators : Asks(i, n, o)
        BY <2>1
      <3>2. NormalizedFilter(filters, i) = IF Usable(o, filters[i].value)
                                           THEN Accept(Normal(i, n, o, filters[i].value)) ELSE Refusal
        BY <3>1, AskedFits
      <3>3. ~NormalizedFilter(filters, i).refused <=> Usable(o, filters[i].value)
        BY <3>2 DEF Accept, Refusal
      <3>4. \A nn \in DOMAIN Filterable, oo \in Operators : Asks(i, nn, oo) => o = oo
        BY <3>1, AskedOnce
      <3> QED
        BY <3>1, <3>3, <3>4
    <2>2. CASE ~\E n \in DOMAIN Filterable, o \in Operators : Asks(i, n, o)
      <3>1. NormalizedFilter(filters, i) = Refusal
        BY <2>2, GivenFilters, RefusesTheRest DEF Asks
      <3> QED
        BY <2>2, <3>1 DEF Refusal
    <2> QED
      BY <2>1, <2>2
  <1>2. Understood <=> ~\E i \in Given(filters) : NormalizedFilter(filters, i).refused
    BY <1>1 DEF Understood
  <1> DEFINE normalized == [i \in Given(filters) |-> NormalizedFilter(filters, i)]
  <1>3. NormalizeFilters(filters) =
            IF \E i \in Given(filters) : normalized[i].refused THEN Refusal
            ELSE Accept({normalized[i].it : i \in Given(filters)})
    BY Zenon DEF NormalizeFilters
  <1>4. \A i \in Given(filters) : normalized[i] = NormalizedFilter(filters, i)
    OBVIOUS
  <1>5. {normalized[i].it : i \in Given(filters)} = {NormalizedFilter(filters, i).it : i \in Given(filters)}
    BY <1>4
  <1> HIDE DEF normalized
  <1> QED
    BY <1>2, <1>3, <1>4, <1>5

\* What is asked of a row by the i-th filter.
Wants(i, row) ==
    \E n \in DOMAIN Filterable, o \in Operators :
        Asks(i, n, o) /\ Meaning(o, row[Filterable[n]], filters[i].value)

LEMMA NormalizedMeans ==
    ASSUME CleanNames, QueryType, Understood, NEW i \in Given(filters),
           NEW f, f = NormalizedFilter(filters, i).it
    PROVE  \E n \in DOMAIN Filterable, o \in Operators :
               /\ Asks(i, n, o) /\ Usable(o, filters[i].value)
               /\ f = Normal(i, n, o, filters[i].value)
               /\ \A row \in Rows :
                      IsTrue(Symbol(f.operator, ColumnFilterOperators), row[f.column], f.value)
                          <=> Wants(i, row)
  <1>1. PICK n \in DOMAIN Filterable, o \in Operators : Asks(i, n, o) /\ Usable(o, filters[i].value)
    BY DEF Understood
  <1>2. f = Normal(i, n, o, filters[i].value)
    BY <1>1, AskedFits DEF Accept
  <1>3. /\ f.operator = NormalOperator(o, filters[i].value) /\ f.column = Filterable[n]
        /\ f.value = NormalValue(o, filters[i].value)
    BY <1>2 DEF Normal
  <1>4. ASSUME NEW row \in Rows
        PROVE  IsTrue(Symbol(f.operator, ColumnFilterOperators), row[f.column], f.value) <=> Wants(i, row)
    <2>1. row[Filterable[n]] \in Values \union {Null}
      BY QueryingAssumption DEF Rows
    <2>2. IsTrue(Symbol(f.operator, ColumnFilterOperators), row[f.column], f.value)
              <=> Meaning(o, row[Filterable[n]], filters[i].value)
      BY <1>1, <1>3, <2>1, AskedFits, GivenFilters, ConditionsMean
    <2>3. \A nn \in DOMAIN Filterable, oo \in Operators : Asks(i, nn, oo) => n = nn /\ o = oo
      BY <1>1, AskedOnce
    <2>4. Wants(i, row) <=> Meaning(o, row[Filterable[n]], filters[i].value)
      BY <1>1, <2>3 DEF Wants
    <2> QED
      BY <2>2, <2>4
  <1> QED
    BY <1>1, <1>2, <1>4

-----------------------------------------------------------------------------
(* The rows of a request.                                                  *)

LEMMA MeantRows ==
    Meant = {row \in Rows : FixedHolds(row) /\ \A i \in Given(filters) : Wants(i, row)}
  BY Zenon DEF Meant, Wants

Condition(f) ==
    {[column |-> f.column, symbol |-> Symbol(f.operator, ColumnFilterOperators), value |-> f.value]}

FixedCondition(c) ==
    {[column |-> p.column, symbol |-> p.symbol, value |-> bound[p.name]] : p \in c}

LEMMA ConditionsSelect ==
    ASSUME CleanNames, QueryType, Understood
    PROVE  /\ ~FilterConditions(filters).refused
           /\ Select(FixedConditions \union FilterConditions(filters).it) = Meant
  <1> DEFINE given == {NormalizedFilter(filters, i).it : i \in Given(filters)}
  <1>1. NormalizeFilters(filters) = Accept(given)
    BY AcceptsTheUnderstood
  <1>2. FilterConditions(filters) = Accept({Condition(f) : f \in given})
    <2>1. NormalizeFilters(filters).refused = FALSE /\ NormalizeFilters(filters).it = given
      BY <1>1 DEF Accept
    <2> HIDE DEF given
    <2> QED
      BY <2>1, Zenon DEF FilterConditions, Condition
  <1>3. ~FilterConditions(filters).refused /\ FilterConditions(filters).it = {Condition(f) : f \in given}
    BY <1>2 DEF Accept
  <1>4. ASSUME NEW row \in Rows
        PROVE  GroupedHolds(FixedConditions, row) <=> FixedHolds(row)
    <2>1. FixedConditions = {FixedCondition(c) : c \in fixed}
      BY Zenon DEF FixedConditions, FixedCondition
    <2>2. ASSUME NEW c
          PROVE  (\E p \in FixedCondition(c) : IsTrue(p.symbol, row[p.column], p.value))
                     <=> \E p \in c : IsTrue(p.symbol, row[p.column], bound[p.name])
      <3>1. ASSUME NEW p \in c, NEW q,
                   q = [column |-> p.column, symbol |-> p.symbol, value |-> bound[p.name]]
            PROVE  IsTrue(q.symbol, row[q.column], q.value)
                       <=> IsTrue(p.symbol, row[p.column], bound[p.name])
        <4>1. q.symbol = p.symbol /\ q.column = p.column /\ q.value = bound[p.name]
          BY <3>1
        <4> QED
          BY <4>1
      <3> QED
        BY <3>1, Zenon DEF FixedCondition
    <2> QED
      BY <2>1, <2>2 DEF GroupedHolds, FixedHolds
  <1>5. ASSUME NEW row \in Rows, NEW i \in Given(filters), NEW f, f = NormalizedFilter(filters, i).it
        PROVE  (\E p \in Condition(f) : IsTrue(p.symbol, row[p.column], p.value)) <=> Wants(i, row)
    <2>1. IsTrue(Symbol(f.operator, ColumnFilterOperators), row[f.column], f.value) <=> Wants(i, row)
      BY <1>5, NormalizedMeans
    <2> QED
      BY <2>1 DEF Condition
  <1>6. ASSUME NEW row \in Rows
        PROVE  GroupedHolds({Condition(f) : f \in given}, row) <=> \A i \in Given(filters) : Wants(i, row)
    BY <1>5 DEF GroupedHolds
  <1>7. ASSUME NEW row \in Rows
        PROVE  GroupedHolds(FixedConditions \union FilterConditions(filters).it, row)
                   <=> FixedHolds(row) /\ \A i \in Given(filters) : Wants(i, row)
    BY <1>3, <1>4, <1>6 DEF GroupedHolds
  <1>8. Select(FixedConditions \union FilterConditions(filters).it) = Meant
    BY <1>7, MeantRows DEF Select
  <1> QED
    BY <1>3, <1>8

LEMMA ConditionsRefuse ==
    ASSUME CleanNames, QueryType, ~Understood
    PROVE  FilterConditions(filters) = Refusal
  <1>1. NormalizeFilters(filters).refused
    BY AcceptsTheUnderstood DEF Refusal
  <1> QED
    BY <1>1, Zenon DEF FilterConditions

LEMMA FragmentSelects ==
    ASSUME CleanNames, QueryType
    PROVE  FragmentRows = IF Understood THEN Accept(Meant) ELSE Refusal
  <1>1. CASE Understood
    <2>1. WhereFragment(FixedConditions, filters) =
              Accept(FixedConditions \union FilterConditions(filters).it)
      BY <1>1, ConditionsSelect, Zenon DEF WhereFragment
    <2>2. /\ ~WhereFragment(FixedConditions, filters).refused
          /\ WhereFragment(FixedConditions, filters).it =
                 FixedConditions \union FilterConditions(filters).it
      BY <2>1 DEF Accept
    <2> QED
      BY <1>1, <2>2, ConditionsSelect, Zenon DEF FragmentRows
  <1>2. CASE ~Understood
    <2>1. FilterConditions(filters).refused
      BY <1>2, ConditionsRefuse DEF Refusal
    <2>2. WhereFragment(FixedConditions, filters) = Refusal
      BY <2>1, Zenon DEF WhereFragment
    <2>3. WhereFragment(FixedConditions, filters).refused
      BY <2>2 DEF Refusal
    <2> QED
      BY <1>2, <2>3, Zenon DEF FragmentRows
  <1> QED
    BY <1>1, <1>2

LEMMA OrmSelects ==
    ASSUME CleanNames, QueryType, ~ApplyQuery.refused
    PROVE  Understood /\ ApplyQuery.it.rows = Meant
  <1>1. Refusal.refused
    BY DEF Refusal
  <1>2. /\ ~FilterConditions(filters).refused
        /\ ApplyQuery = Accept([rows |-> Select(FixedConditions \union FilterConditions(filters).it),
                                order |-> SortClauses(paging.sort).it,
                                page |-> Pagination(paging.limit, paging.offset).it])
    BY <1>1, Zenon DEF ApplyQuery
  <1>3. Understood
    BY <1>1, <1>2, ConditionsRefuse
  <1>4. ApplyQuery.it.rows = Select(FixedConditions \union FilterConditions(filters).it)
    BY <1>2 DEF Accept
  <1> QED
    BY <1>3, <1>4, ConditionsSelect

-----------------------------------------------------------------------------
(* The rows of the text query.                                             *)

Normals == {NormalizedFilter(filters, i).it : i \in Given(filters)}
Unsafe == \/ \E c \in fixed : \E p \in c : IsGenerated(p.name)
          \/ \E f \in Normals : f.column \notin Named

LEMMA BuiltWhere ==
    ASSUME CleanNames, QueryType
    PROVE  BuildWhereClause(fixed, filters) =
               IF ~Understood \/ Unsafe THEN Refusal ELSE Accept(RawWhere(fixed, Normals))
  <1>1. CASE Understood
    <2>1. NormalizeFilters(filters) = Accept(Normals)
      BY <1>1, AcceptsTheUnderstood, Zenon DEF Normals
    <2>2. NormalizeFilters(filters).refused = FALSE /\ NormalizeFilters(filters).it = Normals
      BY <2>1 DEF Accept
    <2>3. BuildWhereClause(fixed, filters) =
              IF Unsafe THEN Refusal ELSE Accept(RawWhere(fixed, Normals))
      BY <2>2 DEF BuildWhereClause, Unsafe
    <2> QED
      BY <1>1, <2>3
  <1>2. CASE ~Understood
    <2>1. NormalizeFilters(filters).refused
      BY <1>2, AcceptsTheUnderstood DEF Refusal
    <2>2. BuildWhereClause(fixed, filters) = Refusal
      BY <2>1, Zenon DEF BuildWhereClause
    <2> QED
      BY <1>2, <2>2
  <1> QED
    BY <1>1, <1>2

LEMMA RawOperators ==
    \A o \in Operators \ {"ilike"} :
        /\ Symbol(o, RawFilterOperators) = Symbol(o, ColumnFilterOperators)
        /\ Symbol(o, RawFilterOperators) # "ILIKE"
        /\ Symbol(o, RawFilterOperators) = "IN" => o = "in"
        /\ Symbol(o, RawFilterOperators) = "IS_NULL" <=> o = "isnull"
        /\ Symbol(o, RawFilterOperators) = "IS_NOT_NULL" <=> o = "notnull"
  <1>1. \A o \in {"isnull", "notnull", "in"} :
            /\ Symbol(o, RawFilterOperators) = Symbol(o, ColumnFilterOperators)
            /\ Symbol(o, RawFilterOperators) # "ILIKE"
            /\ Symbol(o, RawFilterOperators) = "IN" => o = "in"
            /\ Symbol(o, RawFilterOperators) = "IS_NULL" <=> o = "isnull"
            /\ Symbol(o, RawFilterOperators) = "IS_NOT_NULL" <=> o = "notnull"
    BY DEF Symbol
  <1>2. \A o \in {"eq", "ne", "lt", "lte", "gt", "gte", "like"} :
            /\ Symbol(o, RawFilterOperators) = Symbol(o, ColumnFilterOperators)
            /\ Symbol(o, RawFilterOperators) # "ILIKE"
            /\ Symbol(o, RawFilterOperators) = "IN" => o = "in"
            /\ Symbol(o, RawFilterOperators) = "IS_NULL" <=> o = "isnull"
            /\ Symbol(o, RawFilterOperators) = "IS_NOT_NULL" <=> o = "notnull"
    BY DEF Symbol, RawFilterOperators, ColumnFilterOperators
  <1> QED
    BY <1>1, <1>2 DEF Operators, Comparisons

\* What is known of a filter that is understood and does not ask for ilike.
LEMMA NormalFacts ==
    ASSUME CleanNames, QueryType, Understood, NEW i \in Given(filters),
           NEW f, f = NormalizedFilter(filters, i).it
    PROVE  /\ f.index = i /\ f.column \in Columns
           /\ \E n \in DOMAIN Filterable, o \in Operators :
                  /\ Asks(i, n, o) /\ f.column = Filterable[n]
                  /\ f.operator \in Operators
                  /\ f.operator \in NullFilterOperators <=> o \in NullFilterOperators
                  /\ o \notin NullFilterOperators => f.operator = o
  <1>1. PICK n \in DOMAIN Filterable, o \in Operators :
            Asks(i, n, o) /\ f = Normal(i, n, o, filters[i].value)
    BY NormalizedMeans
  <1>2. f.index = i /\ f.column = Filterable[n] /\ f.operator = NormalOperator(o, filters[i].value)
    BY <1>1 DEF Normal
  <1>3. f.operator \in Operators /\ (f.operator \in NullFilterOperators <=> o \in NullFilterOperators)
        /\ (o \notin NullFilterOperators => f.operator = o)
    BY <1>2 DEF NormalOperator, NullFilterOperators, Operators
  <1> QED
    BY <1>1, <1>2, <1>3, QueryingAssumption

LEMMA ParameterNames ==
    ASSUME NEW f, NEW g
    PROVE  /\ Generated(f) = Generated(g) <=> f.index = g.index
           /\ Generated(f)[1] = "generated"
  BY DEF Generated

\* The parameter of a filter has its value, as no two have a position in common.
LEMMA OwnParameter ==
    ASSUME CleanNames, QueryType, Understood, NEW f \in Valued(Normals)
    PROVE  LastOf(Normals, Generated(f)) = f
  <1>1. \A g \in Valued(Normals) : Generated(g) = Generated(f) => g = f
    <2>1. \A g \in Valued(Normals) : \E i \in Given(filters) : g = NormalizedFilter(filters, i).it /\ g.index = i
      BY NormalFacts DEF Valued, Normals
    <2> QED
      BY <2>1, ParameterNames
  <1>2. f.index <= f.index
    <2>1. PICK i \in Given(filters) : f = NormalizedFilter(filters, i).it /\ f.index = i
      BY NormalFacts DEF Valued, Normals
    <2>2. i \in Nat
      BY <2>1, GivenFilters DEF QueryType
    <2> QED
      BY <2>1, <2>2
  <1>3. \E g \in Valued(Normals) : /\ Generated(g) = Generated(f)
                          /\ \A h \in Valued(Normals) : Generated(h) = Generated(f) => h.index <= g.index
    BY <1>1, <1>2
  <1>4. LastOf(Normals, Generated(f)) \in Valued(Normals) /\ Generated(LastOf(Normals, Generated(f))) = Generated(f)
    BY <1>3, Zenon DEF LastOf
  <1> QED
    BY <1>1, <1>4


\* Raw SQL can say what is understood unless it refuses to build or to bind it.
LEMMA SayableIsSafe ==
    ASSUME CleanNames, QueryType, Understood
    PROVE  Sayable <=> /\ ~Unsafe
                       /\ DOMAIN bound \cap {Generated(f) : f \in Valued(Normals)} = {}
  <1>1. (\E c \in fixed : \E p \in c : IsGenerated(p.name))
            <=> ~\A c \in fixed : \A p \in c : p.name[1] # "generated"
    BY DEF IsGenerated
  <1>2. ASSUME NEW i \in Given(filters), NEW f, f = NormalizedFilter(filters, i).it
        PROVE  /\ f \in Normals /\ Generated(f) = <<"generated", i>>
               /\ f.column \in Named <=> \A n \in DOMAIN Filterable, o \in Operators :
                                            Asks(i, n, o) => Filterable[n] \in Named
               /\ f \in Valued(Normals)
                      <=> \E n \in DOMAIN Filterable, o \in Comparisons \union {"in"} : Asks(i, n, o)
    <2>1. f.index = i
      BY <1>2, NormalFacts
    <2>2. PICK n \in DOMAIN Filterable, o \in Operators :
              /\ Asks(i, n, o) /\ f.column = Filterable[n]
              /\ f.operator \in NullFilterOperators <=> o \in NullFilterOperators
      BY <1>2, NormalFacts
    <2>3. \A nn \in DOMAIN Filterable, oo \in Operators : Asks(i, nn, oo) => n = nn /\ o = oo
      BY <2>2, AskedOnce
    <2>4. f \in Normals
      BY <1>2 DEF Normals
    <2>5. f \in Valued(Normals) <=> o \notin NullFilterOperators
      BY <2>2, <2>4 DEF Valued
    <2>6. /\ Comparisons \union {"in"} \subseteq Operators
          /\ o \notin NullFilterOperators <=> o \in Comparisons \union {"in"}
      BY OperatorNames DEF Operators
    <2>7. Generated(f) = <<"generated", i>>
      BY <2>1 DEF Generated
    <2>8. f.column \in Named <=> \A nn \in DOMAIN Filterable, oo \in Operators :
                                    Asks(i, nn, oo) => Filterable[nn] \in Named
      BY <2>2, <2>3
    <2> QED
      BY <2>2, <2>3, <2>4, <2>5, <2>6, <2>7, <2>8
  <1>3. Normals = {NormalizedFilter(filters, i).it : i \in Given(filters)}
    BY DEF Normals
  <1>4. (\E f \in Normals : f.column \notin Named)
            <=> ~\A i \in Given(filters), n \in DOMAIN Filterable, o \in Operators :
                     Asks(i, n, o) => Filterable[n] \in Named
    BY <1>2, <1>3
  <1>5. DOMAIN bound \cap {Generated(f) : f \in Valued(Normals)} = {}
            <=> \A i \in Given(filters), n \in DOMAIN Filterable, o \in Comparisons \union {"in"} :
                    Asks(i, n, o) => <<"generated", i>> \notin DOMAIN bound
    <2>1. \A f \in Valued(Normals) : \E i \in Given(filters) : f = NormalizedFilter(filters, i).it
      BY DEF Valued, Normals
    <2> QED
      BY <1>2, <2>1
  <1>6. Comparisons \union {"in"} \subseteq Operators
    BY DEF Operators
  <1> QED
    BY <1>1, <1>4, <1>5, <1>6 DEF Sayable, Unsafe

\* A predicate of the filters says of a row what the column's condition says.
LEMMA RawMeans ==
    ASSUME CleanNames, QueryType, Understood, NEW i \in Given(filters),
           \A n \in DOMAIN Filterable : ~Asks(i, n, "ilike"),
           NEW f, f = NormalizedFilter(filters, i).it, NEW value,
           f \in Valued(Normals) => value = f.value
    PROVE  /\ \A row \in Rows :
                  IsTrue(Symbol(f.operator, RawFilterOperators), row[f.column], value) <=> Wants(i, row)
           /\ Symbol(f.operator, RawFilterOperators) # "ILIKE"
           /\ Symbol(f.operator, RawFilterOperators) = "IN" => f.operator = "in"
  <1>1. PICK n \in DOMAIN Filterable, o \in Operators :
            /\ Asks(i, n, o) /\ f.operator \in Operators
            /\ f.operator \in NullFilterOperators <=> o \in NullFilterOperators
            /\ o \notin NullFilterOperators => f.operator = o
    BY NormalFacts
  <1>2. "ilike" \notin NullFilterOperators
    BY OperatorNames
  <1>3. f.operator \in Operators \ {"ilike"}
    BY <1>1, <1>2
  <1>4. PICK symbol : symbol = Symbol(f.operator, RawFilterOperators)
    OBVIOUS
  <1>5. /\ symbol = Symbol(f.operator, ColumnFilterOperators) /\ symbol # "ILIKE"
        /\ symbol = "IN" => f.operator = "in"
        /\ symbol = "IS_NULL" <=> f.operator = "isnull"
        /\ symbol = "IS_NOT_NULL" <=> f.operator = "notnull"
    BY <1>3, <1>4, RawOperators
  <1>6. ASSUME NEW row \in Rows
        PROVE  IsTrue(symbol, row[f.column], f.value) <=> Wants(i, row)
    BY <1>5, NormalizedMeans
  <1>7. ASSUME NEW x
        PROVE  IsTrue(symbol, x, value) <=> IsTrue(symbol, x, f.value)
    <2>1. CASE f \in Valued(Normals)
      BY <2>1
    <2>2. CASE f \notin Valued(Normals)
      <3>1. f.operator \in NullFilterOperators
        BY <2>2 DEF Valued, Normals
      <3>2. symbol = "IS_NULL" \/ symbol = "IS_NOT_NULL"
        BY <1>5, <3>1 DEF NullFilterOperators
      <3> QED
        BY <3>2 DEF IsTrue
    <2> QED
      BY <2>1, <2>2
  <1> QED
    BY <1>4, <1>5, <1>6, <1>7


\* The text runs, with the parameters of the developer and of the filters.
LEMMA TextSelects ==
    ASSUME CleanNames, QueryType, Understood, ~Unsafe,
           \A i \in Given(filters), n \in DOMAIN Filterable : ~Asks(i, n, "ilike"),
           NEW where, where = RawWhere(fixed, Normals),
           NEW values, values = [n \in DOMAIN bound \cup DOMAIN where.params |->
                                    IF n \in DOMAIN where.params THEN where.params[n] ELSE bound[n]]
    PROVE  RunText(where, values) = Accept(Meant)
  <1>1. /\ where.clauses = fixed \union {RawCondition(f) : f \in Normals}
        /\ DOMAIN where.params = {Generated(f) : f \in Valued(Normals)}
        /\ \A n \in DOMAIN where.params : where.params[n] = LastOf(Normals, n).value
        /\ where.expanding = {Generated(f) : f \in {g \in Valued(Normals) : g.operator = "in"}}
    BY DEF RawWhere
  <1>2. ASSUME NEW c \in fixed, NEW p \in c
        PROVE  /\ p.name \in DOMAIN values /\ values[p.name] = bound[p.name]
               /\ p.symbol # "ILIKE" /\ p.symbol # "IN"
    <2>1. p.name \in DOMAIN bound
      BY DEF QueryType
    <2>2. p.name[1] # "generated"
      BY DEF Unsafe, IsGenerated
    <2>3. p.name \notin DOMAIN where.params
      BY <1>1, <2>2, ParameterNames
    <2>4. p.symbol \notin {"IN", "ILIKE"}
      BY QueryingAssumption DEF QueryType
    <2> QED
      BY <2>1, <2>3, <2>4
  <1>3. ASSUME NEW f \in Valued(Normals)
        PROVE  Generated(f) \in DOMAIN values /\ values[Generated(f)] = f.value
    <2>1. Generated(f) \in DOMAIN where.params
      BY <1>1
    <2>2. where.params[Generated(f)] = f.value
      BY <1>1, <2>1, OwnParameter
    <2> QED
      BY <2>1, <2>2
  <1> DEFINE Value(p) == IF p.name \in DOMAIN values THEN values[p.name] ELSE Nothing
             Running(c) == {[column |-> p.column, symbol |-> p.symbol, value |-> Value(p)] : p \in c}
             HoldsFor(c, row) == \E q \in Running(c) : IsTrue(q.symbol, row[q.column], q.value)
  <1>4. ASSUME NEW c, NEW row
        PROVE  HoldsFor(c, row) <=> \E p \in c : IsTrue(p.symbol, row[p.column], Value(p))
    <2>1. ASSUME NEW p \in c, NEW q,
                 q = [column |-> p.column, symbol |-> p.symbol, value |-> Value(p)]
          PROVE  q.symbol = p.symbol /\ q.column = p.column /\ q.value = Value(p)
      BY <2>1
    <2> HIDE DEF Value
    <2> QED
      BY <2>1, Zenon
  <1>5. ASSUME NEW c \in fixed, NEW row
        PROVE  HoldsFor(c, row) <=> \E p \in c : IsTrue(p.symbol, row[p.column], bound[p.name])
    <2>1. \A p \in c : Value(p) = bound[p.name]
      BY <1>2
    <2> HIDE DEF Value, HoldsFor
    <2> QED
      BY <1>4, <2>1
  <1>6. ASSUME NEW i \in Given(filters), NEW f, f = NormalizedFilter(filters, i).it, NEW row \in Rows
        PROVE  HoldsFor(RawCondition(f), row) <=> Wants(i, row)
    <2>1. PICK p : p = [column |-> f.column, symbol |-> Symbol(f.operator, RawFilterOperators),
                        name |-> Generated(f)]
      OBVIOUS
    <2>2. RawCondition(f) = {p}
      BY <2>1 DEF RawCondition
    <2>3. f \in Valued(Normals) => Value(p) = f.value
      BY <1>3, <2>1
    <2>4. IsTrue(p.symbol, row[p.column], Value(p)) <=> Wants(i, row)
      <3>1. p.symbol = Symbol(f.operator, RawFilterOperators) /\ p.column = f.column
        BY <2>1
      <3> HIDE DEF Value
      <3>2. IsTrue(Symbol(f.operator, RawFilterOperators), row[f.column], Value(p)) <=> Wants(i, row)
        BY <1>6, <2>3, RawMeans
      <3> QED
        BY <3>1, <3>2
    <2> HIDE DEF Value, HoldsFor
    <2> QED
      BY <1>4, <2>2, <2>4
  <1>7. \A c \in where.clauses : RunsOnSqlServer(c, where.expanding)
    <2>1. \A c \in fixed : RunsOnSqlServer(c, where.expanding)
      BY <1>2 DEF RunsOnSqlServer
    <2>2. ASSUME NEW i \in Given(filters), NEW f, f = NormalizedFilter(filters, i).it
          PROVE  RunsOnSqlServer(RawCondition(f), where.expanding)
      <3>1. /\ Symbol(f.operator, RawFilterOperators) # "ILIKE"
            /\ Symbol(f.operator, RawFilterOperators) = "IN" => f.operator = "in"
        BY <2>2, RawMeans
      <3>2. f.operator = "in" => Generated(f) \in where.expanding
        BY <1>1, <2>2, OperatorNames DEF Valued, Normals
      <3> QED
        BY <3>1, <3>2 DEF RunsOnSqlServer, RawCondition
    <2> QED
      BY <1>1, <2>1, <2>2 DEF Normals
  <1>8. Select({Running(c) : c \in where.clauses}) = Meant
    <2>1. ASSUME NEW row \in Rows
          PROVE  GroupedHolds({Running(c) : c \in where.clauses}, row)
                     <=> FixedHolds(row) /\ \A i \in Given(filters) : Wants(i, row)
      <3>1. GroupedHolds({Running(c) : c \in where.clauses}, row)
                <=> \A c \in where.clauses : HoldsFor(c, row)
        BY Zenon DEF GroupedHolds
      <3>2. (\A c \in fixed : HoldsFor(c, row)) <=> FixedHolds(row)
        <4> HIDE DEF HoldsFor
        <4> QED
          BY <1>5 DEF FixedHolds
      <3>3. (\A f \in Normals : HoldsFor(RawCondition(f), row)) <=> \A i \in Given(filters) : Wants(i, row)
        <4> HIDE DEF HoldsFor
        <4> QED
          BY <1>6 DEF Normals
      <3> HIDE DEF HoldsFor, Running
      <3> QED
        BY <1>1, <3>1, <3>2, <3>3
    <2> HIDE DEF Running
    <2> QED
      BY <2>1, MeantRows DEF Select
  <1>9. RunText(where, values) =
            IF \A c \in where.clauses : RunsOnSqlServer(c, where.expanding)
            THEN Accept(Select({Running(c) : c \in where.clauses})) ELSE Failure
    BY Zenon DEF RunText
  <1> HIDE DEF Running
  <1> QED
    BY <1>7, <1>8, <1>9

LEMMA RawSelects ==
    ASSUME CleanNames, QueryType,
           \A i \in Given(filters), n \in DOMAIN Filterable : ~Asks(i, n, "ilike")
    PROVE  RawRows = IF Understood /\ Sayable THEN Accept(Meant) ELSE Refusal
  <1>1. PICK built : built = BuildWhereClause(fixed, filters)
    OBVIOUS
  <1>2. RawRows = IF built.refused THEN Refusal
                  ELSE IF Bind(bound, built.it).refused THEN Refusal
                  ELSE RunText(built.it, Bind(bound, built.it).it)
    BY <1>1, Zenon DEF RawRows
  <1>3. CASE ~Understood \/ Unsafe
    <2>1. built.refused
      BY <1>1, <1>3, BuiltWhere DEF Refusal
    <2>2. ~(Understood /\ Sayable)
      BY <1>3, SayableIsSafe
    <2> QED
      BY <1>2, <2>1, <2>2
  <1>4. CASE Understood /\ ~Unsafe
    <2>1. PICK where : where = RawWhere(fixed, Normals)
      OBVIOUS
    <2>2. ~built.refused /\ built.it = where
      BY <1>1, <1>4, <2>1, BuiltWhere DEF Accept
    <2>3. DOMAIN where.params = {Generated(f) : f \in Valued(Normals)}
      BY <2>1 DEF RawWhere
    <2>4. Sayable <=> DOMAIN bound \cap DOMAIN where.params = {}
      BY <1>4, <2>3, SayableIsSafe
    <2> DEFINE values == [n \in DOMAIN bound \cup DOMAIN where.params |->
                             IF n \in DOMAIN where.params THEN where.params[n] ELSE bound[n]]
    <2>5. Bind(bound, where) = IF Sayable THEN Accept(values) ELSE Refusal
      BY <2>4, Zenon DEF Bind
    <2>6. RunText(where, values) = Accept(Meant)
      BY <1>4, <2>1, TextSelects
    <2> HIDE DEF values
    <2>7. CASE Sayable
      <3>1. ~Bind(bound, where).refused /\ Bind(bound, where).it = values
        BY <2>5, <2>7 DEF Accept
      <3> QED
        BY <1>2, <1>4, <2>2, <2>6, <2>7, <3>1
    <2>8. CASE ~Sayable
      <3>1. Bind(bound, where).refused
        BY <2>5, <2>8 DEF Refusal
      <3> QED
        BY <1>2, <2>2, <2>8, <3>1
    <2> QED
      BY <2>7, <2>8
  <1> QED
    BY <1>3, <1>4


-----------------------------------------------------------------------------
(* The order of a request.                                                 *)

SortType == paging.sort \in Sorts \union {Nothing}

Blank == /\ paging.sort # Nothing /\ paging.sort.tokens # << >>
         /\ \A k \in DOMAIN paging.sort.tokens : paging.sort.tokens[k] = << >>

\* A sort that names a field gives an order.
LEMMA NamedFieldsOrder ==
    ASSUME SortType, DefaultSort # Nothing, ~Blank, ~SortClauses(paging.sort).refused
    PROVE  SortClauses(paging.sort).it # << >>
  <1> DEFINE sort == EffectiveSort(paging.sort)
             tokens == Tokens(sort)
             kept == {i \in DOMAIN tokens : tokens[i] # << >>}
             requested == ParseSort(tokens)
  <1>1. sort # Nothing /\ sort.tokens \in Seq(Names) /\ \E k \in DOMAIN sort.tokens : sort.tokens[k] # << >>
    <2>1. CASE paging.sort # Nothing /\ paging.sort.tokens # << >>
      BY <2>1, QueryingAssumption DEF EffectiveSort, SortType, Blank
    <2>2. CASE ~(paging.sort # Nothing /\ paging.sort.tokens # << >>)
      BY <2>2, QueryingAssumption DEF EffectiveSort
    <2> QED
      BY <2>1, <2>2
  <1>2. tokens \in Seq(Names) /\ kept # {}
    BY <1>1 DEF Tokens
  <1>3. Cardinality(kept) \in Nat /\ Cardinality(kept) > 0
    <2>1. IsFiniteSet(kept)
      <3>1. DOMAIN tokens = 1..Len(tokens) /\ Len(tokens) \in Nat
        BY <1>2
      <3>2. IsFiniteSet(1..Len(tokens))
        BY <3>1, FS_Interval
      <3> HIDE DEF tokens
      <3>3. kept \subseteq 1..Len(tokens)
        BY <3>1
      <3> QED
        BY <3>2, <3>3, FS_Subset
    <2>2. Cardinality(kept) \in Nat /\ (Cardinality(kept) = 0 <=> kept = {})
      BY <2>1, FS_CardinalityType, FS_EmptySet
    <2> QED
      BY <1>2, <2>2
  <1>4. DOMAIN requested = 1..Cardinality(kept)
    <2> HIDE DEF tokens
    <2>1. PICK listed : listed = Only(tokens, kept)
      OBVIOUS
    <2>2. DOMAIN listed = 1..Cardinality(kept)
      BY <2>1, Zenon DEF Only
    <2>3. requested = [k \in DOMAIN listed |->
                          IF Head(listed[k]) = "-" THEN [field |-> Tail(listed[k]), descending |-> TRUE]
                          ELSE [field |-> listed[k], descending |-> FALSE]]
      BY <2>1, Zenon DEF ParseSort
    <2> QED
      BY <2>2, <2>3
  <1>5. SortClauses(paging.sort).it = [k \in DOMAIN requested |->
                                          [column |-> Sortable[requested[k].field],
                                           descending |-> requested[k].descending]]
    <2> HIDE DEF requested
    <2>1. Refusal.refused
      BY DEF Refusal
    <2>2. SortClauses(paging.sort) = Accept([k \in DOMAIN requested |->
                                                [column |-> Sortable[requested[k].field],
                                                 descending |-> requested[k].descending]])
      BY <2>1, Zenon DEF SortClauses, requested
    <2> QED
      BY <2>2 DEF Accept
  <1> HIDE DEF requested
  <1>6. DOMAIN SortClauses(paging.sort).it = 1..Cardinality(kept)
    BY <1>4, <1>5
  <1>7. 1 \in DOMAIN SortClauses(paging.sort).it
    BY <1>3, <1>6
  <1> QED
    BY <1>7

\* A raw clause that is built has the order of the statement.
LEMMA SameOrder ==
    ASSUME ~BuildOrderByClause(paging.sort).refused
    PROVE  BuildOrderByClause(paging.sort) = SortClauses(paging.sort)
  <1>1. Refusal.refused
    BY DEF Refusal
  <1> QED
    BY <1>1, Zenon DEF BuildOrderByClause

-----------------------------------------------------------------------------
(* The inductive invariant: an answer is what the three ways to filter give for *)
(* the request as it stands, which nothing changes once it is answered.         *)

AnswerInv ==
    \/ answer = Unanswered
    \/ answer = [answered |-> TRUE, orm |-> ApplyQuery, fragment |-> FragmentRows,
                 fragmentOrder |-> OrderByFragment(paging.sort),
                 raw |-> RawRows, rawOrder |-> BuildOrderByClause(paging.sort)]

QueryInv == QueryType /\ SortType /\ AnswerInv

LEMMA QueryInvInductive ==
    Spec => []QueryInv
  <1>1. Init => QueryInv
    BY DEF Init, QueryInv, QueryType, SortType, AnswerInv, Unpaged
  <1>2. QueryInv /\ [Next]_vars => QueryInv'
    <2> SUFFICES ASSUME QueryInv, [Next]_vars
                 PROVE  QueryInv'
      OBVIOUS
    <2>1. ~answer.answered => answer = Unanswered
      BY DEF QueryInv, AnswerInv
    <2>2. ASSUME NEW o \in Options, AskFilter(o)
          PROVE  QueryInv'
      <3>1. answer' = Unanswered
        BY <2>1, <2>2 DEF AskFilter
      <3>2. filters' \in Seq(Options)
        BY <2>2 DEF AskFilter, QueryInv, QueryType
      <3> QED
        BY <2>2, <3>1, <3>2 DEF AskFilter, QueryInv, QueryType, SortType, AnswerInv
    <2>3. ASSUME NEW s \in Sorts, NEW l \in Limits, NEW o \in Offsets, AskPage(s, l, o)
          PROVE  QueryInv'
      <3>1. answer' = Unanswered
        BY <2>1, <2>3 DEF AskPage
      <3>2. paging'.sort \in Sorts
        BY <2>3 DEF AskPage
      <3> QED
        BY <2>3, <3>1, <3>2 DEF AskPage, QueryInv, QueryType, SortType, AnswerInv
    <2>4. ASSUME UNCHANGED <<filters, paging, fixed, bound>>
          PROVE  /\ QueryInv => QueryType' /\ SortType'
                 /\ ApplyQuery' = ApplyQuery /\ FragmentRows' = FragmentRows
                 /\ RawRows' = RawRows
                 /\ BuildOrderByClause(paging.sort)' = BuildOrderByClause(paging.sort)
      BY <2>4 DEF QueryInv, QueryType, SortType, ApplyQuery, FragmentRows, RawRows, FixedConditions
    <2>5. CASE Answer
      BY <2>4, <2>5 DEF Answer, QueryInv, AnswerInv
    <2>6. CASE UNCHANGED vars
      BY <2>4, <2>6 DEF vars, QueryInv, AnswerInv
    <2> QED
      BY <2>2, <2>3, <2>5, <2>6 DEF Next
  <1> QED
    BY <1>1, <1>2, PTL DEF Spec

\* With names that cannot be taken for an operator's separator, the three ways to
\* filter a table select the same rows, and the raw clause refuses what it cannot say.
THEOREM ThreeWaysSelectTheSameRows ==
    ASSUME CleanNames
    PROVE  Spec => []SelectsTheSameRows
  <1>1. QueryInv => SelectsTheSameRows
    <2> SUFFICES ASSUME QueryInv, answer.answered
                 PROVE  /\ answer.fragment = IF Understood THEN Accept(Meant) ELSE Refusal
                        /\ ~answer.orm.refused => Understood /\ answer.orm.it.rows = Meant
                        /\ \/ \E i \in Given(filters), n \in DOMAIN Filterable : Asks(i, n, "ilike")
                           \/ answer.raw = IF Understood /\ Sayable THEN Accept(Meant) ELSE Refusal
      BY DEF SelectsTheSameRows
    <2>1. answer.fragment = FragmentRows /\ answer.orm = ApplyQuery /\ answer.raw = RawRows
      BY DEF QueryInv, AnswerInv, Unanswered
    <2>2. QueryType
      BY DEF QueryInv
    <2> QED
      BY <2>1, <2>2, FragmentSelects, OrmSelects, RawSelects
  <1> QED
    BY <1>1, QueryInvInductive, PTL

\* With a default sort, a page behind the first row has an order, and the raw clause
\* has the same one.
THEOREM PagesHaveAnOrder ==
    Spec => []OffsetsHaveAnOrder
  <1>1. QueryInv => OffsetsHaveAnOrder
    <2> SUFFICES ASSUME QueryInv, answer.answered, ~answer.orm.refused
                 PROVE  /\ DefaultSort # Nothing /\ ~Blank => answer.orm.it.order # << >>
                        /\ answer.fragmentOrder.it = answer.orm.it.order
                        /\ ~answer.rawOrder.refused => answer.rawOrder.it = answer.orm.it.order
      BY Zenon DEF OffsetsHaveAnOrder, Blank
    <2>1. /\ answer.orm = ApplyQuery /\ answer.rawOrder = BuildOrderByClause(paging.sort)
          /\ answer.fragmentOrder = SortClauses(paging.sort)
      BY DEF OrderByFragment, QueryInv, AnswerInv, Unanswered
    <2>2. /\ ~SortClauses(paging.sort).refused
          /\ ApplyQuery.it.order = SortClauses(paging.sort).it
      <3>1. Refusal.refused
        BY DEF Refusal
      <3>2. /\ ~SortClauses(paging.sort).refused
            /\ ApplyQuery = Accept([rows |-> Select(FixedConditions \union FilterConditions(filters).it),
                                    order |-> SortClauses(paging.sort).it,
                                    page |-> Pagination(paging.limit, paging.offset).it])
        BY <2>1, <3>1, Zenon DEF ApplyQuery
      <3> QED
        BY <3>2 DEF Accept
    <2> QED
      BY <2>1, <2>2, NamedFieldsOrder, SameOrder DEF QueryInv
  <1> QED
    BY <1>1, QueryInvInductive, PTL
=============================================================================
