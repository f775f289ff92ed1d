---------------------------- MODULE FilterCases ----------------------------
(***************************************************************************)
(* The pool filter against the repository's table of test cases, which the *)
(* tests of the filter, of the query service and of the system share.      *)
(*                                                                         *)
(* The table's now is 0, an hour is 1, and entities are created at 0; an   *)
(* infinity is a number that is larger than any other in the table.        *)
(***************************************************************************)
EXTENDS PoolFilter, SequencesExt

Inf == 1000
Excludes == {{}, {"min"}, {"max"}, {"min", "max"}}

NoFields == [doubles |-> <<>>, strings |-> <<>>, tags |-> {}, created |-> 0]
NoFilters == [ranges |-> {}, equals |-> {}, tags |-> {}, after |-> Unset, before |-> Unset]
Arg(name, v) == [x \in {name} |-> v]

DoubleRange(arg, min, max, exclude) ==
    [arg |-> arg, min |-> min, max |-> max, exclude |-> exclude]
Equals(arg, v) == [arg |-> arg, value |-> v]

\* A test case: the entity's fields, and the pool.
TestCase(fields, pool) == [fields |-> fields, pool |-> pool]

simpleDoubleRange(v, min, max, exclude) ==
    TestCase([NoFields EXCEPT !.doubles = Arg("field", v)],
             [NoFilters EXCEPT !.ranges = {DoubleRange("field", min, max, exclude)}])

simpleStringEquals(name, v, wanted) ==
    TestCase([NoFields EXCEPT !.strings = Arg(name, v)],
             [NoFilters EXCEPT !.equals = {Equals("field", wanted)}])

simpleTags(tags, wanted) ==
    TestCase([NoFields EXCEPT !.tags = tags], [NoFilters EXCEPT !.tags = wanted])

simpleTimes(after, before) ==
    TestCase(NoFields, [NoFilters EXCEPT !.after = after, !.before = before])

multipleFilters(doubleRange, stringEquals, tagPresent) ==
    TestCase([NoFields EXCEPT !.doubles = Arg("a", IF doubleRange THEN 0 ELSE 10),
                              !.strings = Arg("b", IF stringEquals THEN "hi" ELSE "bye"),
                              !.tags = {IF tagPresent THEN "yo" ELSE "cya"}],
             [NoFilters EXCEPT !.ranges = {DoubleRange("a", -1, 1, {})},
                               !.equals = {Equals("b", "hi")},
                               !.tags = {"yo"}])

IncludedTestCases ==
    <<TestCase(NoFields, NoFilters),
      simpleDoubleRange(5, 5, 5, {}),
      simpleDoubleRange(Inf, 0, Inf, {}), simpleDoubleRange(Inf, 0, Inf, {"min"}),
      simpleDoubleRange(-Inf, -Inf, 0, {}), simpleDoubleRange(-Inf, -Inf, 0, {"max"}),
      simpleDoubleRange(0, 0, 1, {}), simpleDoubleRange(1, 0, 1, {}),
      simpleDoubleRange(1, 0, 1, {"min"}), simpleDoubleRange(0, 0, 1, {"max"}),
      simpleDoubleRange(2, 0, 3, {"min", "max"}), simpleDoubleRange(1, 0, 3, {"min", "max"}),
      simpleStringEquals("field", "value", "value"),
      simpleTags({"mytag"}, {"mytag"}), simpleTags({"A", "B", "C"}, {"A", "C", "B"}),
      multipleFilters(TRUE, TRUE, TRUE),
      simpleTimes(Unset, 1), simpleTimes(-1, Unset), simpleTimes(-1, 1)>>
    \o SetToSeq({simpleDoubleRange(5, 0, 10, e) : e \in Excludes})

ExcludedMissing ==
    <<TestCase(NoFields, [NoFilters EXCEPT !.ranges = {DoubleRange("field", -Inf, Inf, {})}]),
      TestCase(NoFields, [NoFilters EXCEPT !.equals = {Equals("field", "value")}]),
      TestCase(NoFields, [NoFilters EXCEPT !.tags = {"value"}]),
      TestCase([NoFields EXCEPT !.doubles = Arg("otherfield", 0)],
               [NoFilters EXCEPT !.ranges = {DoubleRange("field", -Inf, Inf, {})}])>>

\* Most of these come once for every way to exclude an end.
ExcludedRanges ==
    {simpleDoubleRange(x[1], x[2], x[3], e) :
        x \in {<<-1, 0, 10>>, <<11, 0, 10>>, <<5, NaN, 10>>, <<5, 0, NaN>>,
               <<5, NaN, NaN>>, <<NaN, 0, 10>>, <<NaN, -Inf, Inf>>, <<NaN, NaN, NaN>>},
        e \in Excludes}
    \cup {simpleDoubleRange(5, 5, 5, e) : e \in Excludes \ {{}}}
    \cup {simpleDoubleRange(x, 0, x, e) : x \in {1, Inf}, e \in {{"max"}, {"min", "max"}}}
    \cup {simpleDoubleRange(-Inf, -Inf, 0, e) : e \in {{"min"}, {"min", "max"}}}
    \cup {simpleDoubleRange(0, 0, 1, e) : e \in {{"min"}, {"min", "max"}}}

ExcludedOthers ==
    <<simpleStringEquals("field", "value", "VALUE"),
      simpleStringEquals("otherfield", "othervalue", "value"),
      simpleTags({"MYTAG"}, {"mytag"}), simpleTags({"A", "B", "C"}, {"A", "D", "C"}),
      simpleTimes(Unset, -1), simpleTimes(1, Unset), simpleTimes(1, 2), simpleTimes(-2, -1),
      multipleFilters(FALSE, TRUE, TRUE), multipleFilters(TRUE, FALSE, TRUE),
      multipleFilters(TRUE, TRUE, FALSE)>>

-----------------------------------------------------------------------------

Passed(cases) == {i \in DOMAIN cases : In(cases[i].pool, cases[i].fields)}

\* The entries of the table that the filter gets wrong.
Wrong ==
    (DOMAIN IncludedTestCases \ Passed(IncludedTestCases))
    \cup Passed(ExcludedMissing) \cup Passed(ExcludedOthers)
    \cup {c \in ExcludedRanges : In(c.pool, c.fields)}
=============================================================================
