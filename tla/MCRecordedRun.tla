--------------------------- MODULE MCRecordedRun ---------------------------
(* A run of one worker for two spec files or one, and another launcher.    *)
EXTENDS RecordedRun

SpecA == <<"a", 1>>
SpecB == <<"b", 1>>

Unfiltered ==
    [includeSpecs |-> {}, excludeSpecs |-> {},
     includeTags |-> {}, excludeTags |-> {}]

Case(spec, name, fullName, tags) ==
    [spec |-> spec, retries |-> 0,
     test |-> [kind |-> "test", id |-> None, name |-> name,
               fullName |-> fullName, retryCounters |-> <<>>,
               specCandidates |-> <<None, spec>>, file |-> spec,
               tagSources |-> <<tags>>, pending |-> FALSE]]

Scenario(spec, id, name) ==
    [spec |-> spec, retries |-> 1,
     test |-> [kind |-> "scenario", id |-> id, name |-> name,
               fullName |-> name, retryCounters |-> <<>>,
               specCandidates |-> <<None, None, spec>>, file |-> None,
               tagSources |-> <<>>, pending |-> FALSE]]

\* Two tests whose full names differ in their case only, retried by Mocha.
MochaTests ==
    [framework |-> "mocha", scope |-> "test", attempts |-> "all",
     retain |-> "on-failure", failurePolicy |-> "error",
     chromium |-> TRUE, reason |-> None, filters |-> Unfiltered,
     deferred |-> FALSE, processing |-> [merge |-> FALSE, transcode |-> FALSE],
     specs |-> <<SpecA>>, specRetries |-> 0, contended |-> FALSE, maxFaults |-> 2,
     results |-> {"passed", "failed", "skipped"},
     plan |-> <<[Case(SpecA, <<"login", 1>>, <<"x login", 1>>, {})
                    EXCEPT !.retries = 1],
                Case(SpecA, <<"login", 2>>, <<"x login", 2>>, {})>>]

\* Spec files that are retried; only retries are recorded and kept.
SpecRetries ==
    [MochaTests EXCEPT !.attempts = "retries", !.retain = "retries",
        !.failurePolicy = "warn", !.specRetries = 1, !.maxFaults = 1,
        !.specs = <<SpecA, SpecB>>,
        !.results = {"passed", "failed"},
        !.plan = <<Case(SpecB, <<"one", 1>>, <<"one", 1>>, {}),
                   Case(SpecA, <<"one", 1>>, <<"y one", 1>>, {})>>]

\* Two scenarios of one title, retried by Cucumber, processed at the end.
Scenarios ==
    [MochaTests EXCEPT !.framework = "cucumber", !.failurePolicy = "warn",
        !.maxFaults = 1, !.deferred = TRUE, !.processing.transcode = TRUE,
        !.retain = "all", !.results = {"passed", "failed"},
        !.plan = <<Scenario(SpecA, <<"id", 1>>, <<"row", 1>>),
                   Scenario(SpecA, <<"id", 2>>, <<"row", 1>>)>>]

\* One recording for the whole spec file.
WholeSpec ==
    [MochaTests EXCEPT !.scope = "spec", !.contended = TRUE,
        !.plan = <<Case(SpecA, <<"one", 1>>, <<"x one", 1>>, {}),
                   Case(SpecA, <<"two", 1>>, <<"x two", 1>>, {})>>]

Filtered ==
    [MochaTests EXCEPT !.failurePolicy = "warn",
        !.filters.excludeTags = {{"slow"}}, !.filters.includeSpecs = {{SpecA}},
        !.plan = <<Case(SpecA, <<"one", 1>>, <<"x one", 1>>, {"slow"}),
                   Case(SpecA, <<"two", 1>>, <<"x two", 1>>, {})>>]

\* One test, whose spec file is tried three times: three workers of one process
\* id may each leave their line unended, or write behind such a line.
SpecRetried ==
    [MochaTests EXCEPT !.failurePolicy = "warn", !.maxFaults = 3,
        !.specRetries = 2, !.results = {"passed"},
        !.plan = <<Case(SpecA, <<"one", 1>>, <<"x one", 1>>, {})>>]

\* A spec file's recording whose first test is retried by Mocha.
SpecTestsRetried ==
    [WholeSpec EXCEPT !.plan[1].retries = 1, !.contended = FALSE,
        !.maxFaults = 1]

\* One recording of a spec file with a filtered test; tests and file are retried.
SpecFiltered ==
    [Filtered EXCEPT !.scope = "spec", !.specRetries = 1, !.maxFaults = 0,
        !.plan[1].retries = 1, !.plan[2].retries = 1]

\* One recording of scenarios, and a browser nothing can be recorded of.
SpecScenarios ==
    [Scenarios EXCEPT !.scope = "spec", !.specRetries = 1, !.maxFaults = 0,
        !.deferred = FALSE, !.failurePolicy = "error"]
NotChromium ==
    [SpecTestsRetried EXCEPT !.chromium = FALSE, !.specRetries = 1,
        !.maxFaults = 0]

\* Three tests of one name, two of them retried.
Namesakes ==
    [MochaTests EXCEPT !.maxFaults = 1, !.retain = "all", !.results = {"failed"},
        !.plan = LET test == Case(SpecA, <<"one", 1>>, <<"x one", 1>>, {})
                     retried == [test EXCEPT !.retries = 1]
                 IN <<retried, retried, test>>]

\* Three rows of one title, the second of which is filtered out.
Rows ==
    [Scenarios EXCEPT !.maxFaults = 0, !.deferred = FALSE,
        !.filters.excludeTags = {{"slow"}},
        !.plan = <<Scenario(SpecA, <<"id", 1>>, <<"row", 1>>),
                   [Scenario(SpecA, <<"id", 2>>, <<"row", 1>>)
                       EXCEPT !.test.tagSources = <<{"slow"}>>],
                   Scenario(SpecA, <<"id", 3>>, <<"row", 1>>)>>]

\* The same rows in a spec file that is retried in place of its tests.
RowsAgain ==
    [Rows EXCEPT !.specRetries = 1, !.plan[1].retries = 0,
        !.plan[2].retries = 0, !.plan[3].retries = 0]

\* Scenarios of two feature files in one worker.
TwoFeatures ==
    [Scenarios EXCEPT !.specs = <<SpecA, SpecB>>, !.deferred = FALSE,
        !.maxFaults = 0,
        !.plan = <<Scenario(SpecA, <<"id", 1>>, <<"row", 1>>),
                   Scenario(SpecB, <<"id", 2>>, <<"lane", 1>>)>>]

Overlap == [Filtered EXCEPT !.reason = Parallel]
OverlapSpec == [Overlap EXCEPT !.scope = "spec"]

Runs == {MochaTests, SpecRetries, Scenarios, WholeSpec, Filtered, Overlap,
         OverlapSpec, SpecRetried, SpecTestsRetried, SpecFiltered,
         SpecScenarios, NotChromium, Namesakes, Rows, RowsAgain,
         TwoFeatures}
=============================================================================
