--------------------------- MODULE RecordingPolicy ---------------------------
(***************************************************************************)
(* What a worker records and what it keeps: the decisions of               *)
(* src/service/recording-policy.ts over the entities of                    *)
(* recording-entity.ts, the filters of filtering.ts and the retry keys of  *)
(* retry-state.ts.  Nothing here has a state of its own.                   *)
(*                                                                         *)
(* A text is a value, None when it is absent or blank.  A wildcard pattern *)
(* is the set of the texts it matches.                                     *)
(***************************************************************************)
EXTENDS Integers, SequencesExt, FiniteSetsExt

CONSTANT None

FirstGiven(candidates) ==
    LET given == {i \in DOMAIN candidates : candidates[i] # None} IN
    IF given = {} THEN None ELSE candidates[Min(given)]

Count(c) == IF c = None THEN 0 ELSE c

----------------------------------------------------------------------------
(* Entities.                                                               *)

\* What a framework says of a test or scenario, from the places each fact is
\* looked up in.  Only Cucumber and Jasmine give it an id.
Entity(test) ==
    [kind |-> test.kind,
     id |-> test.id,
     name |-> test.name,
     fullName |-> test.fullName,
     explicitRetry |-> FirstGiven(test.retryCounters),
     specPath |-> FirstGiven(test.specCandidates),
     tags |-> UNION Range(test.tagSources),
     skippedResult |-> IF test.kind = "test" /\ test.pending
                       THEN "skipped" ELSE "unknown"]

\* A skipped test has passed: FALSE and is not a failure.
Outcome(test, result) ==
    [manifestResult |->
        IF test.kind = "test" /\ (test.pending \/ result = "skipped")
        THEN "skipped"
        ELSE IF result = "passed" THEN "passed" ELSE "failed",
     passed |-> result = "passed"]

NonFailing(outcome) == outcome.passed \/ outcome.manifestResult = "skipped"

----------------------------------------------------------------------------
(* Filters.                                                                *)

MatchesAny(value, patterns) ==
    value # None /\ \E p \in patterns : value \in p

ShouldRecord(filters, entity) ==
    /\ filters.includeSpecs # {} =>
          MatchesAny(entity.specPath, filters.includeSpecs)
    /\ ~MatchesAny(entity.specPath, filters.excludeSpecs)
    /\ filters.includeTags # {} =>
          \E tag \in entity.tags : MatchesAny(tag, filters.includeTags)
    /\ ~\E tag \in entity.tags : MatchesAny(tag, filters.excludeTags)

\* Why the entity is not recorded, or None.
IneligibleReason(entity, available, reason, filters) ==
    IF ~available
    THEN FirstGiven(<<reason, "recording-hooks-unavailable">>)
    ELSE IF ShouldRecord(filters, entity) THEN None ELSE "filtered"

----------------------------------------------------------------------------
(* Attempts.                                                               *)

EffectiveRetry(entity, specFileRetry, inferredRetry) ==
    Max({Count(entity.explicitRetry), specFileRetry, Count(inferredRetry)})

StartDecision(options, effectiveRetry, recordingActive) ==
    CASE options.attempts = "retries" /\ effectiveRetry = 0 -> "skip"
      [] ~(options.attempts = "retries" /\ effectiveRetry = 0)
         /\ options.scope = "spec" /\ recordingActive -> "continue-spec"
      [] OTHER -> "start"

RetryTrackingKey(entity) ==
    IF entity.id # None
    THEN <<"framework-id", entity.specPath, entity.id>>
    ELSE <<entity.specPath, entity.name, entity.fullName>>

\* Of the capabilities only the static ones that name a browser or a device
\* identify it; each is taken from the first source that gives it.
StaticKeys == {"browserName", "deviceName"}
Fingerprint(sources) ==
    [k \in StaticKeys |->
        FirstGiven([i \in DOMAIN sources |->
            IF k \in DOMAIN sources[i] THEN sources[i][k] ELSE None])]

SpecRetryKey(cid, specs, sources) == <<cid, Fingerprint(sources), specs>>

----------------------------------------------------------------------------
(* Retention.                                                              *)

ShouldRetain(retain, passed, retryCount) ==
    CASE retain = "all" -> TRUE
      [] retain = "retries" -> retryCount > 0
      [] OTHER -> ~passed

Operation(processing) ==
    IF processing.merge THEN "merge"
    ELSE IF processing.transcode THEN "transcode" ELSE None

\* The manifest options of a finalized recording.
CompletedOptions(media, keep, result, processing) ==
    IF media.captureFailed
    THEN [decision |-> "failed", result |-> result, paths |-> media.paths,
          reason |-> "capture-incomplete", outcome |-> "failed",
          operation |-> "capture"]
    ELSE [decision |-> IF ~keep THEN "discarded"
                       ELSE IF media.paths # <<>> THEN "recorded" ELSE "failed",
          result |-> result,
          paths |-> media.paths,
          reason |-> IF keep THEN None ELSE "retention-policy",
          outcome |-> IF media.deferred THEN "pending"
                      ELSE IF ~keep THEN "skipped"
                      ELSE IF Operation(processing) # None
                      THEN "completed" ELSE "not-required",
          operation |-> Operation(processing)]
=============================================================================
