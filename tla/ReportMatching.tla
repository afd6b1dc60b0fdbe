--------------------------- MODULE ReportMatching ---------------------------
(***************************************************************************)
(* The HTML report of a run: what src/reporter.ts captures of a test       *)
(* event, how src/reporter/manifest-matcher.ts joins the captured outcomes *)
(* to the entries of the manifest, and the items report-model.ts makes of  *)
(* the joined ones.                                                        *)
(*                                                                         *)
(* A name or a spec path is a pair: its normalized form and its spelling.  *)
(* Entries are in the order the recordings started, which their ids count. *)
(***************************************************************************)
EXTENDS Integers, SequencesExt, FiniteSetsExt

CONSTANT None

----------------------------------------------------------------------------
(* Capturing an outcome.                                                   *)

ReporterAttempt(runnerRetry, testRetries, scenarioRetries) ==
    Max({runnerRetry + testRetries, scenarioRetries}) + 1

\* An outcome reported again (a retry event and the failure behind it, a
\* skipped test and its end) is captured once.
CaptureOutcome(outcomes, outcome) ==
    IF \E i \in DOMAIN outcomes :
          /\ outcomes[i].uid = outcome.uid
          /\ outcomes[i].attempt = outcome.attempt
          /\ outcomes[i].status = outcome.status
    THEN outcomes
    ELSE Append(outcomes, outcome)

----------------------------------------------------------------------------
(* Names.                                                                  *)

\* A name means its own spelling when that is known, and otherwise every
\* spelling that normalizes the same way.
Spellings(name, known) ==
    IF name \in known THEN {name} ELSE {k \in known : k[1] = name[1]}

HasFullerIdentity(identity) ==
    identity.fullName # None /\ identity.fullName[1] # identity.name[1]

IdentityNames(test) == {test.name, test.fullName} \ {None}

----------------------------------------------------------------------------
(* Matching.  The state of a pass: the ids matched so far and the entries  *)
(* given to scenarios.                                                     *)

Missing == [kind |-> "missing"]
Ambiguous == [kind |-> "ambiguous"]
Matched(entry) == [kind |-> "matched", entry |-> entry]

\* The one candidate, if there is one.
Only(candidates) ==
    CASE candidates = {} -> Missing
      [] Cardinality(candidates) = 1 ->
             Matched(CHOOSE entry \in candidates : TRUE)
      [] OTHER -> Ambiguous

FirstStarted(entries) ==
    IF entries = {} THEN Missing
    ELSE Matched(CHOOSE e \in entries : \A f \in entries : e.id <= f.id)

SameGroup(x, y) == x.run = y.run /\ x.cid = y.cid /\ x.attempt = y.attempt

\* The spec paths whose entries the outcome can belong to.
SpecSpellings(entries, outcome) ==
    Spellings(outcome.spec, {e.spec : e \in
        {e \in Range(entries) : SameGroup(e, outcome)}})

Tests(group) == {e \in group : e.scope = "test" /\ e.test # None}

FullNames(group) ==
    {e.test.fullName : e \in {e \in Tests(group) : e.test.fullName # None}}

\* The unclaimed capture recorded first under exactly this full name.
Queued(group, fullName, matched) ==
    FirstStarted({e \in Tests(group) :
                     e.test.fullName = fullName /\ e.id \notin matched})

FindFullName(group, identity, pass, matched) ==
    LET spellings == Spellings(identity.fullName, FullNames(group)) IN
    CASE identity.fullName = None -> Missing
      [] identity.fullName # None /\ pass = "exact" ->
             Queued(group, identity.fullName, matched)
      [] identity.fullName # None /\ pass = "normalized" ->
             IF spellings = {} \/ identity.fullName \in spellings THEN Missing
             ELSE IF Cardinality(spellings) > 1 THEN Ambiguous
             ELSE Queued(group, CHOOSE name \in spellings : TRUE, matched)

\* The captures a name can mean, each under the names it is indexed by.
Aliases(group, fuller) ==
    {[entry |-> e, names |-> IF fuller THEN {e.test.name}
                             ELSE IdentityNames(e.test)] :
        e \in {e \in Tests(group) : fuller => ~HasFullerIdentity(e.test)}}

FindAlias(aliases, name, matched) ==
    LET spellings == Spellings(name, UNION {a.names : a \in aliases}) IN
    IF Cardinality(spellings) > 1 THEN Ambiguous
    ELSE Only({a.entry : a \in {a \in aliases :
                  /\ a.entry.id \notin matched
                  /\ a.names \cap spellings # {}}})

\* Two fuller identities that share a short title are not the same test.
FindFallback(group, identity, matched) ==
    LET aliases == Aliases(group, HasFullerIdentity(identity))
        found == {FindAlias(aliases, name, matched) :
                     name \in IdentityNames(identity)} \ {Missing}
    IN CASE found = {} -> Missing
         [] Cardinality(found) = 1 -> CHOOSE match \in found : TRUE
         [] OTHER -> Ambiguous

ScenarioKey(outcome) ==
    <<outcome.run, outcome.cid, outcome.spec, outcome.attempt,
      outcome.test.parent, outcome.test.container>>

\* What the entities of the group say of the outcome in this pass.
FindEntry(group, outcome, pass, matched) ==
    LET container == outcome.test.container
        identity == IF container = None THEN outcome.test
                    ELSE [name |-> container, fullName |-> container]
        found == IF pass = "fallback"
                 THEN FindFallback(group, identity, matched)
                 ELSE FindFullName(group, identity, pass, matched)
    IN
    IF pass = "fallback" /\ found = Missing
    THEN FirstStarted({e \in group : e.scope = "spec"})
    ELSE found

\* One outcome in one pass.  A scenario keeps the entry its first step got.
MatchOutcome(state, entries, outcome, pass) ==
    LET specs == SpecSpellings(entries, outcome)
        group == {e \in Range(entries) :
                     SameGroup(e, outcome) /\ e.spec \in specs}
        key == ScenarioKey(outcome)
        assigned == {s \in state.scenarios : s.key = key}
        found == IF outcome.test.container # None /\ assigned # {}
                 THEN Matched((CHOOSE s \in assigned : TRUE).entry)
                 ELSE FindEntry(group, outcome, pass, state.matched)
    IN
    CASE specs = {} -> [match |-> Missing, state |-> state]
      [] Cardinality(specs) > 1 -> [match |-> Ambiguous, state |-> state]
      [] OTHER ->
           [match |-> found,
            state |->
               IF found.kind # "matched" THEN state
               ELSE [matched |-> state.matched \cup {found.entry.id},
                     scenarios |->
                        IF outcome.test.container # None
                           /\ found.entry.scope = "test"
                        THEN state.scenarios \cup
                                {[key |-> key, entry |-> found.entry]}
                        ELSE state.scenarios]]

\* An outcome that has no match yet is tried; an ambiguous one stays so.
JoinOutcome(joined, entries, outcomes, i, pass) ==
    IF joined.matches[i].kind # "missing" THEN joined
    ELSE LET step == MatchOutcome(joined.state, entries, outcomes[i], pass) IN
         [matches |-> [joined.matches EXCEPT ![i] = step.match],
          state |-> step.state]

Unjoined(outcomes) ==
    [matches |-> [i \in DOMAIN outcomes |-> Missing],
     state |-> [matched |-> {}, scenarios |-> {}]]

\* Mutant: every outcome runs through all passes before the next one does.
MatchEachOutcome(entries, outcomes) ==
    LET after[i \in 0..Len(outcomes)] ==
            IF i = 0 THEN Unjoined(outcomes)
            ELSE LET before == after[i - 1]
                     exact == JoinOutcome(before, entries, outcomes, i, "exact")
                     near == JoinOutcome(exact, entries, outcomes, i,
                                         "normalized")
                 IN JoinOutcome(near, entries, outcomes, i, "fallback")
    IN after[Len(outcomes)]

RunPass(joined, entries, outcomes, pass) ==
    LET after[i \in 0..Len(outcomes)] ==
            IF i = 0 THEN joined
            ELSE LET before == after[i - 1] IN
                 JoinOutcome(before, entries, outcomes, i, pass)
    IN after[Len(outcomes)]

\* A looser pass begins only when a stricter one has seen every outcome.
MatchAll(entries, outcomes) ==
    LET exact == RunPass(Unjoined(outcomes), entries, outcomes, "exact")
        near == RunPass(exact, entries, outcomes, "normalized")
    IN RunPass(near, entries, outcomes, "fallback")

----------------------------------------------------------------------------
(* The report.                                                             *)

Item(outcome, match) ==
    [outcome |-> outcome,
     entry |-> IF match.kind = "matched" THEN match.entry ELSE None,
     why |-> CASE match.kind = "matched" -> None
               [] match.kind = "ambiguous" -> "ambiguous-test-outcome"
               [] match.kind = "missing" -> "unmatched-test-outcome"]

ManifestOnlyItem(entry) ==
    [outcome |-> None, entry |-> entry, why |-> "unmatched-manifest-entry"]

ReportItems(entries, outcomes) ==
    LET joined == MatchAll(entries, outcomes) IN
    {Item(outcomes[i], joined.matches[i]) : i \in DOMAIN outcomes}
        \cup {ManifestOnlyItem(e) :
                 e \in {e \in Range(entries) : e.id \notin joined.state.matched}}
=============================================================================
