------------------------------ MODULE Standing ------------------------------
(***************************************************************************)
(* Earned standing (src/standing.ts): a tier from the outcomes this agent  *)
(* has itself had with a peer.                                             *)
(***************************************************************************)
EXTENDS Integers, FiniteSets

FamiliarityThreshold == 3

\* An outcome that counts is its place in the record's and its result.
Tally(own, result) == Cardinality({o \in own : o[2] = result})

\* DEFAULT_STANDING_RULE.
Tier(own, familiarity) ==
  LET success == Tally(own, "success")
      failed  == Tally(own, "failed")
  IN  IF own = {} THEN "untested"
      ELSE IF failed > success THEN "troubled"
      ELSE IF success >= 3 /\ failed = 0 /\ familiarity >= FamiliarityThreshold THEN "proven"
      ELSE IF success >= 1 /\ failed = 0 THEN "reliable"
      ELSE "mixed"

\* MUTANT: whatever is on the record counts.
AllOutcomes(outcomes) == {<<n, outcomes[n].result>> : n \in DOMAIN outcomes}

\* The first firewall: first-party only.
FirstParty(outcomes) == {<<n, outcomes[n].result>> : n \in {m \in DOMAIN outcomes : ~ outcomes[m].heard}}

AssessStanding(record) == Tier(FirstParty(record.outcomes), record.familiarity)
=============================================================================
