---------------------------- MODULE MissionShare ----------------------------
(***************************************************************************)
(* The shared mission ledger (src/mission-share.ts, missions.ts): one      *)
(* mission, known to agents by its key, with what each learned and how it  *)
(* went.  Titles and dates of records are left out.                        *)
(***************************************************************************)
EXTENDS ProfileShare

Learning == [value : Value, shareable : BOOLEAN]

\* An outcome has the agent that asserted it when it is imported.
Outcome == [value : Value, at : Nat, by : Agent \cup {None}]

MissionRecord ==
  [status : {"active", "succeeded"}, participants : SUBSET Agent,
   learnings : [Key -> Learning \cup {None}], imported : [Agent -> [Key -> Told \cup {None}]],
   outcomes : Seq(Outcome)]

\* seedMission, and the record recordMission starts from.
NewMission ==
  [status |-> "active", participants |-> {}, learnings |-> NoNotes, imported |-> NoImported, outcomes |-> <<>>]

\* recordMission: a learning, an outcome, participants, and the status if one is given.
RecordMission(record, in, now) ==
  [record EXCEPT !.status = in.status, !.participants = @ \cup in.participants,
                 !.learnings[in.key] = [value |-> in.value, shareable |-> in.shareable],
                 !.outcomes = Append(@, [value |-> in.value, at |-> now, by |-> None])]

-----------------------------------------------------------------------------
\* buildSharedLearnings: learnings are this agent's own.
BuildSharedLearnings(record, self) ==
  [k \in {k \in Key : record.learnings[k] # None /\ record.learnings[k].shareable} |->
     [value |-> record.learnings[k].value, originally |-> self]]

\* prepareMissionShare: with the scope "outcomes" every row goes, the imported ones, too.
MissionEnvelope(record, scope, self) ==
  [outcomes |-> IF scope = "outcomes" THEN record.outcomes ELSE <<>>,
   notes    |-> IF scope = "mission" THEN BuildSharedLearnings(record, self) ELSE <<>>]

\* MUTANT: every row is appended.
AppendOutcomes(existing, incoming, from) ==
  existing \o [n \in DOMAIN incoming |-> [incoming[n] EXCEPT !.by = from]]

\* mergeImportedOutcomes: a row is the peer's now, whoever it was from, and is left out
\* if there is one of this mission, moment and peer already.
MergeImportedOutcomes(existing, incoming, from) ==
  LET held(at) == \E n \in DOMAIN existing : existing[n].at = at /\ existing[n].by = from
      fresh    == {n \in DOMAIN incoming : /\ ~ held(incoming[n].at)
                                           /\ \A m \in 1..(n - 1) : incoming[m].at # incoming[n].at}
      rows     == Pick(incoming, fresh)
  IN  existing \o [n \in DOMAIN rows |-> [rows[n] EXCEPT !.by = from]]

\* applyEnvelopeToMission: neither status nor participants.
ApplyToMission(record, env, from) ==
  [record EXCEPT !.imported = MergeImported(@, env.notes, from),
                 !.outcomes = MergeImportedOutcomes(@, env.outcomes, from)]
=============================================================================
