---------------------------- MODULE ProfileShare ----------------------------
(***************************************************************************)
(* Profile shares (src/share.ts): what an agent tells a peer about a       *)
(* party, and how the peer merges it beside what it knows first-hand.      *)
(*                                                                         *)
(* A party is named by account ids.  Names, roles and dates of records     *)
(* are left out; so is the proof, which the default verifier ignores       *)
(* (src/verifier.ts).  Consent is the Sharing module's.                    *)
(***************************************************************************)
EXTENDS Integers, SequencesExt, FiniteSetsExt

CONSTANTS
  Agent, Id, Key,
  Value,      \* what notes, learnings and outcomes say
  None,       \* no record, no note, nobody
  MaxClaims   \* bound of the code, 32: id claims of one peer on a record

\* There are finitely many account ids that anybody names.
ASSUME ProfileShareAssumption == MaxClaims \in Nat /\ None \notin Agent /\ IsFiniteSet(Id)

Stranger     == 1
Acquaintance == 2
Friend       == 3
Family       == 4

\* A note has the agent it was heard from when its provenance is "imported".
Note  == [value : Value, shareable : BOOLEAN, from : Agent \cup {None}]
Told  == [value : Value, originally : Agent]
Claim == [by : Agent, id : Id]

Result == {"success", "partial", "failed"}

FriendRecord ==
  [ids : SUBSET Id, claims : Seq(Claim), trust : Stranger..Family, peer : BOOLEAN,
   notes : [Key -> Note \cup {None}], imported : [Agent -> [Key -> Told \cup {None}]],
   outcomes : Seq([result : Result, heard : BOOLEAN]), familiarity : Int]

NoNotes    == [k \in Key |-> None]
NoImported == [s \in Agent |-> NoNotes]

\* The members of a sequence at the places in K, in their order.
Picks(s, K) ==
  LET pick[n \in 0..Len(s)] ==
        IF n = 0 THEN <<>> ELSE IF n \in K THEN Append(pick[n - 1], s[n]) ELSE pick[n - 1]
  IN  pick

Pick(s, K) == Picks(s, K)[Len(s)]

-----------------------------------------------------------------------------
(* Producer.                                                               *)

\* MUTANT: whoever shares a note has made it.
SelfAsserted(note, self) == self

OriginalAsserterOf(note, self) == IF note.from # None THEN note.from ELSE self

Share(note, self) == [value |-> note.value, originally |-> OriginalAsserterOf(note, self)]

BuildSharedNotes(record, scope, self) ==
  [k \in {k \in Key : record.notes[k] # None /\ (scope = "notes:all" \/ record.notes[k].shareable)} |->
     Share(record.notes[k], self)]

\* The names of the account ids go out where the share is to identify the party, and
\* imported notes never do.
ProfileEnvelope(record, scope, self) ==
  [ids   |-> IF scope \in {"name", "coordinate"} THEN {} ELSE record.ids,
   notes |-> IF scope \in {"name", "coordinate", "identity", "outcomes"} THEN <<>>
             ELSE BuildSharedNotes(record, scope, self)]

-----------------------------------------------------------------------------
(* Consumer.                                                               *)

Accepted(trust) == trust >= Acquaintance
MaySeed(trust)  == trust >= Friend

ClaimsIn(claims, by) == {i \in Id : \E n \in DOMAIN claims : claims[n] = [by |-> by, id |-> i]}

Claims(record, by) == ClaimsIn(record.claims, by)

\* resolveSubject: a record that holds one of the ids, or else one on which this peer
\* has claimed one.  Which of several is found is the store's order.
ResolveSubject(records, ids, from) ==
  LET held == {r \in DOMAIN records : records[r].ids \cap ids # {}}
  IN  IF held # {} THEN held
      ELSE {r \in DOMAIN records : Claims(records[r], from) \cap ids # {}}

\* MUTANT: the claims are kept, however many.
KeepClaims(claims, by) == claims

\* capClaimsPerPeer: this peer's oldest claims go.
CapClaimsPerPeer(claims, by) ==
  LET mine(n) == {i \in DOMAIN claims : i >= n /\ claims[i].by = by}
  IN  Pick(claims, {n \in DOMAIN claims : claims[n].by # by \/ Cardinality(mine(n)) <= MaxClaims})

NewClaims(ids, from) == [n \in 1..Cardinality(ids) |-> [by |-> from, id |-> SetToSeq(ids)[n]]]

\* mergeImportedNotes: the newest import of a peer wins.
MergeImported(imported, told, from) ==
  [imported EXCEPT ![from] = [k \in Key |-> IF k \in DOMAIN told THEN told[k] ELSE @[k]]]

\* MUTANT: what a peer says is noted as first-hand.
ApplyAsFirstHand(record, env, from) ==
  [record EXCEPT !.notes = [k \in Key |-> IF k \in DOMAIN env.notes
                              THEN [value |-> env.notes[k].value, shareable |-> FALSE, from |-> from] ELSE @[k]]]

\* applyEnvelopeToRecord.
ApplyToRecord(record, env, from) ==
  LET new == env.ids \ (record.ids \cup Claims(record, from))
  IN  [record EXCEPT !.imported = MergeImported(@, env.notes, from),
                     !.claims = IF new = {} THEN @
                                ELSE CapClaimsPerPeer(@ \o NewClaims(new, from), from)]

\* seedRecord: a stranger; the ids are the peer's claims, and are not capped.
SeedRecord(env, from) ==
  [ids |-> {}, claims |-> NewClaims(env.ids, from), trust |-> Stranger, peer |-> FALSE,
   notes |-> NoNotes, imported |-> NoImported, outcomes |-> <<>>, familiarity |-> 0]

-----------------------------------------------------------------------------
(* First-hand writers.                                                     *)

\* applyFriendNote: there is a note already.
OverrideRequired(record, key, override) == record.notes[key] # None /\ ~ override

\* Its new note is not marked as shareable.
ApplyFriendNote(record, key, value, from) ==
  [record EXCEPT !.notes[key] = [value |-> value, shareable |-> FALSE, from |-> from]]

\* recordRelationshipOutcome: what the store keeps of it, which is nothing on a record
\* that is not a peer's.  The caller says how much more familiar the two are.
RecordOutcome(record, result, heard, delta) ==
  IF record.peer THEN [record EXCEPT !.outcomes = Append(@, [result |-> result, heard |-> heard]),
                                     !.familiarity = @ + delta]
  ELSE record
=============================================================================
