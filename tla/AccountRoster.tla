--------------------------- MODULE AccountRoster ---------------------------
(***************************************************************************)
(* Membership of the owner's account (src/account-roster.ts over           *)
(* roster-store-file.ts): a signed roster of the owner's agents is checked *)
(* under a key that is pinned on first contact.                            *)
(*                                                                         *)
(* A check of a presented roster is a sequence of awaits: getPin, the two  *)
(* halves of putPin's writeFile (truncate, write), then the synchronous    *)
(* verification.  Checks of different processes interleave and any may be  *)
(* cut short.  A roster is a model value with its members and the key that *)
(* really signed it; the epoch is left out, for nothing in the code reads  *)
(* it but the signature.                                                   *)
(***************************************************************************)
EXTENDS Naturals

CONSTANTS
  Proc,      \* calls at the host
  Roster,    \* the rosters that are in circulation
  Key,       \* Ed25519 keys
  Did,       \* agents' DIDs
  Members,   \* [Roster -> SUBSET Did]
  SignedBy,  \* [Roster -> Key]
  NoRoster,
  NoKey,
  NoDid

ASSUME RosterAssumption ==
  /\ Members \in [Roster -> SUBSET Did]
  /\ SignedBy \in [Roster -> Key]
  /\ NoRoster \notin Roster
  /\ NoKey \notin Key
  /\ NoDid \notin Did

VARIABLES
  roster,    \* the roster the host has stored
  pin,       \* the pin file's key; NoKey while there is none, or a torn one
  check,     \* [Proc -> the membership check it runs]
  family,    \* history: the <<key, did>> answered family_same_account
  contested  \* history: a pin was overwritten by another first contact, or torn

rosterVars == <<roster, pin, check, family, contested>>

NoCheck == [pc |-> "idle", roster |-> NoRoster, key |-> NoKey, did |-> NoDid]

RosterTypeOK ==
  /\ roster \in Roster \cup {NoRoster}
  /\ pin \in Key \cup {NoKey}
  /\ check \in [Proc -> [pc : {"idle", "pinned", "pin", "open", "write", "decide"},
                         roster : Roster \cup {NoRoster}, key : Key \cup {NoKey},
                         did : Did \cup {NoDid}]]
  /\ family \subseteq Key \X Did
  /\ contested \in BOOLEAN

RosterInit ==
  /\ roster = NoRoster
  /\ pin = NoKey
  /\ check = [p \in Proc |-> NoCheck]
  /\ family = {}
  /\ contested = FALSE

Check(p, c) == check' = [check EXCEPT ![p] = c]

\* The owner stores a roster (putRoster).
StoreRoster ==
  /\ roster' \in Roster
  /\ UNCHANGED <<pin, check, family, contested>>

\* evaluateAccountMembership with a roster and a key that a peer presents.
Present(p, ro, k, d) ==
  /\ check[p].pc = "idle"
  /\ Check(p, [pc |-> "pin", roster |-> ro, key |-> k, did |-> d])
  /\ UNCHANGED <<roster, pin, family, contested>>

\* The resolver reads the stored roster, then the stored pin, and goes on only
\* with both: it never pins.
FromStore(p, d) ==
  /\ check[p].pc = "idle" /\ roster # NoRoster
  /\ Check(p, [pc |-> "pinned", roster |-> roster, key |-> NoKey, did |-> d])
  /\ UNCHANGED <<roster, pin, family, contested>>

StoredPin(p) ==
  /\ check[p].pc = "pinned" /\ pin # NoKey
  /\ Check(p, [check[p] EXCEPT !.pc = "pin", !.key = pin])
  /\ UNCHANGED <<roster, pin, family, contested>>

NotPinned(p) == check[p].pc = "pinned" /\ pin = NoKey

\* MUTANT: a changed key passes on to the verification.
MatchesAny(p) == check[p].key # NoKey

\* A changed key fails hard; the key of the pin passes.
Matches(p) == check[p].key = pin

\* getPin: no pin to compare with (or a torn one) leads to the first contact.
ReadPin(p) ==
  /\ check[p].pc = "pin"
  /\ Check(p, IF pin = NoKey THEN [check[p] EXCEPT !.pc = "open"]
              ELSE IF Matches(p) THEN [check[p] EXCEPT !.pc = "decide"]
              ELSE NoCheck)
  /\ UNCHANGED <<roster, pin, family, contested>>

\* putPin truncates the file, whoever wrote it meanwhile.
OpenPin(p) ==
  /\ check[p].pc = "open"
  /\ contested' = (contested \/ pin # NoKey)
  /\ pin' = NoKey
  /\ Check(p, [check[p] EXCEPT !.pc = "write"])
  /\ UNCHANGED <<roster, family>>

WritePin(p) ==
  /\ check[p].pc = "write"
  /\ contested' = (contested \/ pin # NoKey)
  /\ pin' = check[p].key
  /\ Check(p, [check[p] EXCEPT !.pc = "decide"])
  /\ UNCHANGED <<roster, family>>

\* The signature verifies under the key (with a verifier that may grant family),
\* and the candidate is a member.
Member(c) == SignedBy[c.roster] = c.key /\ c.did \in Members[c.roster]

Decide(p) ==
  /\ check[p].pc = "decide"
  /\ family' = IF Member(check[p]) THEN family \cup {<<check[p].key, check[p].did>>} ELSE family
  /\ Check(p, NoCheck)
  /\ UNCHANGED <<roster, pin, contested>>

\* The process stops: a pin that was being written stays torn.
StopCheck(p) ==
  /\ contested' = (contested \/ check[p].pc = "write")
  /\ Check(p, NoCheck)
  /\ UNCHANGED <<roster, pin, family>>

-----------------------------------------------------------------------------
(* Properties.                                                             *)

\* What a key says while it is not contested: the checks that passed the
\* comparison, and the answers given, are all under the pinned key.
UnderThePin ==
  ~ contested =>
    /\ \A p \in Proc : check[p].pc = "decide" => check[p].key = pin
    /\ \A f \in family : f[1] = pin

\* "A changed key HARD-FAILS rather than silently re-pinning" (roster-store.ts:21):
\* family is only ever answered under one key, unless two first contacts overlapped
\* or the write of a pin was cut short.
OneKeyGrantsFamily == ~ contested => \A f, g \in family : f[1] = g[1]
=============================================================================
