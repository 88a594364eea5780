----------------------------- MODULE MCImports -----------------------------
(***************************************************************************)
(* Instances of Imports.  Ann tells Bob twice about a party, Bob notes     *)
(* what he was told and tells Ann; Cat, whom Ann hardly knows and who      *)
(* knows nobody, names ids that come and go; Ann and Bob record a mission  *)
(* and share it both ways; Ann records what she had with a peer and what   *)
(* she heard of it.                                                        *)
(***************************************************************************)
EXTENDS Imports

TrustTable == [a \in Agent |-> [b \in Agent |->
  IF a = "cat" THEN Stranger ELSE IF a = "ann" /\ b = "cat" THEN Acquaintance ELSE Friend]]

Origins == [v \in Value |-> IF v \in {"a1", "a2", "a0"} THEN "ann" ELSE IF v = "b1" THEN "bob" ELSE "cat"]
Ranks   == <<"tell2", "tell1", "back", "name1", "name2", "name3", "intro", "ledger1", "learned", "ledger2">>

Call(agent, kind) ==
  [agent |-> agent, kind |-> kind, to |-> agent, scope |-> "notes:all", ids |-> {}, key |-> "k", from |-> None,
   value |-> IF agent = "ann" THEN "a1" ELSE IF agent = "bob" THEN "b1" ELSE "c1", override |-> FALSE,
   result |-> "success", delta |-> 1, status |-> "active", shareable |-> TRUE, rank |-> 0]

Tells(agent, kind, to, scope, o) ==
  [Call(agent, kind) EXCEPT !.to = to, !.scope = scope, !.rank = CHOOSE n \in DOMAIN Ranks : Ranks[n] = o]

Calls == [o \in Op |->
  CASE o = "note1"   -> Call("ann", "note")
    [] o = "note2"   -> [Call("ann", "note") EXCEPT !.value = "a2", !.override = TRUE]
    [] o = "heard"   -> [Call("bob", "note") EXCEPT !.from = "ann", !.override = TRUE]
    [] o = "own"     -> Call("bob", "note")
    [] o = "tell1"   -> Tells("ann", "share_profile", "bob", "notes:all", o)
    [] o = "tell2"   -> Tells("ann", "share_profile", "bob", "notes:all", o)
    [] o = "back"    -> Tells("bob", "share_profile", "ann", "notes:all", o)
    [] o = "name1"   -> Tells("cat", "share_profile", "bob", "identity", o)
    [] o = "name2"   -> Tells("cat", "share_profile", "bob", "notes:safe", o)
    [] o = "name3"   -> Tells("cat", "share_profile", "bob", "identity", o)
    [] o = "link"    -> [Call("cat", "ids") EXCEPT !.ids = {"i1", "i2"}]
    [] o = "relink"  -> [Call("cat", "ids") EXCEPT !.ids = {"i2", "i3"}]
    [] o = "intro"   -> Tells("cat", "share_profile", "ann", "notes:safe", o)
    [] o = "met"     -> [Call("ann", "outcome") EXCEPT !.delta = 0]
    [] o = "rumour"  -> [Call("ann", "outcome") EXCEPT !.from = "bob", !.result = "failed", !.delta = 0]
    [] o = "gossip"  -> [Call("ann", "outcome") EXCEPT !.from = "bob"]
    [] o = "record1" -> Call("ann", "record")
    [] o = "record2" -> [Call("ann", "record") EXCEPT !.status = "succeeded", !.value = "a2"]
    [] o = "record3" -> Call("bob", "record")
    [] o = "ledger1" -> Tells("ann", "share_mission", "bob", "outcomes", o)
    [] o = "learned" -> Tells("ann", "share_mission", "bob", "mission", o)
    [] o = "ledger2" -> Tells("bob", "share_mission", "ann", "outcomes", o)]

Behaviours == {<<"note1", "tell1", "note2", "tell2">>,
               <<"own", "tell1", "heard", "back">>,
               <<"name1", "link", "name2", "relink", "name3">>,
               <<"intro", "met", "rumour", "gossip", "note1">>,
               <<"record1", "ledger1", "ledger2">>, <<"record1", "ledger1", "record3">>,
               <<"record1", "learned", "record3">>,
               <<"record1", "record2", "ledger1">>}

Strays == {[of |-> "tell1", as |-> "copy", by |-> "ann"], [of |-> "name1", as |-> "copy", by |-> "ann"],
           [of |-> "ledger1", as |-> "copy", by |-> "ann"], [of |-> "tell2", as |-> "spoof", by |-> "cat"],
           [of |-> "back", as |-> "misrouted", by |-> "bob"], [of |-> "name2", as |-> "broken", by |-> "ann"],
           [of |-> "tell1", as |-> "future", by |-> "ann"]}

Of(ids, note) == [ids |-> ids, claims |-> <<>>, trust |-> Friend, peer |-> TRUE, notes |-> [k \in Key |-> note],
                  imported |-> NoImported, outcomes |-> [n \in 1..2 |-> [result |-> "success", heard |-> FALSE]],
                  familiarity |-> 2]
Safe(v) == [value |-> v, shareable |-> TRUE, from |-> None]

\* Bob knows the party by the id the others know it by, by another, or not at all.
Known == {[a \in Agent |-> [r \in Rec |->
            IF r # "r1" THEN None
            ELSE CASE a = "ann" -> Of({"i1"}, Safe("a0"))
                   [] a = "cat" -> Of({"i1"}, Safe("c1"))
                   [] a = "bob" -> bob]] : bob \in {None, Of({"i1"}, None), Of({"i2"}, None)}}
=============================================================================
