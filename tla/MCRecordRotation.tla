-------------------------- MODULE MCRecordRotation --------------------------
(***************************************************************************)
(* Instances of RecordRotation: did:key DIDs, each with its own key, and   *)
(* did:web DIDs ("w..."), which may keep their name and change their key.  *)
(***************************************************************************)
EXTENDS RecordRotation

KeyNamed == [d \in Did |-> CASE d = "a" -> "ka" [] d = "b" -> "kb" [] OTHER -> "kc"]
=============================================================================
