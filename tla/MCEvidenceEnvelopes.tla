------------------------- MODULE MCEvidenceEnvelopes -------------------------
(***************************************************************************)
(* A cache entry and a backup, which one graph file calls erased both and  *)
(* another one pending its expiry.  Beside the good evidence (Cache, Key)  *)
(* there is a copy altered in transit under the same nonce, evidence that  *)
(* expires at epoch 1, an invalidation that propagates until epoch 2, the  *)
(* schedule of the backup's expiry, which is of the future at epoch 1, and *)
(* evidence under an unknown key.  At epoch 1 the evidence that the        *)
(* backup's key is destroyed has expired and counts nevertheless; at 2 it  *)
(* is too old.                                                             *)
(***************************************************************************)
EXTENDS EvidenceEnvelopes

Good(artifact, kind, token, states) ==
  [artifact |-> artifact, token |-> token, supported |-> TRUE, trusted |-> TRUE,
   signed |-> TRUE, kind |-> kind, issued |-> 1, expires |-> Never, deadline |-> 0,
   sound |-> states]

Cache == [Good("cache", "CACHE_INVALIDATION", 1, {"ERASED"}) EXCEPT !.deadline = 1]
Altered == [Cache EXCEPT !.signed = FALSE]
Key == [Good("backup", "CRYPTO_ERASURE", 2, {"ERASED"}) EXCEPT !.issued = 0, !.expires = 1]
Early == [Cache EXCEPT !.token = 3, !.issued = 0, !.expires = 1]
Slow == [Cache EXCEPT !.token = 4, !.deadline = 2]
Schedule ==
  [Good("backup", "EXPIRY_SCHEDULE", 5, {"WAITING_EXPIRY"}) EXCEPT !.issued = 2, !.expires = 9]
Unknown == [Key EXCEPT !.token = 6, !.trusted = FALSE]

MCEnvelopes == {Cache, Altered, Key, Early, Slow, Schedule, Unknown}
MCFiles == { <<Cache, Key>>, <<Early, Key>>, <<Slow, Schedule>>, <<Unknown, Altered>> }

Both(state) == [artifact \in {"cache", "backup"} |-> state]
MCGraphs == { Both("ERASED"), [Both("ERASED") EXCEPT !["backup"] = "WAITING_EXPIRY"] }
=============================================================================
