---------------------------- MODULE SessionProofs ----------------------------
(***************************************************************************)
(* Proofs about Session for every value of its constants.  The lemmas say  *)
(* what each helper does to one session record; the inductive invariant    *)
(* IInv relates the records of the two endpoints, the envelopes on the     *)
(* network and the messages accepted so far.                               *)
(***************************************************************************)
EXTENDS Session, FiniteSetTheorems, TLAPS

Nonces == [prefix : Keys, counter : Nat, index : Nat]

\* The epoch of a sending chain can be read off the last ratchet step in it.
Tagged(p, e, chain) ==
  IF e = 0 THEN chain = << >>
  ELSE chain # << >> /\ chain[Len(chain)].new = <<p, e>>

\* Accepted messages and cached keys lie behind the receiving chain and are
\* disjoint: what was decrypted has no key any more.
Consistent(s, ids) ==
  /\ \A id \in ids \cup s.skipped_message_keys : Passed(s, id)
  /\ ids \cap s.skipped_message_keys = {}

SenderOK(p, s) ==
  /\ s.nonce = [prefix |-> <<p, s.send_epoch>>, counter |-> s.send_index]
  /\ s.send_index <= MaxMessagesPerChain
  /\ Tagged(p, s.send_epoch, s.send_chain)

\* s is the session of the envelope's sender.
EnvelopeOK(m, s) ==
  /\ m.payload_nonce = [prefix  |-> <<m.from, m.ratchet_epoch>>,
                        counter |-> m.message_index,
                        index   |-> m.message_index]
  /\ Tagged(m.from, m.ratchet_epoch, m.chain)
  /\ \/ m.ratchet_epoch < s.send_epoch
     \/ /\ m.ratchet_epoch = s.send_epoch
        /\ m.message_index < s.send_index
        /\ m.chain = s.send_chain

\* The receiver s never runs ahead of the sender t.
InStep(s, t) ==
  /\ s.recv_epoch <= t.send_epoch
  /\ s.recv_epoch = t.send_epoch => s.recv_chain = t.send_chain
  /\ \A k \in s.cached_metadata_keys : k[1] < s.recv_epoch

\* What the sending operations leave alone.
SameReceiver(r, s) ==
  /\ r.destroyed = s.destroyed
  /\ r.recv_chain = s.recv_chain
  /\ r.recv_index = s.recv_index
  /\ r.recv_epoch = s.recv_epoch
  /\ r.skipped_message_keys = s.skipped_message_keys
  /\ r.cached_metadata_keys = s.cached_metadata_keys
  /\ r.seen_payload_nonces = s.seen_payload_nonces
  /\ r.total_sent = s.total_sent
  /\ r.total_received = s.total_received

ReceiverInv ==
  \A p \in Peers :
    /\ Consistent(session[p], accepted[p])
    /\ IsFiniteSet(accepted[p])

SenderInv == \A p \in Peers : SenderOK(p, session[p])

NetworkInv ==
  /\ \A m \in network : EnvelopeOK(m, session[m.from])
  /\ \A m, n \in network :
       (m.from = n.from /\ m.ratchet_epoch = n.ratchet_epoch) =>
         /\ m.chain = n.chain
         /\ m.message_index = n.message_index => m = n

AgreementInv == \A p \in Peers : InStep(session[p], session[Peer(p)])

IInv ==
  /\ TypeOK
  /\ ReceiverInv
  /\ AtMostOnce
  /\ SenderInv
  /\ NetworkInv
  /\ AgreementInv
  /\ KeysAgree

-----------------------------------------------------------------------------
(* What the helpers do to one session record.                              *)

\* Peer maps each endpoint to the other one.
LEMMA PeerFacts ==
  ASSUME NEW p \in Peers
  PROVE  Peer(p) \in Peers /\ Peer(p) # p /\ Peer(Peer(p)) = p
BY EndpointsDiffer DEF Peers, Peer

\* Evicting from the skipped-key cache only removes keys.
LEMMA EvictionRemoves ==
  ASSUME NEW s \in Sessions, NEW n
  PROVE  /\ reserve_skipped_capacity(s, n) \subseteq s.skipped_message_keys
         /\ enforce_cache_limit(s) \subseteq s.skipped_message_keys
BY DEF reserve_skipped_capacity, enforce_cache_limit, evict_aged_skipped_keys, Newest

\* Evicting from the metadata-key cache only removes keys.
LEMMA MetadataEvictionRemoves ==
  ASSUME NEW cache, NEW e
  PROVE  enforce_metadata_cache_limit(cache, e) \subseteq cache
BY DEF enforce_metadata_cache_limit, Newest

\* The replay cache stays a sequence of nonces.
LEMMA SeenType ==
  ASSUME NEW seen \in Seq(Nonces), NEW n \in Nonces
  PROVE  remember_seen_payload_nonce(seen, n) \in Seq(Nonces)
BY LimitsAssumption DEF remember_seen_payload_nonce

\* skip_old_chain_keys moves the receiving chain forward and nothing else.
LEMMA SkipFacts ==
  ASSUME NEW s \in Sessions, NEW n \in Nat
  PROVE  LET k == skip_old_chain_keys(s, n)
         IN  /\ k \in Sessions
             /\ k = [s EXCEPT !.skipped_message_keys = k.skipped_message_keys,
                              !.recv_index = k.recv_index]
             /\ \A ids \in SUBSET MessageIds : Consistent(s, ids) => Consistent(k, ids)
<1> DEFINE k == skip_old_chain_keys(s, n)
           new == {s.recv_epoch} \X (s.recv_index .. n - 1)
           kept == reserve_skipped_capacity(s, n - s.recv_index)
<1>1. CASE s.recv_index >= n
  <2>1. k = s
    BY <1>1 DEF skip_old_chain_keys
  <2> QED BY Zenon, <2>1 DEF Sessions
<1>2. CASE ~(s.recv_index >= n)
  <2>1. k = [s EXCEPT !.skipped_message_keys = kept \cup new, !.recv_index = n]
    BY <1>2 DEF skip_old_chain_keys
  <2>2. kept \subseteq s.skipped_message_keys
    BY EvictionRemoves
  <2>3. /\ s.recv_epoch \in Nat /\ s.recv_index \in Nat
        /\ s.skipped_message_keys \subseteq MessageIds
    BY DEF Sessions
  <2>4. new \subseteq MessageIds
    BY <2>3 DEF MessageIds
  <2>5. kept \cup new \in SUBSET MessageIds
    BY <2>2, <2>3, <2>4
  <2>6. k \in Sessions
    BY Zenon, <2>1, <2>5 DEF Sessions
  <2>7. /\ k.skipped_message_keys = kept \cup new /\ k.recv_index = n
        /\ k.recv_epoch = s.recv_epoch
    BY <2>1 DEF Sessions
  <2>8. k = [s EXCEPT !.skipped_message_keys = k.skipped_message_keys,
                      !.recv_index = k.recv_index]
    BY <2>1, <2>7
  <2>9. ASSUME NEW ids \in SUBSET MessageIds, Consistent(s, ids)
        PROVE  Consistent(k, ids)
    <3>1. \A id \in ids \cup s.skipped_message_keys : Passed(k, id)
      BY <2>9, <2>3, <2>7, <1>2 DEF Consistent, Passed, MessageIds
    <3>2. \A id \in new : Passed(k, id) /\ ~Passed(s, id)
      BY <2>3, <2>7 DEF Passed
    <3> QED BY Zenon, <3>1, <3>2, <2>2, <2>7, <2>9 DEF Consistent
  <2> QED BY <2>6, <2>8, <2>9
<1> QED BY <1>1, <1>2
\* Mixing a ratchet step into a root gives a secret that ends in that step.
LEMMA KdfFacts ==
  ASSUME NEW root \in Secrets, NEW new \in Keys, NEW to \in Keys
  PROVE  LET r == Kdf(root, new, to)
         IN  r \in Secrets /\ r # << >> /\ r[Len(r)].new = new
<1>1. [new |-> new, to |-> to] \in Steps
  BY DEF Steps
<1> QED BY <1>1 DEF Kdf, Secrets

\* apply_recv_ratchet starts the next receiving epoch; the sending side, the
\* replay cache and the counters are left alone.
LEMMA ApplyFacts ==
  ASSUME NEW s \in Sessions, NEW m \in Envelopes
  PROVE  LET c == apply_recv_ratchet(s, m)
         IN  /\ c \in Sessions
             /\ c = [s EXCEPT !.skipped_message_keys = c.skipped_message_keys,
                              !.cached_metadata_keys = c.cached_metadata_keys,
                              !.root_key = c.root_key,
                              !.recv_chain = c.recv_chain,
                              !.recv_index = 0,
                              !.recv_epoch = s.recv_epoch + 1,
                              !.dh_remote = c.dh_remote,
                              !.send_ratchet_pending = TRUE]
             /\ c.cached_metadata_keys \subseteq
                  s.cached_metadata_keys \cup {<<s.recv_epoch, s.recv_chain>>}
             /\ \A ids \in SUBSET MessageIds : Consistent(s, ids) => Consistent(c, ids)
<1> DEFINE yes  == TRUE
           k    == skip_old_chain_keys(s, m.previous_chain_length)
           root == Kdf(k.root_key, m.dh_public_key, k.dh_local)
           meta == enforce_metadata_cache_limit(
                     k.cached_metadata_keys \cup {<<k.recv_epoch, k.recv_chain>>},
                     k.recv_epoch)
           e    == k.recv_epoch + 1
           t    == [k EXCEPT !.cached_metadata_keys = meta,
                             !.root_key = root,
                             !.recv_chain = root,
                             !.recv_index = 0,
                             !.recv_epoch = e,
                             !.dh_remote = m.dh_public_key,
                             !.send_ratchet_pending = yes]
           c    == apply_recv_ratchet(s, m)
<1>1. c = [t EXCEPT !.skipped_message_keys = enforce_cache_limit(t)]
  BY Zenon DEF apply_recv_ratchet
<1>2. m.previous_chain_length \in Nat /\ m.dh_public_key \in Keys
  BY DEF Envelopes
<1>3. /\ k \in Sessions
      /\ k = [s EXCEPT !.skipped_message_keys = k.skipped_message_keys,
                       !.recv_index = k.recv_index]
      /\ \A ids \in SUBSET MessageIds : Consistent(s, ids) => Consistent(k, ids)
  BY Zenon, <1>2, SkipFacts
<1>0. yes \in BOOLEAN
  OBVIOUS
<1> HIDE DEF k, yes
<1>4. /\ k.recv_epoch = s.recv_epoch /\ k.recv_chain = s.recv_chain
      /\ k.cached_metadata_keys = s.cached_metadata_keys
      /\ k.root_key \in Secrets /\ k.dh_local \in Keys /\ k.recv_chain \in Secrets
      /\ k.recv_epoch \in Nat /\ k.recv_index \in Nat
      /\ k.skipped_message_keys \subseteq MessageIds
      /\ k.cached_metadata_keys \subseteq Nat \X Secrets
  BY Zenon, <1>3 DEF Sessions
<1>k. k \in Sessions
  BY <1>3
<1>5. root \in Secrets
  BY Zenon, <1>2, <1>4, KdfFacts
<1>6. meta \subseteq s.cached_metadata_keys \cup {<<s.recv_epoch, s.recv_chain>>}
  BY Zenon, <1>4, MetadataEvictionRemoves
<1>e. e \in Nat /\ e = s.recv_epoch + 1
  BY <1>4
<1> HIDE DEF root, meta, e
<1>7. meta \in SUBSET (Nat \X Secrets)
  <2>1. <<s.recv_epoch, s.recv_chain>> \in Nat \X Secrets
    BY <1>4
  <2>2. s.cached_metadata_keys \subseteq Nat \X Secrets
    BY <1>4
  <2> QED BY <1>6, <2>1, <2>2
<1>8. t \in Sessions
  BY <1>0, <1>2, <1>k, <1>e, <1>5, <1>7, ZenonT(30) DEF Sessions
<1>9. enforce_cache_limit(t) \subseteq k.skipped_message_keys
  <2>1. t.skipped_message_keys = k.skipped_message_keys
    BY <1>3 DEF Sessions
  <2> QED BY Zenon, <1>8, <2>1, EvictionRemoves
<1> DEFINE kept == enforce_cache_limit(t)
<1>11. kept \subseteq k.skipped_message_keys
  BY <1>9
<1>l. c = [t EXCEPT !.skipped_message_keys = kept]
  BY <1>1
<1> HIDE DEF kept, c
<1>10. c = [k EXCEPT !.skipped_message_keys = kept,
                     !.cached_metadata_keys = meta,
                     !.root_key = root,
                     !.recv_chain = root,
                     !.recv_index = 0,
                     !.recv_epoch = e,
                     !.dh_remote = m.dh_public_key,
                     !.send_ratchet_pending = yes]
  BY Zenon, <1>k, <1>l DEF Sessions
<1> HIDE DEF t
<1>12. c \in Sessions
  BY <1>0, <1>2, <1>k, <1>4, <1>e, <1>5, <1>7, <1>10, <1>11, ZenonT(30) DEF Sessions
<1>13. /\ c.skipped_message_keys = kept /\ c.cached_metadata_keys = meta
       /\ c.root_key = root /\ c.recv_chain = root /\ c.dh_remote = m.dh_public_key
       /\ c.recv_index = 0 /\ c.recv_epoch = e
  BY <1>k, <1>10 DEF Sessions
<1>14. c = [s EXCEPT !.skipped_message_keys = c.skipped_message_keys,
                     !.cached_metadata_keys = c.cached_metadata_keys,
                     !.root_key = c.root_key,
                     !.recv_chain = c.recv_chain,
                     !.recv_index = 0,
                     !.recv_epoch = e,
                     !.dh_remote = c.dh_remote,
                     !.send_ratchet_pending = yes]
  <2>1. PICK a, b : k = [s EXCEPT !.skipped_message_keys = a, !.recv_index = b]
    BY Zenon, <1>3
  <2>2. c = [s EXCEPT !.skipped_message_keys = kept,
                      !.cached_metadata_keys = meta,
                      !.root_key = root,
                      !.recv_chain = root,
                      !.recv_index = 0,
                      !.recv_epoch = e,
                      !.dh_remote = m.dh_public_key,
                      !.send_ratchet_pending = yes]
    BY Zenon, <1>10, <2>1 DEF Sessions
  <2> QED BY <1>13, <2>2
<1>15. ASSUME NEW ids \in SUBSET MessageIds, Consistent(s, ids)
       PROVE  Consistent(c, ids)
  <2>1. Consistent(k, ids)
    BY <1>3, <1>15
  <2>2. \A id \in ids \cup k.skipped_message_keys : Passed(c, id)
    BY <2>1, <1>4, <1>e, <1>13 DEF Consistent, Passed, MessageIds
  <2> QED BY <2>1, <2>2, <1>11, <1>13 DEF Consistent
<1> QED BY <1>6, <1>e, <1>12, <1>13, <1>14, <1>15 DEF c, yes

\* The state an envelope is opened in is the receiver's own, or its next epoch.
LEMMA CandidateFacts ==
  ASSUME NEW s \in Sessions, NEW m \in Envelopes
  PROVE  LET c == candidate(s, m)
         IN  /\ c \in Sessions
             /\ c.seen_payload_nonces = s.seen_payload_nonces
             /\ c.destroyed = s.destroyed
             /\ c.send_chain = s.send_chain
             /\ c.send_index = s.send_index
             /\ c.send_epoch = s.send_epoch
             /\ c.nonce = s.nonce
             /\ c.total_sent = s.total_sent
             /\ c.total_received = s.total_received
             /\ m.ratchet =>
                  /\ c.recv_epoch = s.recv_epoch + 1
                  /\ c.recv_index = 0
                  /\ c.cached_metadata_keys \subseteq
                       s.cached_metadata_keys \cup {<<s.recv_epoch, s.recv_chain>>}
             /\ ~m.ratchet => c = s
             /\ \A ids \in SUBSET MessageIds : Consistent(s, ids) => Consistent(c, ids)
<1> DEFINE c == apply_recv_ratchet(s, m)
           e == s.recv_epoch + 1
           yes == TRUE
<1>1. CASE m.ratchet
  <2>1. candidate(s, m) = c
    BY <1>1 DEF candidate
  <2>2. /\ c \in Sessions
        /\ c.cached_metadata_keys \subseteq
             s.cached_metadata_keys \cup {<<s.recv_epoch, s.recv_chain>>}
        /\ \A ids \in SUBSET MessageIds : Consistent(s, ids) => Consistent(c, ids)
    BY Zenon, ApplyFacts
  <2>3. c = [s EXCEPT !.skipped_message_keys = c.skipped_message_keys,
                      !.cached_metadata_keys = c.cached_metadata_keys,
                      !.root_key = c.root_key,
                      !.recv_chain = c.recv_chain,
                      !.recv_index = 0,
                      !.recv_epoch = e,
                      !.dh_remote = c.dh_remote,
                      !.send_ratchet_pending = yes]
    BY Zenon, ApplyFacts
  <2> HIDE DEF c, e, yes
  <2>4. /\ c.seen_payload_nonces = s.seen_payload_nonces
        /\ c.destroyed = s.destroyed
        /\ c.send_chain = s.send_chain
        /\ c.send_index = s.send_index
        /\ c.send_epoch = s.send_epoch
        /\ c.nonce = s.nonce
        /\ c.total_sent = s.total_sent
        /\ c.total_received = s.total_received
        /\ c.recv_epoch = e
        /\ c.recv_index = 0
    BY <2>3, ZenonT(30) DEF Sessions
  <2> QED BY Zenon, <1>1, <2>1, <2>2, <2>4 DEF e
<1>2. CASE ~m.ratchet
  BY Zenon, <1>2 DEF candidate
<1> QED BY Zenon, <1>1, <1>2

\* Taking a message key keeps the record's shape and touches only the skipped
\* keys and the receiving chain.
LEMMA GetKeyType ==
  ASSUME NEW c \in Sessions, NEW m \in Envelopes
  PROVE  LET t == get_recv_message_key(c, m)
         IN  /\ t \in Sessions
             /\ \E keys, i : t = [c EXCEPT !.skipped_message_keys = keys, !.recv_index = i]
<1> DEFINE t    == get_recv_message_key(c, m)
           gap  == {c.recv_epoch} \X (c.recv_index .. m.message_index - 1)
           kept == reserve_skipped_capacity(c, m.message_index - c.recv_index)
           keys == kept \cup gap
           i    == m.message_index + 1
           rest == c.skipped_message_keys \ {MessageId(m)}
<1>1. /\ c.recv_epoch \in Nat /\ c.recv_index \in Nat
      /\ c.skipped_message_keys \subseteq MessageIds
  BY DEF Sessions
<1>2. m.message_index \in Nat
  BY DEF Envelopes
<1>3. i \in Nat
  BY <1>2
<1>4. keys \in SUBSET MessageIds
  <2>1. kept \subseteq c.skipped_message_keys
    BY EvictionRemoves
  <2>2. gap \subseteq MessageIds
    BY <1>1, <1>2 DEF MessageIds
  <2> QED BY <1>1, <2>1, <2>2
<1>5. rest \in SUBSET MessageIds
  BY <1>1
<1>6. CASE from_skipped(c, m)
  <2>1. t = [c EXCEPT !.skipped_message_keys = rest]
    BY <1>6, Zenon DEF get_recv_message_key
  <2> HIDE DEF t, rest
  <2>2. t \in Sessions
    BY Zenon, <1>5, <2>1 DEF Sessions
  <2>3. t = [c EXCEPT !.skipped_message_keys = rest, !.recv_index = c.recv_index]
    BY Zenon, <2>1 DEF Sessions
  <2> QED BY Zenon, <2>2, <2>3 DEF t
<1>7. CASE ~from_skipped(c, m)
  <2>1. t = [c EXCEPT !.skipped_message_keys = keys, !.recv_index = i]
    BY <1>7, Zenon DEF get_recv_message_key
  <2> HIDE DEF t, keys, i
  <2>2. t \in Sessions
    BY Zenon, <1>3, <1>4, <2>1 DEF Sessions
  <2> QED BY Zenon, <2>1, <2>2 DEF t
<1> QED BY Zenon, <1>6, <1>7

\* A message whose key is available was not accepted before, and once its key
\* is taken it is behind the chain with no key left.
LEMMA GetKeyFresh ==
  ASSUME NEW c \in Sessions, NEW m \in Envelopes, NEW ids \in SUBSET MessageIds,
         m.ratchet_epoch <= c.recv_epoch,
         message_key_available(c, m),
         Consistent(c, ids)
  PROVE  /\ MessageId(m) \notin ids
         /\ Consistent(get_recv_message_key(c, m), ids \cup {MessageId(m)})
<1> DEFINE t    == get_recv_message_key(c, m)
           id0  == MessageId(m)
           gap  == {c.recv_epoch} \X (c.recv_index .. m.message_index - 1)
           kept == reserve_skipped_capacity(c, m.message_index - c.recv_index)
           keys == kept \cup gap
           i    == m.message_index + 1
           rest == c.skipped_message_keys \ {id0}
<1>1. /\ c.recv_epoch \in Nat /\ c.recv_index \in Nat
      /\ c.skipped_message_keys \subseteq MessageIds
  BY DEF Sessions
<1>2. /\ m.message_index \in Nat /\ m.ratchet_epoch \in Nat
      /\ id0 = <<m.ratchet_epoch, m.message_index>>
  BY DEF Envelopes, MessageId
<1>3. CASE from_skipped(c, m)
  <2>1. t = [c EXCEPT !.skipped_message_keys = rest]
    BY <1>3, Zenon DEF get_recv_message_key
  <2>2. id0 \in c.skipped_message_keys
    BY <1>3 DEF message_key_available
  <2> HIDE DEF t, rest, id0
  <2>3. /\ t.skipped_message_keys = rest
        /\ t.recv_epoch = c.recv_epoch /\ t.recv_index = c.recv_index
    BY <2>1 DEF Sessions
  <2>4. \A id : Passed(t, id) <=> Passed(c, id)
    BY <2>3 DEF Passed
  <2>5. /\ id0 \notin ids
        /\ Consistent(t, ids \cup {id0})
    BY <2>2, <2>3, <2>4 DEF Consistent, rest
  <2> QED BY <2>5 DEF t, id0
<1>4. CASE ~from_skipped(c, m)
  <2>1. t = [c EXCEPT !.skipped_message_keys = keys, !.recv_index = i]
    BY <1>4, Zenon DEF get_recv_message_key
  <2>2. kept \subseteq c.skipped_message_keys
    BY EvictionRemoves
  <2>3. m.ratchet_epoch = c.recv_epoch /\ m.message_index >= c.recv_index
    BY <1>1, <1>2, <1>4 DEF from_skipped, is_old_epoch
  <2> HIDE DEF t, kept
  <2>4. /\ t.skipped_message_keys = keys
        /\ t.recv_epoch = c.recv_epoch /\ t.recv_index = i
    <3> HIDE DEF keys, i
    <3> QED BY <2>1 DEF Sessions
  <2>5. ~Passed(c, id0) /\ Passed(t, id0)
    BY <1>1, <1>2, <2>3, <2>4 DEF Passed
  <2>6. \A id \in gap : ~Passed(c, id) /\ Passed(t, id) /\ id # id0
    BY <1>1, <1>2, <2>3, <2>4 DEF Passed
  <2>7. \A id \in ids \cup c.skipped_message_keys : Passed(c, id) /\ Passed(t, id)
    BY <1>1, <1>2, <2>3, <2>4 DEF Passed, Consistent, MessageIds
  <2>8. ids \cap c.skipped_message_keys = {}
    BY DEF Consistent
  <2> HIDE DEF gap, id0, i
  <2>9. id0 \notin ids
    BY <2>5, <2>7
  <2>10. \A id \in (ids \cup {id0}) \cup t.skipped_message_keys : Passed(t, id)
    BY <2>2, <2>4, <2>5, <2>6, <2>7
  <2>11. (ids \cup {id0}) \cap t.skipped_message_keys = {}
    BY <2>2, <2>4, <2>5, <2>6, <2>7, <2>8
  <2>12. Consistent(t, ids \cup {id0})
    BY <2>10, <2>11 DEF Consistent
  <2> QED BY <2>9, <2>12 DEF t, id0
<1> QED BY <1>3, <1>4

\* A ratchet that is rolled back leaves the session as it was.
LEMMA RollbackRestores ==
  ASSUME NEW s \in Sessions, NEW t, t.seen_payload_nonces = s.seen_payload_nonces
  PROVE  rollback_ratchet(s, t) = s
BY DEF rollback_ratchet, Sessions

\* Rejecting an envelope before its payload leaves the session as it was.
LEMMA RejectBeforeFacts ==
  ASSUME NEW s \in Sessions, NEW m \in Envelopes
  PROVE  reject_before_payload(s, m) = s
<1>1. candidate(s, m).seen_payload_nonces = s.seen_payload_nonces
  BY Zenon, CandidateFacts
<1>2. rollback_ratchet(s, candidate(s, m)) = s
  BY <1>1, RollbackRestores
<1> QED BY <1>2 DEF reject_before_payload

\* A damaged payload costs at most skipped keys that were evicted on the way.
LEMMA RejectPayloadFacts ==
  ASSUME NEW s \in Sessions, NEW m \in Envelopes, key_obtained(s, m)
  PROVE  \E keys \in SUBSET s.skipped_message_keys :
           reject_payload(s, m) = [s EXCEPT !.skipped_message_keys = keys]
<1> DEFINE c == candidate(s, m)
           t == get_recv_message_key(c, m)
<1>1. c \in Sessions /\ c.seen_payload_nonces = s.seen_payload_nonces
  BY Zenon, CandidateFacts
<1>2. CASE m.ratchet
  <2>1. PICK keys, i : t = [c EXCEPT !.skipped_message_keys = keys, !.recv_index = i]
    BY Zenon, <1>1, GetKeyType
  <2>2. reject_payload(s, m) = rollback_ratchet(s, t)
    BY <1>2 DEF reject_payload
  <2> HIDE DEF c, t
  <2>3. t.seen_payload_nonces = s.seen_payload_nonces
    BY <1>1, <2>1 DEF Sessions
  <2>4. rollback_ratchet(s, t) = s
    BY <2>3, RollbackRestores
  <2>5. s = [s EXCEPT !.skipped_message_keys = s.skipped_message_keys]
    BY DEF Sessions
  <2> QED BY <2>2, <2>4, <2>5
<1>3. CASE ~m.ratchet /\ from_skipped(s, m)
  <2>1. c = s
    BY <1>3 DEF candidate
  <2> DEFINE rest == s.skipped_message_keys \ {MessageId(m)}
             back == t.skipped_message_keys \cup {MessageId(m)}
  <2>2. t = [s EXCEPT !.skipped_message_keys = rest]
    BY <1>3, <2>1, Zenon DEF get_recv_message_key
  <2>3. MessageId(m) \in s.skipped_message_keys
    BY <1>3, <2>1 DEF key_obtained, message_key_available
  <2>4. reject_payload(s, m) = [t EXCEPT !.skipped_message_keys = back]
    BY <1>3, Zenon DEF reject_payload
  <2>5. t.skipped_message_keys = rest
    <3> HIDE DEF rest, t
    <3> QED BY <2>2 DEF Sessions
  <2>6. back = s.skipped_message_keys
    <3> HIDE DEF t
    <3> QED BY <2>3, <2>5
  <2> HIDE DEF t, rest, back
  <2>7. [t EXCEPT !.skipped_message_keys = back] = [s EXCEPT !.skipped_message_keys = back]
    BY Zenon, <2>2 DEF Sessions
  <2> QED BY Zenon, <2>4, <2>6, <2>7
<1>4. CASE ~m.ratchet /\ ~from_skipped(s, m)
  <2>1. c = s
    BY <1>4 DEF candidate
  <2> DEFINE gap  == {s.recv_epoch} \X (s.recv_index .. m.message_index - 1)
             kept == reserve_skipped_capacity(s, m.message_index - s.recv_index)
             keys == kept \cup gap
             i    == m.message_index + 1
             back == t.skipped_message_keys \ gap
  <2>2. t = [s EXCEPT !.skipped_message_keys = keys, !.recv_index = i]
    BY <1>4, <2>1, Zenon DEF get_recv_message_key
  <2>3. reject_payload(s, m) = [t EXCEPT !.skipped_message_keys = back,
                                         !.recv_index = s.recv_index]
    BY <1>4, Zenon DEF reject_payload
  <2>4. kept \subseteq s.skipped_message_keys
    BY EvictionRemoves
  <2> HIDE DEF gap, kept
  <2>5. t.skipped_message_keys = keys
    <3> HIDE DEF keys, t, i
    <3> QED BY <2>2 DEF Sessions
  <2>6. back \subseteq s.skipped_message_keys
    <3> HIDE DEF t
    <3> QED BY <2>4, <2>5
  <2> HIDE DEF t, keys, i, back
  <2>7. [t EXCEPT !.skipped_message_keys = back, !.recv_index = s.recv_index]
          = [s EXCEPT !.skipped_message_keys = back]
    BY Zenon, <2>2 DEF Sessions
  <2> QED BY Zenon, <2>3, <2>6, <2>7
<1> QED BY <1>2, <1>3, <1>4

\* After maybe_rotate_send_ratchet the sending chain has room for a message:
\* it is the old chain, or a new one of the next epoch.
LEMMA RotateFacts ==
  ASSUME NEW p \in Peers, NEW s \in Sessions, SenderOK(p, s)
  PROVE  LET k == <<p, s.send_epoch + 1>>
             r == maybe_rotate_send_ratchet(s, k)
         IN  /\ r \in Sessions
             /\ SameReceiver(r, s)
             /\ SenderOK(p, r)
             /\ r.send_index < MaxMessagesPerChain
             /\ \/ r = s
                \/ r.send_epoch = s.send_epoch + 1 /\ r.send_index = 0
<1> DEFINE e    == s.send_epoch + 1
           k    == <<p, e>>
           r    == maybe_rotate_send_ratchet(s, k)
           root == Kdf(s.root_key, k, s.dh_remote)
           no   == FALSE
           nc   == [prefix |-> k, counter |-> 0]
<1>1. /\ s.send_epoch \in Nat /\ s.send_index \in Nat
      /\ s.root_key \in Secrets /\ s.dh_remote \in Keys
  BY DEF Sessions
<1>2. e \in Nat /\ k \in Keys
  BY <1>1 DEF Keys
<1>3. CASE send_ratchet_rotation_needed(s)
  <2>1. r = [s EXCEPT !.root_key = root, !.send_chain = root, !.send_index = 0,
                      !.send_epoch = e, !.dh_local = k,
                      !.send_ratchet_pending = no, !.nonce = nc]
    BY <1>3, Zenon DEF maybe_rotate_send_ratchet, rotate_send_ratchet
  <2>2. root \in Secrets /\ root # << >> /\ root[Len(root)].new = k
    BY Zenon, <1>1, <1>2, KdfFacts
  <2>3. no \in BOOLEAN /\ nc \in [prefix : Keys, counter : Nat]
    BY <1>2
  <2>4. e # 0
    BY <1>1
  <2> HIDE DEF r, root, no, nc, e, k
  <2>5. r \in Sessions
    BY Zenon, <1>2, <2>1, <2>2, <2>3 DEF Sessions
  <2>6. /\ r.send_epoch = e /\ r.send_index = 0 /\ r.send_chain = root /\ r.nonce = nc
    BY <2>1 DEF Sessions
  <2>7. SenderOK(p, r)
    BY <2>2, <2>4, <2>6, LimitsAssumption DEF SenderOK, Tagged, nc, k
  <2>8. r.send_index < MaxMessagesPerChain
    BY <2>6, LimitsAssumption
  <2>9. SameReceiver(r, s)
    BY <2>1 DEF Sessions, SameReceiver
  <2> QED BY Zenon, <2>5, <2>6, <2>7, <2>8, <2>9 DEF r, k, e
<1>4. CASE ~send_ratchet_rotation_needed(s)
  <2>1. r = s
    BY <1>4 DEF maybe_rotate_send_ratchet
  <2>2. s.send_index < MaxMessagesPerChain
    BY <1>1, <1>4, LimitsAssumption DEF send_ratchet_rotation_needed
  <2>3. SameReceiver(s, s)
    BY DEF SameReceiver
  <2> HIDE DEF r
  <2> QED BY <2>1, <2>2, <2>3 DEF r
<1> QED BY Zenon, <1>3, <1>4

\* A failed encrypt call is rolled back to the state it started from.
LEMMA EncryptRollback ==
  ASSUME NEW p \in Peers, NEW s \in Sessions, SenderOK(p, s)
  PROVE  rollback_send_encrypt_state(s,
           take_send_key(maybe_rotate_send_ratchet(s, <<p, s.send_epoch + 1>>))) = s
<1> DEFINE r == maybe_rotate_send_ratchet(s, <<p, s.send_epoch + 1>>)
           t == take_send_key(r)
           i == r.send_index + 1
           nc == [r.nonce EXCEPT !.counter = @ + 1]
<1>1. t = [r EXCEPT !.send_index = i, !.nonce = nc]
  BY Zenon DEF take_send_key
<1>2. r \in Sessions
  BY Zenon, RotateFacts
<1>3. SameReceiver(r, s)
  BY Zenon, RotateFacts
<1>4. ~send_ratchet_rotation_needed(s) => r = s
  BY DEF maybe_rotate_send_ratchet
<1> HIDE DEF i, nc, t, r
<1>5. /\ t.skipped_message_keys = s.skipped_message_keys
      /\ t.cached_metadata_keys = s.cached_metadata_keys
      /\ t.seen_payload_nonces = s.seen_payload_nonces
  BY <1>1, <1>2, <1>3 DEF Sessions, SameReceiver
<1>6. CASE send_ratchet_rotation_needed(s)
  <2>1. rollback_send_encrypt_state(s, t) =
          [s EXCEPT !.skipped_message_keys = s.skipped_message_keys,
                    !.cached_metadata_keys = s.cached_metadata_keys,
                    !.seen_payload_nonces  = s.seen_payload_nonces]
    BY <1>5, <1>6 DEF rollback_send_encrypt_state
  <2>2. rollback_send_encrypt_state(s, t) = s
    BY Zenon, <2>1 DEF Sessions
  <2> QED BY <2>2 DEF t, r
<1>7. CASE ~send_ratchet_rotation_needed(s)
  <2>1. t = [s EXCEPT !.send_index = i, !.nonce = nc]
    BY <1>1, <1>4, <1>7
  <2>2. rollback_send_encrypt_state(s, t) =
          [t EXCEPT !.send_chain = s.send_chain, !.send_index = s.send_index,
                    !.nonce = s.nonce]
    BY <1>7 DEF rollback_send_encrypt_state
  <2>3. rollback_send_encrypt_state(s, t) = s
    BY Zenon, <2>1, <2>2 DEF Sessions
  <2> QED BY <2>3 DEF t, r
<1> QED BY <1>6, <1>7

-----------------------------------------------------------------------------
(* The inductive invariant.                                                *)

\* A fresh session satisfies the invariant.
LEMMA InitIInv == Init => IInv
<1> SUFFICES ASSUME Init PROVE IInv
  OBVIOUS
<1> DEFINE no == FALSE
<1>1. ASSUME NEW p \in Peers
      PROVE  NewSession(p) \in Sessions
  <2>1. <<p, 0>> \in Keys /\ <<Peer(p), 0>> \in Keys
    BY PeerFacts DEF Keys
  <2>2. << >> \in Secrets /\ << >> \in Seq(Nonces)
    BY DEF Secrets
  <2>3. /\ {} \in SUBSET MessageIds /\ {} \in SUBSET (Nat \X Secrets)
        /\ 0 \in Nat /\ no \in BOOLEAN
    OBVIOUS
  <2>4. [prefix |-> <<p, 0>>, counter |-> 0] \in [prefix : Keys, counter : Nat]
    BY <2>1
  <2> QED BY <2>1, <2>2, <2>3, <2>4, Zenon DEF NewSession, Sessions, Nonces
<1>2. TypeOK
  BY <1>1 DEF Init, TypeOK
<1>3. \A p \in Peers : session[p] = NewSession(p) /\ accepted[p] = {}
  BY DEF Init
<1>s. ASSUME NEW p \in Peers
      PROVE  /\ session[p].send_chain = << >> /\ session[p].recv_chain = << >>
             /\ session[p].send_index = 0 /\ session[p].send_epoch = 0
             /\ session[p].recv_epoch = 0 /\ session[p].total_received = 0
             /\ session[p].nonce = [prefix |-> <<p, 0>>, counter |-> 0]
             /\ session[p].skipped_message_keys = {}
             /\ session[p].cached_metadata_keys = {}
  <2>1. session[p] = NewSession(p)
    BY <1>3
  <2>2. NewSession(p).send_chain = << >> /\ NewSession(p).recv_chain = << >>
    BY Zenon DEF NewSession
  <2>3. /\ NewSession(p).send_index = 0 /\ NewSession(p).send_epoch = 0
        /\ NewSession(p).recv_epoch = 0 /\ NewSession(p).total_received = 0
    BY Zenon DEF NewSession
  <2>4. NewSession(p).nonce = [prefix |-> <<p, 0>>, counter |-> 0]
    BY Zenon DEF NewSession
  <2>5. /\ NewSession(p).skipped_message_keys = {}
        /\ NewSession(p).cached_metadata_keys = {}
    BY Zenon DEF NewSession
  <2> QED BY <2>1, <2>2, <2>3, <2>4, <2>5
<1>4. ReceiverInv
  BY Zenon, <1>3, <1>s, FS_EmptySet DEF ReceiverInv, Consistent
<1>5. AtMostOnce
  BY Zenon, <1>3, <1>s, FS_EmptySet DEF AtMostOnce
<1>6. SenderInv
  <2> SUFFICES ASSUME NEW p \in Peers PROVE SenderOK(p, session[p])
    BY DEF SenderInv
  <2>1. session[p].send_epoch = 0 /\ session[p].send_index = 0
    BY Zenon, <1>s
  <2>2. session[p].nonce = [prefix |-> <<p, 0>>, counter |-> 0]
    BY Zenon, <1>s
  <2>3. Tagged(p, 0, session[p].send_chain)
    BY Zenon, <1>s DEF Tagged
  <2> QED BY <2>1, <2>2, <2>3, LimitsAssumption DEF SenderOK
<1>7. NetworkInv
  BY DEF Init, NetworkInv
<1>8. AgreementInv
  <2> SUFFICES ASSUME NEW p \in Peers PROVE InStep(session[p], session[Peer(p)])
    BY DEF AgreementInv
  <2>1. Peer(p) \in Peers
    BY PeerFacts
  <2>2. /\ session[p].recv_epoch = 0 /\ session[Peer(p)].send_epoch = 0
        /\ session[p].recv_chain = session[Peer(p)].send_chain
        /\ session[p].cached_metadata_keys = {}
    BY Zenon, <1>s, <2>1
  <2> QED BY <2>2 DEF InStep
<1>9. KeysAgree
  BY DEF Init, KeysAgree
<1> QED BY <1>2, <1>4, <1>5, <1>6, <1>7, <1>8, <1>9 DEF IInv

\* A step that only drops cached keys of one endpoint, forgets seen nonces or
\* marks it destroyed keeps the invariant.
LEMMA ForgetStep ==
  ASSUME IInv, NEW p \in Peers, NEW t \in Sessions,
         session' = [session EXCEPT ![p] = t],
         UNCHANGED <<network, accepted>>,
         t.send_chain = session[p].send_chain,
         t.send_index = session[p].send_index,
         t.send_epoch = session[p].send_epoch,
         t.nonce = session[p].nonce,
         t.recv_chain = session[p].recv_chain,
         t.recv_index = session[p].recv_index,
         t.recv_epoch = session[p].recv_epoch,
         t.total_received = session[p].total_received,
         t.skipped_message_keys \subseteq session[p].skipped_message_keys,
         t.cached_metadata_keys \subseteq session[p].cached_metadata_keys
  PROVE  IInv'
<1>1. TypeOK
  BY Zenon DEF IInv
<1>2. /\ session'[p] = t
      /\ \A q \in Peers : q # p => session'[q] = session[q]
      /\ network' = network /\ accepted' = accepted
  BY Zenon, <1>1 DEF TypeOK
<1>3. TypeOK'
  BY Zenon, <1>1 DEF TypeOK
<1>4. \A id : Passed(t, id) <=> Passed(session[p], id)
  BY Zenon DEF Passed
<1>5. ReceiverInv'
  BY <1>2, <1>4 DEF IInv, ReceiverInv, Consistent
<1>6. AtMostOnce'
  BY <1>2 DEF IInv, AtMostOnce
<1>7. SenderInv'
  BY <1>2 DEF IInv, SenderInv, SenderOK
<1>8. NetworkInv'
  <2>1. \A m \in network : m.from \in Peers
    BY Zenon, <1>1 DEF TypeOK, Envelopes
  <2>2. ASSUME NEW m \in network
        PROVE  EnvelopeOK(m, session'[m.from])
    <3>1. EnvelopeOK(m, session[m.from])
      BY Zenon DEF IInv, NetworkInv
    <3>2. CASE m.from = p
      BY <1>2, <3>1, <3>2 DEF EnvelopeOK
    <3>3. CASE m.from # p
      BY Zenon, <1>2, <2>1, <3>1, <3>3
    <3> QED BY Zenon, <3>2, <3>3
  <2> QED BY Zenon, <1>2, <2>2 DEF IInv, NetworkInv
<1>9. AgreementInv'
  BY <1>2, PeerFacts DEF IInv, AgreementInv, InStep
<1>10. KeysAgree'
  BY <1>2, PeerFacts DEF IInv, KeysAgree
<1> QED BY <1>3, <1>5, <1>6, <1>7, <1>8, <1>9, <1>10 DEF IInv

\* encrypt keeps the invariant: the envelope it publishes is the next one of
\* the sender's current chain.
LEMMA EncryptStep ==
  ASSUME IInv, NEW p \in Peers, encrypt(p)
  PROVE  /\ IInv'
         /\ session'[p].total_sent = session[p].total_sent + 1
         /\ session'[p].total_received = session[p].total_received
         /\ \A q \in Peers : q # p => session'[q] = session[q]
         /\ accepted' = accepted
         /\ \E m : /\ network' = network \cup {m}
                   /\ m.from = p
                   /\ \A o \in network : o.from = p => MessageId(o) # MessageId(m)
<1> DEFINE s  == session[p]
           k  == <<p, s.send_epoch + 1>>
           r  == maybe_rotate_send_ratchet(s, k)
           i  == r.send_index + 1
           nc == [r.nonce EXCEPT !.counter = @ + 1]
           n  == r.total_sent + 1
           t  == [r EXCEPT !.send_index = i, !.nonce = nc, !.total_sent = n]
           m0 == Envelope(p, s, r)
<1>1. TypeOK /\ s \in Sessions /\ SenderOK(p, s)
  BY DEF IInv, TypeOK, SenderInv
<1>2. FreshKey(p) = k
  BY DEF FreshKey
<1>3. /\ r \in Sessions /\ SenderOK(p, r) /\ SameReceiver(r, s)
      /\ r.send_index < MaxMessagesPerChain
      /\ r = s \/ (r.send_epoch = s.send_epoch + 1 /\ r.send_index = 0)
  BY Zenon, <1>1, RotateFacts
<1>4. [take_send_key(r) EXCEPT !.total_sent = @ + 1] = t
  <2>1. take_send_key(r) = [r EXCEPT !.send_index = i, !.nonce = nc]
    BY Zenon DEF take_send_key
  <2>2. take_send_key(r).total_sent = r.total_sent
    <3> HIDE DEF r, i, nc
    <3> QED BY <1>3, <2>1 DEF Sessions
  <2> HIDE DEF r, i, nc
  <2> QED BY <1>3, <2>1, <2>2 DEF Sessions
<1>5. /\ session' = [session EXCEPT ![p] = t]
      /\ network' = network \cup {m0}
      /\ accepted' = accepted
  BY Zenon, <1>2, <1>4 DEF encrypt
<1>6. /\ r.send_index \in Nat /\ r.send_epoch \in Nat /\ r.send_chain \in Secrets
      /\ r.nonce \in [prefix : Keys, counter : Nat] /\ r.total_sent \in Nat
      /\ r.dh_local \in Keys
      /\ s.send_index \in Nat /\ s.send_epoch \in Nat
  BY Zenon, <1>1, <1>3 DEF Sessions
<1>7. i \in Nat /\ n \in Nat /\ nc \in [prefix : Keys, counter : Nat]
  BY <1>6
<1>8. nc = [prefix |-> <<p, r.send_epoch>>, counter |-> i]
  <2>1. r.nonce = [prefix |-> <<p, r.send_epoch>>, counter |-> r.send_index]
    BY Zenon, <1>3 DEF SenderOK
  <2> HIDE DEF r
  <2> QED BY <2>1
<1>9. /\ m0.from = p /\ m0.ratchet_epoch = r.send_epoch /\ m0.chain = r.send_chain
      /\ m0.message_index = r.send_index
      /\ m0.payload_nonce = [prefix  |-> r.nonce.prefix,
                             counter |-> r.nonce.counter, index |-> r.send_index]
  <2> HIDE DEF r
  <2> QED BY Zenon DEF Envelope
<1>10. m0 \in Envelopes
  <2> DEFINE b == send_ratchet_rotation_needed(s)
             l == IF b THEN s.send_index ELSE 0
             w == [prefix |-> r.nonce.prefix, counter |-> r.nonce.counter,
                   index |-> r.send_index]
  <2>1. b \in BOOLEAN
    BY <1>1 DEF send_ratchet_rotation_needed, Sessions
  <2>2. l \in Nat
    BY Zenon, <1>6
  <2>3. w \in Nonces
    <3> HIDE DEF r
    <3> QED BY Zenon, <1>6 DEF Nonces
  <2>4. m0 = [from |-> p, ratchet |-> b, ratchet_epoch |-> r.send_epoch,
              dh_public_key |-> r.dh_local, previous_chain_length |-> l,
              chain |-> r.send_chain, message_index |-> r.send_index,
              payload_nonce |-> w]
    <3> HIDE DEF r
    <3> QED BY Zenon DEF Envelope
  <2> HIDE DEF b, l, w, r, m0
  <2> QED BY <1>6, <2>1, <2>2, <2>3, <2>4, Zenon DEF Envelopes, Nonces
<1> HIDE DEF r, i, n, nc, m0, k
<1>11. t \in Sessions
  BY Zenon, <1>3, <1>7 DEF Sessions
<1>12. /\ t.send_index = i /\ t.nonce = nc /\ t.total_sent = n
       /\ t.send_epoch = r.send_epoch /\ t.send_chain = r.send_chain
       /\ t.recv_chain = s.recv_chain /\ t.recv_index = s.recv_index
       /\ t.recv_epoch = s.recv_epoch
       /\ t.skipped_message_keys = s.skipped_message_keys
       /\ t.cached_metadata_keys = s.cached_metadata_keys
       /\ t.total_received = s.total_received
  BY Zenon, <1>3 DEF Sessions, SameReceiver
<1> HIDE DEF t
<1>13. /\ session'[p] = t
       /\ \A q \in Peers : q # p => session'[q] = session[q]
  BY <1>1, <1>5 DEF TypeOK
<1>14. TypeOK'
  BY <1>1, <1>5, <1>10, <1>11 DEF TypeOK
<1>15. ReceiverInv'
  <2>1. \A id : Passed(t, id) <=> Passed(s, id)
    BY Zenon, <1>12 DEF Passed
  <2> QED BY <1>5, <1>12, <1>13, <2>1 DEF IInv, ReceiverInv, Consistent
<1>16. AtMostOnce'
  BY <1>5, <1>12, <1>13 DEF IInv, AtMostOnce
<1>17. SenderInv'
  <2>1. SenderOK(p, t)
    BY <1>3, <1>6, <1>8, <1>12, LimitsAssumption, SMTT(30) DEF SenderOK, i
  <2> QED BY <1>13, <2>1 DEF IInv, SenderInv
<1>18. \A m \in network : m.from = p =>
         \/ m.ratchet_epoch < r.send_epoch
         \/ /\ m.ratchet_epoch = r.send_epoch
            /\ m.message_index < r.send_index
            /\ m.chain = r.send_chain
  <2> SUFFICES ASSUME NEW m \in network, m.from = p
               PROVE  \/ m.ratchet_epoch < r.send_epoch
                      \/ /\ m.ratchet_epoch = r.send_epoch
                         /\ m.message_index < r.send_index
                         /\ m.chain = r.send_chain
    OBVIOUS
  <2>1. m.ratchet_epoch \in Nat
    BY <1>1 DEF TypeOK, Envelopes
  <2>2. \/ m.ratchet_epoch < s.send_epoch
        \/ /\ m.ratchet_epoch = s.send_epoch
           /\ m.message_index < s.send_index
           /\ m.chain = s.send_chain
    BY Zenon DEF IInv, NetworkInv, EnvelopeOK
  <2> HIDE DEF s
  <2>3. CASE r = s
    BY <2>2, <2>3
  <2>4. CASE r.send_epoch = s.send_epoch + 1
    BY <1>6, <2>1, <2>2, <2>4
  <2> QED BY <1>3, <2>3, <2>4
<1>19. NetworkInv'
  <2>1. \A m \in network : m.message_index \in Nat /\ m.from \in Peers
    BY <1>1 DEF TypeOK, Envelopes
  <2>2. ASSUME NEW m \in network
        PROVE  EnvelopeOK(m, session'[m.from])
    <3>1. EnvelopeOK(m, session[m.from])
      BY DEF IInv, NetworkInv
    <3>2. CASE m.from = p
      <4>1. m.ratchet_epoch = r.send_epoch => m.message_index < i
        BY <1>6, <1>18, <2>1, <3>2 DEF i
      <4> QED BY Zenon, <1>12, <1>13, <1>18, <3>1, <3>2, <4>1 DEF EnvelopeOK
    <3>3. CASE m.from # p
      BY <1>13, <2>1, <3>1, <3>3
    <3> QED BY <3>2, <3>3
  <2>3. EnvelopeOK(m0, t)
    <3>1. m0.payload_nonce = [prefix  |-> <<p, r.send_epoch>>,
                              counter |-> r.send_index, index |-> r.send_index]
      BY <1>3, <1>9 DEF SenderOK
    <3>2. Tagged(p, r.send_epoch, r.send_chain)
      BY Zenon, <1>3 DEF SenderOK
    <3>3. r.send_index < i
      BY <1>6 DEF i
    <3> QED BY Zenon, <1>9, <1>12, <3>1, <3>2, <3>3 DEF EnvelopeOK
  <2>4. \A m \in network' : EnvelopeOK(m, session'[m.from])
    BY <1>5, <1>9, <1>13, <2>2, <2>3
  <2>5. \A m \in network : (m.from = p /\ m.ratchet_epoch = r.send_epoch) =>
          m.chain = r.send_chain /\ m.message_index # r.send_index
    BY <1>6, <1>18, <2>1
  <2>6. ASSUME NEW m \in network', NEW o \in network',
               m.from = o.from, m.ratchet_epoch = o.ratchet_epoch
        PROVE  m.chain = o.chain /\ (m.message_index = o.message_index => m = o)
    <3>1. CASE m \in network /\ o \in network
      BY <2>6, <3>1 DEF IInv, NetworkInv
    <3>2. CASE m = m0 /\ o \in network
      BY <1>9, <2>5, <2>6, <3>2
    <3>3. CASE m \in network /\ o = m0
      BY <1>9, <2>5, <2>6, <3>3
    <3>4. CASE m = m0 /\ o = m0
      BY <3>4
    <3> QED BY <1>5, <3>1, <3>2, <3>3, <3>4
  <2> QED BY <2>4, <2>6 DEF NetworkInv
<1>20. AgreementInv'
  <2> SUFFICES ASSUME NEW q \in Peers
               PROVE  InStep(session'[q], session'[Peer(q)])
    BY DEF AgreementInv
  <2>1. InStep(session[q], session[Peer(q)])
    BY DEF IInv, AgreementInv
  <2>2. CASE q = p
    <3>1. session'[Peer(q)] = session[Peer(q)]
      BY <1>13, <2>2, PeerFacts
    <3> QED BY Zenon, <1>12, <1>13, <2>1, <2>2, <3>1 DEF InStep
  <2>3. CASE q # p
    <3>1. Peer(q) = p /\ session'[q] = session[q]
      BY <1>13, <2>3 DEF Peers, Peer
    <3>2. session[q].recv_epoch \in Nat
      BY Zenon, <1>1 DEF TypeOK, Sessions
    <3>3. session[q].recv_epoch <= s.send_epoch
      BY <2>1, <3>1 DEF InStep
    <3> QED BY <1>3, <1>6, <1>12, <1>13, <2>1, <3>1, <3>2, <3>3, SMTT(30) DEF InStep
  <2> QED BY <2>2, <2>3
<1>21. KeysAgree'
  <2> SUFFICES ASSUME NEW q \in Peers, NEW m \in network', m.from = Peer(q)
               PROVE  /\ m.ratchet_epoch = session'[q].recv_epoch
                           => m.chain = session'[q].recv_chain
                      /\ \A c \in session'[q].cached_metadata_keys :
                           m.ratchet_epoch = c[1] => m.chain = c[2]
    BY DEF KeysAgree
  <2>1. /\ session'[q].recv_epoch = session[q].recv_epoch
        /\ session'[q].recv_chain = session[q].recv_chain
        /\ session'[q].cached_metadata_keys = session[q].cached_metadata_keys
    BY Zenon, <1>12, <1>13
  <2>2. CASE m \in network
    BY <2>1, <2>2 DEF IInv, KeysAgree
  <2>3. CASE m = m0
    <3>1. Peer(q) = p
      BY <1>9, <2>3
    <3>2. InStep(session'[q], t)
      BY <1>13, <1>20, <3>1 DEF AgreementInv
    <3>3. /\ session[q].recv_epoch \in Nat
          /\ \A c \in session[q].cached_metadata_keys : c[1] \in Nat
      BY <1>1, SMTT(30) DEF TypeOK, Sessions
    <3> QED BY <1>6, <1>9, <1>12, <2>1, <2>3, <3>2, <3>3, SMTT(30) DEF InStep
  <2> QED BY Zenon, <1>5, <2>2, <2>3
<1>22. \A o \in network : o.from = p => MessageId(o) # MessageId(m0)
  <2>1. \A o \in network : o.message_index \in Nat
    BY <1>1 DEF TypeOK, Envelopes
  <2> QED BY <1>6, <1>9, <1>18, <2>1 DEF MessageId
<1>23. t.total_sent = s.total_sent + 1
  BY Zenon, <1>3, <1>12 DEF n, SameReceiver
<1>24. IInv'
  BY <1>14, <1>15, <1>16, <1>17, <1>19, <1>20, <1>21 DEF IInv
<1> QED BY Zenon, <1>5, <1>9, <1>12, <1>13, <1>22, <1>23, <1>24

\* decrypt keeps the invariant: what it accepts was not accepted before, and
\* the chain it moves to is the sender's.
LEMMA DecryptStep ==
  ASSUME IInv, NEW p \in Peers, NEW m \in network, decrypt(p, m)
  PROVE  /\ IInv'
         /\ MessageId(m) \notin accepted[p]
         /\ session'[p].total_received = session[p].total_received + 1
         /\ \A q \in Peers : q # p => session'[q] = session[q]
<1> DEFINE s    == session[p]
           c    == candidate(s, m)
           g    == get_recv_message_key(c, m)
           seen == remember_seen_payload_nonce(g.seen_payload_nonces, m.payload_nonce)
           yes  == TRUE
           n    == g.total_received + 1
           t    == [g EXCEPT !.seen_payload_nonces = seen,
                             !.send_ratchet_pending = yes,
                             !.total_received = n]
           id0  == MessageId(m)
           q    == Peer(p)
<1>1. TypeOK /\ s \in Sessions /\ m \in Envelopes /\ accepted[p] \in SUBSET MessageIds
  BY DEF IInv, TypeOK
<1>2. /\ session' = [session EXCEPT ![p] = t]
      /\ accepted' = [accepted EXCEPT ![p] = @ \cup {id0}]
      /\ network' = network
      /\ m.from = q
      /\ key_obtained(s, m)
  BY DEF decrypt
<1>3. /\ m.ratchet_epoch \in Nat /\ m.message_index \in Nat
      /\ m.payload_nonce \in Nonces /\ id0 \in MessageIds
  BY <1>1 DEF Envelopes, MessageId, MessageIds, Nonces
<1>4. /\ c \in Sessions
      /\ c.send_chain = s.send_chain /\ c.send_index = s.send_index
      /\ c.send_epoch = s.send_epoch /\ c.nonce = s.nonce
      /\ c.total_received = s.total_received
      /\ m.ratchet =>
           /\ c.recv_epoch = s.recv_epoch + 1
           /\ c.recv_index = 0
           /\ c.cached_metadata_keys \subseteq
                s.cached_metadata_keys \cup {<<s.recv_epoch, s.recv_chain>>}
      /\ ~m.ratchet => c = s
      /\ \A ids \in SUBSET MessageIds : Consistent(s, ids) => Consistent(c, ids)
  BY Zenon, <1>1, CandidateFacts
<1>5. admissible(s, m) /\ metadata_opens(c, m) /\ message_key_available(c, m)
  BY Zenon, <1>2 DEF key_obtained
<1>6. s.recv_epoch \in Nat /\ c.recv_epoch \in Nat
  BY Zenon, <1>1, <1>4 DEF Sessions
<1>7. /\ m.ratchet => m.ratchet_epoch = s.recv_epoch + 1
      /\ ~m.ratchet => m.ratchet_epoch <= s.recv_epoch
  BY Zenon, <1>5 DEF admissible
<1> HIDE DEF c
<1>8. m.ratchet_epoch <= c.recv_epoch
  BY <1>3, <1>4, <1>6, <1>7
<1>9. m.ratchet => c.recv_chain = m.chain
  BY <1>3, <1>4, <1>5, <1>6, <1>7, SMTT(30) DEF metadata_opens, is_old_epoch
<1>10. g \in Sessions
  BY Zenon, <1>1, <1>4, GetKeyType
<1>11. PICK keys, i : g = [c EXCEPT !.skipped_message_keys = keys, !.recv_index = i]
  BY Zenon, <1>1, <1>4, GetKeyType
<1>12. Consistent(c, accepted[p])
  <2>1. Consistent(s, accepted[p])
    BY DEF IInv, ReceiverInv
  <2> QED BY Zenon, <1>1, <1>4, <2>1
<1>13. id0 \notin accepted[p] /\ Consistent(g, accepted[p] \cup {id0})
  BY Zenon, <1>1, <1>4, <1>5, <1>8, <1>12, GetKeyFresh
<1> HIDE DEF g, id0
<1>14. g.seen_payload_nonces \in Seq(Nonces) /\ g.total_received \in Nat
  BY <1>10 DEF Sessions, Nonces
<1>15. seen \in Seq(Nonces) /\ yes \in BOOLEAN /\ n \in Nat
  BY <1>3, <1>14, SeenType
<1> HIDE DEF seen, yes, n
<1>16. t \in Sessions
  BY Zenon, <1>10, <1>15 DEF Sessions, Nonces
<1>17. /\ t.send_chain = s.send_chain /\ t.send_index = s.send_index
       /\ t.send_epoch = s.send_epoch /\ t.nonce = s.nonce
       /\ t.recv_chain = c.recv_chain /\ t.recv_epoch = c.recv_epoch
       /\ t.cached_metadata_keys = c.cached_metadata_keys
       /\ t.skipped_message_keys = g.skipped_message_keys
       /\ t.recv_index = g.recv_index /\ g.recv_epoch = c.recv_epoch
       /\ t.total_received = n /\ g.total_received = c.total_received
  <2> HIDE DEF s
  <2>1. /\ t.send_chain = g.send_chain /\ t.send_index = g.send_index
        /\ t.send_epoch = g.send_epoch /\ t.nonce = g.nonce
        /\ t.recv_chain = g.recv_chain /\ t.recv_epoch = g.recv_epoch
        /\ t.cached_metadata_keys = g.cached_metadata_keys
        /\ t.skipped_message_keys = g.skipped_message_keys
        /\ t.recv_index = g.recv_index
        /\ t.total_received = n
    BY <1>10 DEF Sessions
  <2> HIDE DEF t
  <2>2. /\ g.send_chain = c.send_chain /\ g.send_index = c.send_index
        /\ g.send_epoch = c.send_epoch /\ g.nonce = c.nonce
        /\ g.recv_chain = c.recv_chain /\ g.recv_epoch = c.recv_epoch
        /\ g.cached_metadata_keys = c.cached_metadata_keys
        /\ g.total_received = c.total_received
    BY <1>4, <1>11 DEF Sessions
  <2> QED BY Zenon, <1>4, <2>1, <2>2
<1> HIDE DEF t
<1>18. /\ session'[p] = t
       /\ \A o \in Peers : o # p => session'[o] = session[o] /\ accepted'[o] = accepted[o]
       /\ accepted'[p] = accepted[p] \cup {id0}
  BY <1>1, <1>2 DEF TypeOK
<1>19. q \in Peers /\ q # p /\ Peer(q) = p /\ session'[q] = session[q]
  BY <1>18, PeerFacts
<1>20. TypeOK'
  BY <1>1, <1>2, <1>3, <1>16 DEF TypeOK
<1>21. ReceiverInv'
  <2>1. \A id : Passed(t, id) <=> Passed(g, id)
    BY Zenon, <1>17 DEF Passed
  <2>2. Consistent(t, accepted'[p])
    BY Zenon, <1>13, <1>17, <1>18, <2>1 DEF Consistent
  <2>3. IsFiniteSet(accepted'[p])
    BY Zenon, <1>18, FS_AddElement DEF IInv, ReceiverInv
  <2> QED BY <1>18, <2>2, <2>3 DEF IInv, ReceiverInv
<1>22. AtMostOnce'
  <2>1. IsFiniteSet(accepted[p]) /\ Cardinality(accepted[p]) = s.total_received
    BY DEF IInv, ReceiverInv, AtMostOnce
  <2>2. Cardinality(accepted'[p]) = Cardinality(accepted[p]) + 1
    BY Zenon, <1>13, <1>18, <2>1, FS_AddElement
  <2>3. t.total_received = s.total_received + 1
    BY Zenon, <1>4, <1>17 DEF n
  <2> QED BY Zenon, <1>18, <2>1, <2>2, <2>3 DEF IInv, AtMostOnce
<1>23. SenderInv'
  <2>1. SenderOK(p, s)
    BY DEF IInv, SenderInv
  <2>2. SenderOK(p, t)
    BY Zenon, <1>17, <2>1 DEF SenderOK
  <2> QED BY <1>18, <2>2 DEF IInv, SenderInv
<1>24. NetworkInv'
  <2>1. ASSUME NEW o \in network
        PROVE  EnvelopeOK(o, session'[o.from])
    <3>1. EnvelopeOK(o, session[o.from]) /\ o.from \in Peers
      BY Zenon, <1>1 DEF IInv, NetworkInv, TypeOK, Envelopes
    <3>2. CASE o.from = p
      BY Zenon, <1>17, <1>18, <3>1, <3>2 DEF EnvelopeOK
    <3>3. CASE o.from # p
      BY <1>18, <3>1, <3>3
    <3> QED BY <3>2, <3>3
  <2> QED BY <1>2, <2>1 DEF IInv, NetworkInv
<1>25. InStep(t, session[q])
  <2>1. InStep(s, session[q])
    BY DEF IInv, AgreementInv
  <2>2. CASE ~m.ratchet
    BY Zenon, <1>4, <1>17, <2>1, <2>2 DEF InStep
  <2>3. CASE m.ratchet
    <3>1. EnvelopeOK(m, session[q])
      BY <1>2 DEF IInv, NetworkInv
    <3>2. t.recv_epoch = m.ratchet_epoch /\ t.recv_chain = m.chain
      BY Zenon, <1>4, <1>7, <1>9, <1>17, <2>3
    <3>3. session[q].send_epoch \in Nat
      BY Zenon, <1>1, <1>19 DEF TypeOK, Sessions
    <3>4. t.recv_epoch <= session[q].send_epoch
      BY <1>3, <3>1, <3>2, <3>3 DEF EnvelopeOK
    <3>5. t.recv_epoch = session[q].send_epoch => t.recv_chain = session[q].send_chain
      BY <1>3, <3>1, <3>2, <3>3 DEF EnvelopeOK
    <3>6. ASSUME NEW k \in t.cached_metadata_keys
          PROVE  k[1] < t.recv_epoch
      <4>1. t.recv_epoch = s.recv_epoch + 1
        BY Zenon, <1>4, <1>17, <2>3
      <4>2. k \in s.cached_metadata_keys \/ k = <<s.recv_epoch, s.recv_chain>>
        BY <1>4, <1>17, <2>3
      <4>3. CASE k \in s.cached_metadata_keys
        <5>1. k[1] < s.recv_epoch /\ k[1] \in Nat
          BY Zenon, <1>1, <2>1, <4>3 DEF InStep, Sessions
        <5> QED BY <1>6, <4>1, <5>1
      <4>4. CASE k = <<s.recv_epoch, s.recv_chain>>
        BY <1>6, <4>1, <4>4
      <4> QED BY <4>2, <4>3, <4>4
    <3> QED BY <3>4, <3>5, <3>6 DEF InStep
  <2> QED BY <2>2, <2>3
<1>26. AgreementInv'
  <2> SUFFICES ASSUME NEW o \in Peers
               PROVE  InStep(session'[o], session'[Peer(o)])
    BY DEF AgreementInv
  <2>1. CASE o = p
    BY <1>18, <1>19, <1>25, <2>1
  <2>2. CASE o # p
    <3>1. o = q
      BY <2>2 DEF Peers, Peer
    <3>2. InStep(session[q], s)
      BY <1>19 DEF IInv, AgreementInv
    <3> QED BY Zenon, <1>17, <1>18, <1>19, <3>1, <3>2 DEF InStep
  <2> QED BY <2>1, <2>2
<1>27. KeysAgree'
  <2> SUFFICES ASSUME NEW o \in Peers, NEW e \in network, e.from = Peer(o)
               PROVE  /\ e.ratchet_epoch = session'[o].recv_epoch
                           => e.chain = session'[o].recv_chain
                      /\ \A k \in session'[o].cached_metadata_keys :
                           e.ratchet_epoch = k[1] => e.chain = k[2]
    BY Zenon, <1>2 DEF KeysAgree
  <2>1. /\ e.ratchet_epoch = session[o].recv_epoch => e.chain = session[o].recv_chain
        /\ \A k \in session[o].cached_metadata_keys :
             e.ratchet_epoch = k[1] => e.chain = k[2]
    BY Zenon DEF IInv, KeysAgree
  <2>2. CASE o # p
    BY <1>18, <2>1, <2>2
  <2>3. CASE o = p /\ ~m.ratchet
    BY <1>4, <1>17, <1>18, <2>1, <2>3
  <2>4. CASE o = p /\ m.ratchet
    <3>1. t.recv_epoch = m.ratchet_epoch /\ t.recv_chain = m.chain
      BY Zenon, <1>4, <1>7, <1>9, <1>17, <2>4
    <3>2. e.ratchet_epoch = m.ratchet_epoch => e.chain = m.chain
      BY <1>2, <2>4 DEF IInv, NetworkInv
    <3>3. t.cached_metadata_keys \subseteq
            s.cached_metadata_keys \cup {<<s.recv_epoch, s.recv_chain>>}
      BY Zenon, <1>4, <1>17, <2>4
    <3>4. ASSUME NEW k \in t.cached_metadata_keys, e.ratchet_epoch = k[1]
          PROVE  e.chain = k[2]
      <4>1. CASE k \in s.cached_metadata_keys
        BY <2>1, <2>4, <3>4, <4>1
      <4>2. CASE k = <<s.recv_epoch, s.recv_chain>>
        BY <2>1, <2>4, <3>4, <4>2
      <4> QED BY <3>3, <4>1, <4>2
    <3> QED BY <1>18, <2>4, <3>1, <3>2, <3>4
  <2> QED BY Zenon, <2>2, <2>3, <2>4
<1>28. t.total_received = s.total_received + 1
  BY Zenon, <1>4, <1>17 DEF n
<1>29. IInv'
  BY <1>20, <1>21, <1>22, <1>23, <1>24, <1>26, <1>27 DEF IInv
<1> QED BY <1>13, <1>18, <1>28, <1>29 DEF id0

\* Calls that fail without reaching the payload change nothing.
LEMMA FailedCalls ==
  ASSUME IInv, NEW p \in Peers
  PROVE  /\ encrypt_fails(p) => UNCHANGED vars
         /\ \A m \in network, damaged \in BOOLEAN :
              decrypt_rejects(p, m, damaged) => UNCHANGED vars
<1> DEFINE s == session[p]
<1>1. s \in Sessions /\ SenderOK(p, s) /\ session \in [Peers -> Sessions]
  BY DEF IInv, TypeOK, SenderInv
<1>2. [session EXCEPT ![p] = s] = session
  BY <1>1
<1>3. ASSUME encrypt_fails(p) PROVE UNCHANGED vars
  <2>1. /\ session' = [session EXCEPT ![p] = rollback_send_encrypt_state(s,
              take_send_key(maybe_rotate_send_ratchet(s, FreshKey(p))))]
        /\ UNCHANGED <<network, accepted>>
    BY <1>3 DEF encrypt_fails
  <2>2. FreshKey(p) = <<p, s.send_epoch + 1>>
    BY DEF FreshKey
  <2>3. rollback_send_encrypt_state(s,
          take_send_key(maybe_rotate_send_ratchet(s, FreshKey(p)))) = s
    BY <1>1, <2>2, EncryptRollback
  <2> HIDE DEF s
  <2> QED BY <1>2, <2>1, <2>3 DEF vars
<1>4. ASSUME NEW m \in network, NEW damaged \in BOOLEAN, decrypt_rejects(p, m, damaged)
      PROVE  UNCHANGED vars
  <2>1. m \in Envelopes
    BY DEF IInv, TypeOK
  <2>2. reject_before_payload(s, m) = s
    BY <1>1, <2>1, RejectBeforeFacts
  <2>3. /\ session' = [session EXCEPT ![p] =
              IF admissible(s, m) THEN reject_before_payload(s, m) ELSE s]
        /\ UNCHANGED <<network, accepted>>
    BY <1>4 DEF decrypt_rejects
  <2> HIDE DEF s
  <2> QED BY <1>2, <2>2, <2>3 DEF vars
<1> QED BY <1>3, <1>4

\* A damaged payload keeps the invariant and everything but skipped keys.
LEMMA PayloadFailsStep ==
  ASSUME IInv, NEW p \in Peers, NEW m \in network, decrypt_payload_fails(p, m)
  PROVE  /\ IInv'
         /\ \E keys \in SUBSET session[p].skipped_message_keys :
              session'[p] = [session[p] EXCEPT !.skipped_message_keys = keys]
         /\ \A q \in Peers : q # p => session'[q] = session[q]
         /\ session'[p].total_received = session[p].total_received
         /\ UNCHANGED <<network, accepted>>
<1> DEFINE s == session[p]
<1>1. s \in Sessions /\ session \in [Peers -> Sessions] /\ m \in Envelopes
  BY DEF IInv, TypeOK
<1>2. /\ key_obtained(s, m)
      /\ session' = [session EXCEPT ![p] = reject_payload(s, m)]
      /\ UNCHANGED <<network, accepted>>
  BY DEF decrypt_payload_fails
<1>3. PICK keys \in SUBSET s.skipped_message_keys :
        reject_payload(s, m) = [s EXCEPT !.skipped_message_keys = keys]
  BY Zenon, <1>1, <1>2, RejectPayloadFacts
<1> DEFINE t == [s EXCEPT !.skipped_message_keys = keys]
<1>4. session' = [session EXCEPT ![p] = t]
  BY <1>2, <1>3
<1>5. keys \in SUBSET MessageIds
  BY Zenon, <1>1 DEF Sessions
<1>6. t \in Sessions
  BY Zenon, <1>1, <1>5 DEF Sessions
<1>7. /\ t.send_chain = s.send_chain /\ t.send_index = s.send_index
      /\ t.send_epoch = s.send_epoch /\ t.nonce = s.nonce
      /\ t.recv_chain = s.recv_chain /\ t.recv_index = s.recv_index
      /\ t.recv_epoch = s.recv_epoch /\ t.total_received = s.total_received
      /\ t.cached_metadata_keys = s.cached_metadata_keys
      /\ t.skipped_message_keys = keys
  BY <1>1 DEF Sessions
<1>8. /\ session'[p] = t
      /\ \A q \in Peers : q # p => session'[q] = session[q]
  BY <1>1, <1>4
<1> HIDE DEF t
<1>9. IInv'
  BY Zenon, <1>2, <1>4, <1>6, <1>7, ForgetStep
<1> QED BY Zenon, <1>2, <1>7, <1>8, <1>9 DEF t

\* destroy keeps the invariant.
LEMMA DestroyStep ==
  ASSUME IInv, NEW p \in Peers, destroy(p)
  PROVE  /\ IInv'
         /\ session'[p].destroyed # session[p].destroyed
         /\ \A q \in Peers : q # p => session'[q] = session[q]
         /\ session'[p].total_received = session[p].total_received
         /\ UNCHANGED <<network, accepted>>
<1> DEFINE s   == session[p]
           yes == TRUE
           t   == [s EXCEPT !.destroyed = yes,
                            !.skipped_message_keys = {},
                            !.cached_metadata_keys = {},
                            !.seen_payload_nonces = << >>]
<1>1. s \in Sessions /\ session \in [Peers -> Sessions] /\ ~s.destroyed
  BY DEF IInv, TypeOK, destroy
<1>2. /\ session' = [session EXCEPT ![p] = t]
      /\ UNCHANGED <<network, accepted>>
  BY Zenon DEF destroy
<1>3. yes \in BOOLEAN /\ << >> \in Seq(Nonces)
  OBVIOUS
<1>4. s.destroyed # yes
  BY Zenon, <1>1
<1> HIDE DEF yes
<1>5. t \in Sessions
  BY Zenon, <1>1, <1>3 DEF Sessions, Nonces
<1>6. /\ t.send_chain = s.send_chain /\ t.send_index = s.send_index
      /\ t.send_epoch = s.send_epoch /\ t.nonce = s.nonce
      /\ t.recv_chain = s.recv_chain /\ t.recv_index = s.recv_index
      /\ t.recv_epoch = s.recv_epoch /\ t.total_received = s.total_received
      /\ t.cached_metadata_keys = {} /\ t.skipped_message_keys = {}
      /\ t.destroyed = yes
  BY <1>1 DEF Sessions
<1> HIDE DEF t
<1>7. /\ session'[p] = t
      /\ \A q \in Peers : q # p => session'[q] = session[q]
  BY <1>1, <1>2
<1>8. IInv'
  BY Zenon, <1>2, <1>5, <1>6, ForgetStep
<1> QED BY <1>2, <1>4, <1>6, <1>7, <1>8

\* Every step keeps the invariant, and a call that fails keeps its session but
\* for evicted skipped keys.
LEMMA NextIInv ==
  ASSUME IInv, Next
  PROVE  IInv' /\ \A p \in Peers : FailedCallKeeps(p)
<1>1. PICK p \in Peers :
        \/ encrypt(p)
        \/ encrypt_fails(p)
        \/ destroy(p)
        \/ \E m \in network :
             \/ decrypt(p, m)
             \/ \E damaged \in BOOLEAN : decrypt_rejects(p, m, damaged)
             \/ decrypt_payload_fails(p, m)
  BY DEF Next
<1>2. \A q \in Peers : session[q] \in Sessions
  BY DEF IInv, TypeOK
<1>3. \A q \in Peers : session'[q] = session[q] => FailedCallKeeps(q)
  <2> SUFFICES ASSUME NEW q \in Peers, session'[q] = session[q]
               PROVE  FailedCallKeeps(q)
    OBVIOUS
  <2>1. session[q] = [session[q] EXCEPT !.skipped_message_keys = session[q].skipped_message_keys]
    BY Zenon, <1>2 DEF Sessions
  <2> QED BY Zenon, <2>1 DEF FailedCallKeeps
<1>4. ASSUME UNCHANGED vars PROVE IInv' /\ \A q \in Peers : FailedCallKeeps(q)
  <2>1. session' = session /\ network' = network /\ accepted' = accepted
    BY <1>4 DEF vars
  <2>2. IInv'
    BY Zenon, <2>1 DEF IInv, TypeOK, ReceiverInv, AtMostOnce, SenderInv, NetworkInv,
                AgreementInv, KeysAgree
  <2> QED BY <1>3, <2>1, <2>2
<1>5. CASE encrypt(p)
  <2>1. /\ IInv'
        /\ session'[p].total_sent = session[p].total_sent + 1
        /\ \A q \in Peers : q # p => session'[q] = session[q]
    BY <1>5, EncryptStep
  <2>2. session[p].total_sent \in Nat
    BY <1>2 DEF Sessions
  <2>3. FailedCallKeeps(p)
    BY <2>1, <2>2 DEF FailedCallKeeps
  <2> QED BY <1>3, <2>1, <2>3
<1>6. CASE encrypt_fails(p)
  BY <1>4, <1>6, FailedCalls
<1>7. CASE destroy(p)
  <2>1. /\ IInv'
        /\ session'[p].destroyed # session[p].destroyed
        /\ \A q \in Peers : q # p => session'[q] = session[q]
    BY <1>7, DestroyStep
  <2>2. FailedCallKeeps(p)
    BY <2>1 DEF FailedCallKeeps
  <2> QED BY <1>3, <2>1, <2>2
<1>8. ASSUME NEW m \in network, decrypt(p, m)
      PROVE  IInv' /\ \A q \in Peers : FailedCallKeeps(q)
  <2>1. /\ IInv'
        /\ session'[p].total_received = session[p].total_received + 1
        /\ \A q \in Peers : q # p => session'[q] = session[q]
    BY <1>8, DecryptStep
  <2>2. session[p].total_received \in Nat
    BY <1>2 DEF Sessions
  <2>3. FailedCallKeeps(p)
    BY <2>1, <2>2 DEF FailedCallKeeps
  <2> QED BY <1>3, <2>1, <2>3
<1>9. ASSUME NEW m \in network, NEW damaged \in BOOLEAN, decrypt_rejects(p, m, damaged)
      PROVE  IInv' /\ \A q \in Peers : FailedCallKeeps(q)
  BY <1>4, <1>9, FailedCalls
<1>10. ASSUME NEW m \in network, decrypt_payload_fails(p, m)
       PROVE  IInv' /\ \A q \in Peers : FailedCallKeeps(q)
  <2>1. /\ IInv'
        /\ \E keys \in SUBSET session[p].skipped_message_keys :
             session'[p] = [session[p] EXCEPT !.skipped_message_keys = keys]
        /\ \A q \in Peers : q # p => session'[q] = session[q]
    BY <1>10, PayloadFailsStep
  <2>2. FailedCallKeeps(p)
    BY Zenon, <2>1 DEF FailedCallKeeps
  <2> QED BY <1>3, <2>1, <2>2
<1> QED BY <1>1, <1>5, <1>6, <1>7, <1>8, <1>9, <1>10

\* The same for a stuttering step.
LEMMA StutterIInv ==
  ASSUME IInv, UNCHANGED vars
  PROVE  IInv'
BY Zenon DEF vars, IInv, TypeOK, ReceiverInv, AtMostOnce, SenderInv, NetworkInv,
       AgreementInv, KeysAgree

-----------------------------------------------------------------------------
(* The theorems.                                                           *)

\* The inductive invariant holds in every reachable state.
THEOREM Invariance == Spec => []IInv
<1>1. Init => IInv
  BY InitIInv
<1>2. IInv /\ [Next]_vars => IInv'
  BY NextIInv, StutterIInv
<1> QED BY <1>1, <1>2, PTL DEF Spec

\* SessionInner and SecureEnvelope keep their types.
THEOREM TypeCorrectness == Spec => []TypeOK
<1>1. IInv => TypeOK
  BY DEF IInv
<1> QED BY <1>1, Invariance, PTL

\* decrypt returns no message twice, for any size of the replay cache.
THEOREM DecryptsAtMostOnce == Spec => []AtMostOnce
<1>1. IInv => AtMostOnce
  BY DEF IInv
<1> QED BY <1>1, Invariance, PTL

\* The receiver's chains are the sender's chains of the same epoch.
THEOREM ChainAgreement == Spec => []KeysAgree
<1>1. IInv => KeysAgree
  BY DEF IInv
<1> QED BY <1>1, Invariance, PTL

\* encrypt never meets an exhausted nonce counter on a chain it may use.
THEOREM NonceBudget == Spec => []NonceBudgetSuffices
<1>1. IInv => NonceBudgetSuffices
  <2> SUFFICES ASSUME IInv, NEW p \in Peers
               PROVE  \/ session[p].nonce.counter < MaxNonceCounter
                      \/ send_ratchet_rotation_needed(session[p])
    BY DEF NonceBudgetSuffices
  <2>1. session[p].send_index \in Nat
    BY DEF IInv, TypeOK, Sessions
  <2>2. session[p].nonce = [prefix  |-> <<p, session[p].send_epoch>>,
                            counter |-> session[p].send_index]
    BY Zenon DEF IInv, SenderInv, SenderOK
  <2>3. session[p].nonce.counter = session[p].send_index
    BY <2>2
  <2> QED BY <2>1, <2>3, LimitsAssumption DEF send_ratchet_rotation_needed
<1> QED BY <1>1, Invariance, PTL

\* No message key and no AEAD nonce is used for two envelopes.
THEOREM Freshness == Spec => []FreshKeysAndNonces
<1>1. IInv => FreshKeysAndNonces
  <2> SUFFICES ASSUME IInv, NEW m \in network, NEW n \in network,
                      \/ /\ m.from = n.from /\ m.chain = n.chain
                         /\ m.message_index = n.message_index
                      \/ m.payload_nonce = n.payload_nonce
               PROVE  m = n
    BY DEF FreshKeysAndNonces
  <2>1. EnvelopeOK(m, session[m.from]) /\ EnvelopeOK(n, session[n.from])
    BY DEF IInv, NetworkInv
  <2>2. /\ m.payload_nonce.prefix = <<m.from, m.ratchet_epoch>>
        /\ n.payload_nonce.prefix = <<n.from, n.ratchet_epoch>>
        /\ m.payload_nonce.index = m.message_index
        /\ n.payload_nonce.index = n.message_index
    BY <2>1 DEF EnvelopeOK
  <2>3. /\ Tagged(m.from, m.ratchet_epoch, m.chain)
        /\ Tagged(n.from, n.ratchet_epoch, n.chain)
    BY Zenon, <2>1 DEF EnvelopeOK
  <2>4. /\ m.from = n.from /\ m.ratchet_epoch = n.ratchet_epoch
        /\ m.message_index = n.message_index
    <3>1. CASE m.payload_nonce = n.payload_nonce
      BY <2>2, <3>1
    <3>2. CASE /\ m.from = n.from /\ m.chain = n.chain
               /\ m.message_index = n.message_index
      BY <2>3, <3>2 DEF Tagged
    <3> QED BY <3>1, <3>2
  <2> QED BY <2>4 DEF IInv, NetworkInv
<1> QED BY <1>1, Invariance, PTL

\* A failed call leaves the session as it was, but for evicted skipped keys.
THEOREM FailureAtomicity == Spec => FailureKeepsState
<1>1. IInv /\ [Next]_vars => [\A p \in Peers : FailedCallKeeps(p)]_vars
  BY NextIInv
<1> QED BY <1>1, Invariance, PTL DEF Spec, FailureKeepsState

-----------------------------------------------------------------------------
(* The caches stay within the limits that an import enforces.              *)

\* The keys above k in a cache; the position of k counted from the newest.
Above(S, k) == {j \in S : KeyBefore(k, j)}
Later(S, k) == {j \in S : EpochBefore(k, j)}

\* One metadata key per epoch.
OnePerEpoch(S) == \A k, l \in S : k[1] = l[1] => k = l

\* What from_state_internal asks of the receiving half of a session.
Fits(s) ==
  /\ s.recv_index <= MaxMessagesPerChain
  /\ IsFiniteSet(s.skipped_message_keys)
  /\ Cardinality(s.skipped_message_keys) <= MaxSkippedMessageKeys
  /\ IsFiniteSet(s.cached_metadata_keys)
  /\ Cardinality(s.cached_metadata_keys) <= MaxCachedMetadataKeys
  /\ OnePerEpoch(s.cached_metadata_keys)
  /\ rebuild_loses_nothing(s.seen_payload_nonces)

\* pop_first until n keys are left leaves at most n: two keys that stay have
\* different positions.
LEMMA NewestKeysFit ==
  ASSUME NEW S \in SUBSET MessageIds, IsFiniteSet(S), NEW n \in Nat
  PROVE  /\ IsFiniteSet(Newest(S, n, KeyBefore))
         /\ Cardinality(Newest(S, n, KeyBefore)) <= n
<1> DEFINE N == {k \in S : Cardinality(Above(S, k)) < n}
           f == [k \in N |-> Cardinality(Above(S, k))]
<1>1. Newest(S, n, KeyBefore) = N
  BY DEF Newest, Above
<1>2. \A k : IsFiniteSet(Above(S, k)) /\ Cardinality(Above(S, k)) \in Nat
  BY FS_Subset, FS_CardinalityType DEF Above
<1>3. ASSUME NEW k \in S, NEW l \in S, KeyBefore(k, l)
      PROVE  Cardinality(Above(S, k)) # Cardinality(Above(S, l))
  <2>1. \A a, b, c \in MessageIds : KeyBefore(a, b) /\ KeyBefore(b, c) => KeyBefore(a, c)
    BY DEF KeyBefore, MessageIds
  <2>2. ~KeyBefore(l, l)
    BY DEF KeyBefore, MessageIds
  <2>3. Above(S, l) \subseteq Above(S, k) /\ l \in Above(S, k) /\ l \notin Above(S, l)
    BY <1>3, <2>1, <2>2 DEF Above
  <2> QED BY <1>2, <2>3, FS_Subset
<1>4. \A k, l \in S : k # l => KeyBefore(k, l) \/ KeyBefore(l, k)
  <2> SUFFICES ASSUME NEW k \in S, NEW l \in S, ~KeyBefore(k, l), ~KeyBefore(l, k)
               PROVE  k = l
    OBVIOUS
  <2>1. k = <<k[1], k[2]>> /\ l = <<l[1], l[2]>>
        /\ k[1] \in Nat /\ k[2] \in Nat /\ l[1] \in Nat /\ l[2] \in Nat
    BY DEF MessageIds
  <2>2. k[1] = l[1] /\ k[2] = l[2]
    BY <2>1 DEF KeyBefore
  <2> QED BY <2>1, <2>2
<1>5. f \in Injection(N, 0 .. n - 1)
  <2>1. f \in [N -> 0 .. n - 1]
    BY <1>2
  <2>2. \A k, l \in N : f[k] = f[l] => k = l
    BY <1>3, <1>4
  <2> QED BY Zenon, <2>1, <2>2 DEF Injection, IsInjective
<1>6. IsFiniteSet(0 .. n - 1) /\ Cardinality(0 .. n - 1) = n
  BY FS_Interval
<1> HIDE DEF f, N
<1> QED BY <1>1, <1>5, <1>6, FS_Injection

\* The same for the metadata keys, of which there is one per epoch.
LEMMA NewestEpochsFit ==
  ASSUME NEW S \in SUBSET (Nat \X Secrets), IsFiniteSet(S), OnePerEpoch(S), NEW n \in Nat
  PROVE  /\ IsFiniteSet(Newest(S, n, EpochBefore))
         /\ Cardinality(Newest(S, n, EpochBefore)) <= n
<1> DEFINE N == {k \in S : Cardinality(Later(S, k)) < n}
           f == [k \in N |-> Cardinality(Later(S, k))]
<1>1. Newest(S, n, EpochBefore) = N
  BY DEF Newest, Later
<1>2. \A k : IsFiniteSet(Later(S, k)) /\ Cardinality(Later(S, k)) \in Nat
  BY FS_Subset, FS_CardinalityType DEF Later
<1>0. \A k \in S : k[1] \in Nat
  OBVIOUS
<1>3. ASSUME NEW k \in S, NEW l \in S, EpochBefore(k, l)
      PROVE  Cardinality(Later(S, k)) # Cardinality(Later(S, l))
  <2>1. Later(S, l) \subseteq Later(S, k) /\ l \in Later(S, k) /\ l \notin Later(S, l)
    BY <1>0, <1>3 DEF Later, EpochBefore
  <2> QED BY <1>2, <2>1, FS_Subset
<1>4. \A k, l \in S : k # l => EpochBefore(k, l) \/ EpochBefore(l, k)
  BY <1>0 DEF EpochBefore, OnePerEpoch
<1>5. f \in Injection(N, 0 .. n - 1)
  <2>1. f \in [N -> 0 .. n - 1]
    BY <1>2
  <2>2. \A k, l \in N : f[k] = f[l] => k = l
    BY <1>3, <1>4
  <2> QED BY Zenon, <2>1, <2>2 DEF Injection, IsInjective
<1>6. IsFiniteSet(0 .. n - 1) /\ Cardinality(0 .. n - 1) = n
  BY FS_Interval
<1> HIDE DEF f, N
<1> QED BY <1>1, <1>5, <1>6, FS_Injection

\* Room is made before the keys of a gap enter the cache.
LEMMA GapFits ==
  ASSUME NEW s \in Sessions, Fits(s), NEW e, NEW a \in Nat, NEW b \in Nat, a <= b,
         b - a <= MaxSkippedMessageKeys
  PROVE  LET keys == reserve_skipped_capacity(s, b - a) \cup ({e} \X (a .. b - 1))
         IN  IsFiniteSet(keys) /\ Cardinality(keys) <= MaxSkippedMessageKeys
<1> DEFINE aged == evict_aged_skipped_keys(s)
           room == MaxSkippedMessageKeys - (b - a)
           kept == Newest(aged, room, KeyBefore)
           gap  == {e} \X (a .. b - 1)
<1>1. aged \subseteq s.skipped_message_keys
  BY DEF evict_aged_skipped_keys
<1>2. aged \in SUBSET MessageIds /\ IsFiniteSet(aged)
  BY <1>1, FS_Subset DEF Sessions, Fits
<1>3. room \in Nat
  BY LimitsAssumption
<1>4. IsFiniteSet(kept) /\ Cardinality(kept) <= room
  <2> HIDE DEF aged, room
  <2> QED BY <1>2, <1>3, NewestKeysFit
<1>5. IsFiniteSet(gap) /\ Cardinality(gap) = b - a
  <2> DEFINE run == a .. b - 1
  <2>1. a \in Int /\ b - 1 \in Int
    OBVIOUS
  <2>2. IsFiniteSet(run) /\ Cardinality(run) = IF a > b - 1 THEN 0 ELSE (b - 1) - a + 1
    BY <2>1, FS_Interval
  <2>3. Cardinality(run) = b - a
    BY <2>2
  <2>4. IsFiniteSet({e}) /\ Cardinality({e}) = 1
    BY Zenon, FS_Singleton
  <2> HIDE DEF run
  <2>5. IsFiniteSet({e} \X run) /\ Cardinality({e} \X run) = Cardinality({e}) * Cardinality(run)
    BY <2>2, <2>4, FS_Product
  <2> QED BY <2>3, <2>4, <2>5 DEF run
<1>6. reserve_skipped_capacity(s, b - a) = kept
  BY DEF reserve_skipped_capacity
<1> HIDE DEF kept, gap
<1>7. /\ IsFiniteSet(kept \cup gap)
      /\ Cardinality(kept \cup gap) = Cardinality(kept) + Cardinality(gap) - Cardinality(kept \cap gap)
  BY Zenon, <1>4, <1>5, FS_Union
<1>8. Cardinality(kept) \in Nat /\ Cardinality(kept \cap gap) \in Nat
  <2>1. IsFiniteSet(kept \cap gap)
    BY <1>4, FS_Subset
  <2> QED BY <1>4, <2>1, FS_CardinalityType
<1>9. Cardinality(kept \cup gap) <= MaxSkippedMessageKeys
  BY <1>4, <1>5, <1>7, <1>8, LimitsAssumption
<1> QED BY Zenon, <1>6, <1>7, <1>9 DEF gap

\* skip_old_chain_keys keeps the limits.
LEMMA SkipFits ==
  ASSUME NEW s \in Sessions, Fits(s), NEW n \in Nat, n <= MaxMessagesPerChain,
         SatSub(n, s.recv_index) <= MaxSkippedMessageKeys
  PROVE  Fits(skip_old_chain_keys(s, n))
<1> DEFINE k == skip_old_chain_keys(s, n)
           keys == reserve_skipped_capacity(s, n - s.recv_index)
                     \cup ({s.recv_epoch} \X (s.recv_index .. n - 1))
<1>0. s.recv_index \in Nat
  BY DEF Sessions
<1>1. CASE s.recv_index >= n
  <2>1. k = s
    BY <1>1 DEF skip_old_chain_keys
  <2> QED BY <2>1
<1>2. CASE ~(s.recv_index >= n)
  <2>1. k = [s EXCEPT !.skipped_message_keys = keys, !.recv_index = n]
    BY <1>2 DEF skip_old_chain_keys
  <2>2. s.recv_index <= n /\ n - s.recv_index <= MaxSkippedMessageKeys
    BY <1>0, <1>2 DEF SatSub
  <2>3. IsFiniteSet(keys) /\ Cardinality(keys) <= MaxSkippedMessageKeys
    BY Zenon, <1>0, <2>2, GapFits
  <2> HIDE DEF keys, k
  <2>4. /\ k.skipped_message_keys = keys /\ k.recv_index = n
        /\ k.cached_metadata_keys = s.cached_metadata_keys
        /\ k.seen_payload_nonces = s.seen_payload_nonces
    BY <2>1 DEF Sessions
  <2>5. Fits(k)
    BY <2>3, <2>4 DEF Fits
  <2> QED BY <2>5 DEF k
<1> QED BY <1>1, <1>2

\* apply_recv_ratchet keeps the limits; the metadata key it caches is the first
\* of its epoch.
LEMMA ApplyFits ==
  ASSUME NEW s \in Sessions, NEW m \in Envelopes, Fits(s),
         \A k \in s.cached_metadata_keys : k[1] < s.recv_epoch,
         m.ratchet, admissible(s, m)
  PROVE  Fits(apply_recv_ratchet(s, m))
<1> DEFINE k == skip_old_chain_keys(s, m.previous_chain_length)
           cache == k.cached_metadata_keys \cup {<<k.recv_epoch, k.recv_chain>>}
           old  == {x \in cache : x[1] >= SatSub(k.recv_epoch, MaxKeyEpochAge)}
           meta == enforce_metadata_cache_limit(cache, k.recv_epoch)
           yes  == TRUE
           root == Kdf(k.root_key, m.dh_public_key, k.dh_local)
           e    == k.recv_epoch + 1
           t    == [k EXCEPT !.cached_metadata_keys = meta,
                             !.root_key = root,
                             !.recv_chain = root,
                             !.recv_index = 0,
                             !.recv_epoch = e,
                             !.dh_remote = m.dh_public_key,
                             !.send_ratchet_pending = yes]
           kept == enforce_cache_limit(t)
           c    == apply_recv_ratchet(s, m)
<1>1. m.previous_chain_length \in Nat
  BY DEF Envelopes
<1>2. Fits(k)
  BY <1>1, SkipFits DEF admissible
<1>3. k \in Sessions
  BY Zenon, <1>1, SkipFacts
<1>4. k = [s EXCEPT !.skipped_message_keys = k.skipped_message_keys, !.recv_index = k.recv_index]
  BY Zenon, <1>1, SkipFacts
<1> HIDE DEF k
<1>5. /\ k.recv_epoch = s.recv_epoch /\ k.cached_metadata_keys = s.cached_metadata_keys
      /\ k.recv_epoch \in Nat /\ k.recv_chain \in Secrets
      /\ k.cached_metadata_keys \subseteq Nat \X Secrets
      /\ k.skipped_message_keys \subseteq MessageIds
  BY Zenon, <1>3, <1>4 DEF Sessions
<1>6. /\ cache \in SUBSET (Nat \X Secrets)
      /\ IsFiniteSet(cache)
      /\ OnePerEpoch(cache)
  <2>1. cache \in SUBSET (Nat \X Secrets)
    BY <1>5
  <2>2. IsFiniteSet(cache)
    BY Zenon, <1>2, FS_AddElement DEF Fits
  <2>3. \A x \in k.cached_metadata_keys : x[1] \in Nat /\ x[1] # k.recv_epoch
    BY <1>5
  <2>4. OnePerEpoch(cache)
    BY <1>2, <2>3 DEF Fits, OnePerEpoch
  <2> QED BY <2>1, <2>2, <2>4
<1> HIDE DEF cache
<1>7. /\ old \in SUBSET (Nat \X Secrets) /\ IsFiniteSet(old) /\ OnePerEpoch(old)
      /\ meta = Newest(old, MaxCachedMetadataKeys, EpochBefore)
  <2>1. old \subseteq cache
    OBVIOUS
  <2>2. meta = Newest(old, MaxCachedMetadataKeys, EpochBefore)
    BY DEF enforce_metadata_cache_limit
  <2> HIDE DEF old
  <2>3. IsFiniteSet(old)
    BY <1>6, <2>1, FS_Subset
  <2> QED BY <1>6, <2>1, <2>2, <2>3 DEF OnePerEpoch
<1>8. IsFiniteSet(meta) /\ Cardinality(meta) <= MaxCachedMetadataKeys
  <2> HIDE DEF old, meta
  <2> QED BY <1>7, NewestEpochsFit, LimitsAssumption
<1>9. OnePerEpoch(meta)
  <2>1. meta \subseteq cache
    BY MetadataEvictionRemoves
  <2> HIDE DEF meta
  <2> QED BY <1>6, <2>1 DEF OnePerEpoch
<1>10. c = [t EXCEPT !.skipped_message_keys = kept]
  BY Zenon DEF apply_recv_ratchet, k, cache
<1> HIDE DEF meta, yes, root, e, c
<1>11. /\ t.skipped_message_keys = k.skipped_message_keys
       /\ t.seen_payload_nonces = k.seen_payload_nonces
       /\ t.cached_metadata_keys = meta
       /\ t.recv_index = 0
  BY <1>3 DEF Sessions
<1>12. IsFiniteSet(kept) /\ Cardinality(kept) <= MaxSkippedMessageKeys
  <2> DEFINE aged == evict_aged_skipped_keys(t)
  <2>1. aged \subseteq k.skipped_message_keys
    BY <1>11 DEF evict_aged_skipped_keys
  <2>2. kept = Newest(aged, MaxSkippedMessageKeys, KeyBefore)
    BY DEF enforce_cache_limit
  <2> HIDE DEF aged, kept, t
  <2>3. aged \in SUBSET MessageIds /\ IsFiniteSet(aged)
    BY Zenon, <1>2, <1>5, <2>1, FS_Subset DEF Fits
  <2> QED BY <2>2, <2>3, NewestKeysFit, LimitsAssumption
<1>13. /\ c.skipped_message_keys = kept /\ c.recv_index = 0
       /\ c.cached_metadata_keys = meta /\ c.seen_payload_nonces = k.seen_payload_nonces
  <2> HIDE DEF kept
  <2> QED BY <1>3, <1>10 DEF Sessions
<1> HIDE DEF kept, t
<1>14. Fits(c)
  BY <1>2, <1>8, <1>9, <1>12, <1>13, LimitsAssumption DEF Fits
<1> QED BY <1>14 DEF c

\* Taking a message key keeps the limits.
LEMMA GetKeyFits ==
  ASSUME NEW c \in Sessions, NEW m \in Envelopes, Fits(c),
         m.message_index < MaxMessagesPerChain, message_key_available(c, m)
  PROVE  Fits(get_recv_message_key(c, m))
<1> DEFINE t    == get_recv_message_key(c, m)
           keys == reserve_skipped_capacity(c, m.message_index - c.recv_index)
                     \cup ({c.recv_epoch} \X (c.recv_index .. m.message_index - 1))
           rest == c.skipped_message_keys \ {MessageId(m)}
           i    == m.message_index + 1
<1>0. c.recv_index \in Nat /\ m.message_index \in Nat
  BY DEF Sessions, Envelopes
<1>1. CASE from_skipped(c, m)
  <2>1. t = [c EXCEPT !.skipped_message_keys = rest]
    BY <1>1, Zenon DEF get_recv_message_key
  <2>2. IsFiniteSet(rest) /\ Cardinality(rest) <= Cardinality(c.skipped_message_keys)
    BY FS_Subset DEF Fits
  <2>3. Cardinality(rest) \in Nat /\ Cardinality(c.skipped_message_keys) \in Nat
    BY <2>2, FS_CardinalityType DEF Fits
  <2> HIDE DEF rest, t
  <2>4. /\ t.skipped_message_keys = rest /\ t.recv_index = c.recv_index
        /\ t.cached_metadata_keys = c.cached_metadata_keys
        /\ t.seen_payload_nonces = c.seen_payload_nonces
    BY <2>1 DEF Sessions
  <2>5. Fits(t)
    BY <2>2, <2>3, <2>4, LimitsAssumption DEF Fits
  <2> QED BY <2>5 DEF t
<1>2. CASE ~from_skipped(c, m)
  <2>1. t = [c EXCEPT !.skipped_message_keys = keys, !.recv_index = i]
    BY <1>2, Zenon DEF get_recv_message_key
  <2>2. c.recv_index <= m.message_index /\ m.message_index - c.recv_index <= MaxSkippedMessageKeys
    BY <1>0, <1>2 DEF message_key_available, from_skipped
  <2>3. IsFiniteSet(keys) /\ Cardinality(keys) <= MaxSkippedMessageKeys
    BY Zenon, <1>0, <2>2, GapFits
  <2>4. i <= MaxMessagesPerChain
    BY <1>0, LimitsAssumption
  <2> HIDE DEF keys, t, i
  <2>5. /\ t.skipped_message_keys = keys /\ t.recv_index = i
        /\ t.cached_metadata_keys = c.cached_metadata_keys
        /\ t.seen_payload_nonces = c.seen_payload_nonces
    BY <2>1 DEF Sessions
  <2>6. Fits(t)
    BY <2>3, <2>4, <2>5 DEF Fits
  <2> QED BY <2>6 DEF t
<1> QED BY <1>1, <1>2

\* A nonce that is not in the replay cache enters it once, and pushes the oldest
\* one out when the cache is full.
LEMMA RememberFits ==
  ASSUME NEW seen \in Seq(Nonces), NEW x \in Nonces, rebuild_loses_nothing(seen),
         \A i \in DOMAIN seen : seen[i] # x
  PROVE  rebuild_loses_nothing(remember_seen_payload_nonce(seen, x))
<1> DEFINE longer == Append(seen, x)
<1>1. /\ longer \in Seq(Nonces) /\ Len(longer) = Len(seen) + 1
      /\ DOMAIN longer = 1 .. Len(seen) + 1
      /\ \A i \in 1 .. Len(seen) : longer[i] = seen[i]
      /\ longer[Len(seen) + 1] = x
      /\ DOMAIN seen = 1 .. Len(seen) /\ Len(seen) \in Nat
  OBVIOUS
<1>2. \A i, j \in DOMAIN longer : longer[i] = longer[j] => i = j
  BY <1>1 DEF rebuild_loses_nothing
<1>3. /\ Len(Tail(longer)) = Len(seen) /\ DOMAIN Tail(longer) = 1 .. Len(seen)
      /\ \A i \in 1 .. Len(seen) : Tail(longer)[i] = longer[i + 1]
  BY <1>1
<1> HIDE DEF longer
<1>4. \A i, j \in DOMAIN Tail(longer) : Tail(longer)[i] = Tail(longer)[j] => i = j
  <2> SUFFICES ASSUME NEW i \in 1 .. Len(seen), NEW j \in 1 .. Len(seen),
                      Tail(longer)[i] = Tail(longer)[j]
               PROVE  i = j
    BY Zenon, <1>3
  <2>1. longer[i + 1] = longer[j + 1]
    BY <1>3
  <2>2. i + 1 \in DOMAIN longer /\ j + 1 \in DOMAIN longer
    BY <1>1
  <2>3. i + 1 = j + 1
    BY <1>2, <2>1, <2>2
  <2> QED BY <1>1, <2>3
<1>5. remember_seen_payload_nonce(seen, x) =
        IF Len(longer) > MaxSeenNonces THEN Tail(longer) ELSE longer
  BY DEF remember_seen_payload_nonce, longer
<1>6. ASSUME Len(longer) > MaxSeenNonces
      PROVE  rebuild_loses_nothing(Tail(longer))
  BY Zenon, <1>1, <1>3, <1>4, <1>6, LimitsAssumption DEF rebuild_loses_nothing
<1>7. ASSUME ~(Len(longer) > MaxSeenNonces)
      PROVE  rebuild_loses_nothing(longer)
  BY <1>1, <1>2, <1>7, LimitsAssumption, SMTT(30) DEF rebuild_loses_nothing
<1> QED BY <1>5, <1>6, <1>7

CacheInv == \A p \in Peers : Fits(session[p])

LEMMA InitFits == Init => CacheInv
<1> SUFFICES ASSUME Init, NEW p \in Peers
             PROVE  Fits(session[p])
  BY DEF CacheInv
<1>1. /\ session[p].recv_index = 0 /\ session[p].skipped_message_keys = {}
      /\ session[p].cached_metadata_keys = {} /\ session[p].seen_payload_nonces = << >>
  BY Zenon DEF Init, NewSession
<1>2. IsFiniteSet({}) /\ Cardinality({}) = 0
  BY FS_EmptySet
<1> QED BY <1>1, <1>2, LimitsAssumption DEF Fits, OnePerEpoch, rebuild_loses_nothing

\* One session changes, and the limits depend on its receiving half alone.
LEMMA FitsStep ==
  ASSUME CacheInv, NEW p \in Peers, Fits(session'[p]),
         \A q \in Peers : q # p => session'[q] = session[q]
  PROVE  CacheInv'
BY DEF CacheInv

LEMMA DecryptFits ==
  ASSUME IInv, CacheInv, NEW p \in Peers, NEW m \in network, decrypt(p, m)
  PROVE  CacheInv'
<1> DEFINE s    == session[p]
           c    == candidate(s, m)
           g    == get_recv_message_key(c, m)
           seen == remember_seen_payload_nonce(g.seen_payload_nonces, m.payload_nonce)
           yes  == TRUE
           n    == g.total_received + 1
           t    == [g EXCEPT !.seen_payload_nonces = seen,
                             !.send_ratchet_pending = yes,
                             !.total_received = n]
<1>1. s \in Sessions /\ m \in Envelopes /\ session \in [Peers -> Sessions] /\ Fits(s)
  BY DEF IInv, TypeOK, CacheInv
<1>2. session' = [session EXCEPT ![p] = t] /\ key_obtained(s, m)
  BY DEF decrypt
<1>3. \A k \in s.cached_metadata_keys : k[1] < s.recv_epoch
  BY Zenon DEF IInv, AgreementInv, InStep
<1>4. c \in Sessions /\ c.seen_payload_nonces = s.seen_payload_nonces
  BY Zenon, <1>1, CandidateFacts
<1>5. Fits(c)
  <2>1. CASE m.ratchet
    BY <1>1, <1>2, <1>3, <2>1, ApplyFits DEF candidate, key_obtained
  <2>2. CASE ~m.ratchet
    BY <1>1, <2>2 DEF candidate
  <2> QED BY <2>1, <2>2
<1>6. /\ message_key_available(c, m) /\ m.message_index < MaxMessagesPerChain
      /\ \A i \in DOMAIN c.seen_payload_nonces : c.seen_payload_nonces[i] # m.payload_nonce
  BY Zenon, <1>2 DEF key_obtained
<1> HIDE DEF c
<1>7. g \in Sessions /\ Fits(g)
  BY Zenon, <1>1, <1>4, <1>5, <1>6, GetKeyType, GetKeyFits
<1>8. g.seen_payload_nonces = c.seen_payload_nonces
  <2>1. PICK keys, i : g = [c EXCEPT !.skipped_message_keys = keys, !.recv_index = i]
    BY Zenon, <1>1, <1>4, GetKeyType
  <2> HIDE DEF g
  <2> QED BY <1>4, <2>1 DEF Sessions
<1> HIDE DEF g
<1>9. rebuild_loses_nothing(seen)
  <2>1. g.seen_payload_nonces \in Seq(Nonces) /\ m.payload_nonce \in Nonces
    BY Zenon, <1>1, <1>7 DEF Sessions, Envelopes, Nonces
  <2> QED BY <1>6, <1>7, <1>8, <2>1, RememberFits DEF Fits
<1> HIDE DEF seen, yes, n
<1>10. /\ t.recv_index = g.recv_index /\ t.skipped_message_keys = g.skipped_message_keys
       /\ t.cached_metadata_keys = g.cached_metadata_keys /\ t.seen_payload_nonces = seen
  BY <1>7 DEF Sessions
<1>11. Fits(t)
  BY <1>7, <1>9, <1>10 DEF Fits
<1> HIDE DEF t
<1>12. session'[p] = t /\ \A q \in Peers : q # p => session'[q] = session[q]
  BY <1>1, <1>2
<1> QED BY <1>11, <1>12, FitsStep

LEMMA EncryptFits ==
  ASSUME IInv, CacheInv, NEW p \in Peers, encrypt(p)
  PROVE  CacheInv'
<1> DEFINE s == session[p]
           k == <<p, s.send_epoch + 1>>
           r == maybe_rotate_send_ratchet(s, k)
           i == r.send_index + 1
           nc == [r.nonce EXCEPT !.counter = @ + 1]
           n == take_send_key(r).total_sent + 1
           t == [take_send_key(r) EXCEPT !.total_sent = n]
<1>1. s \in Sessions /\ session \in [Peers -> Sessions] /\ Fits(s) /\ SenderOK(p, s)
  BY DEF IInv, TypeOK, CacheInv, SenderInv
<1>2. session' = [session EXCEPT ![p] = t]
  BY Zenon DEF encrypt, FreshKey
<1>3. r \in Sessions /\ SameReceiver(r, s)
  BY Zenon, <1>1, RotateFacts
<1>4. take_send_key(r) = [r EXCEPT !.send_index = i, !.nonce = nc]
  BY Zenon DEF take_send_key
<1> HIDE DEF r, i, nc, n
<1>5. t = [r EXCEPT !.send_index = i, !.nonce = nc, !.total_sent = n]
  BY <1>3, <1>4 DEF Sessions
<1> HIDE DEF t
<1>6. /\ t.recv_index = s.recv_index /\ t.skipped_message_keys = s.skipped_message_keys
      /\ t.cached_metadata_keys = s.cached_metadata_keys
      /\ t.seen_payload_nonces = s.seen_payload_nonces
  BY Zenon, <1>3, <1>5 DEF Sessions, SameReceiver
<1>7. Fits(t)
  BY Zenon, <1>1, <1>6 DEF Fits
<1>8. session'[p] = t /\ \A q \in Peers : q # p => session'[q] = session[q]
  BY <1>1, <1>2
<1> QED BY <1>7, <1>8, FitsStep

LEMMA NextFits ==
  ASSUME IInv, CacheInv, [Next]_vars
  PROVE  CacheInv'
<1>1. CASE UNCHANGED vars
  BY <1>1 DEF vars, CacheInv
<1>2. ASSUME NEW p \in Peers, destroy(p)
      PROVE  CacheInv'
  <2> DEFINE s   == session[p]
             yes == TRUE
             t   == [s EXCEPT !.destroyed = yes,
                              !.skipped_message_keys = {},
                              !.cached_metadata_keys = {},
                              !.seen_payload_nonces = << >>]
  <2>1. s \in Sessions /\ session \in [Peers -> Sessions] /\ Fits(s)
    BY DEF IInv, TypeOK, CacheInv
  <2>2. session' = [session EXCEPT ![p] = t]
    BY <1>2, Zenon DEF destroy
  <2> HIDE DEF yes
  <2>3. /\ t.recv_index = s.recv_index /\ t.skipped_message_keys = {}
        /\ t.cached_metadata_keys = {} /\ t.seen_payload_nonces = << >>
    BY <2>1 DEF Sessions
  <2> HIDE DEF t
  <2>4. IsFiniteSet({}) /\ Cardinality({}) = 0
    BY FS_EmptySet
  <2>5. Fits(t)
    BY <2>1, <2>3, <2>4, LimitsAssumption DEF Fits, OnePerEpoch, rebuild_loses_nothing
  <2>6. session'[p] = t /\ \A q \in Peers : q # p => session'[q] = session[q]
    BY <2>1, <2>2
  <2> QED BY <2>5, <2>6, FitsStep
<1>3. ASSUME NEW p \in Peers, NEW m \in network, decrypt_payload_fails(p, m)
      PROVE  CacheInv'
  <2> DEFINE s == session[p]
  <2>1. s \in Sessions /\ Fits(s)
    BY DEF IInv, TypeOK, CacheInv
  <2>2. PICK keys \in SUBSET s.skipped_message_keys :
          session'[p] = [s EXCEPT !.skipped_message_keys = keys]
    BY Zenon, <1>3, PayloadFailsStep
  <2>3. \A q \in Peers : q # p => session'[q] = session[q]
    BY <1>3, PayloadFailsStep
  <2>4. /\ session'[p].skipped_message_keys = keys /\ session'[p].recv_index = s.recv_index
        /\ session'[p].cached_metadata_keys = s.cached_metadata_keys
        /\ session'[p].seen_payload_nonces = s.seen_payload_nonces
    BY <2>1, <2>2 DEF Sessions
  <2>5. /\ IsFiniteSet(keys) /\ Cardinality(keys) <= Cardinality(s.skipped_message_keys)
        /\ IsFiniteSet(s.skipped_message_keys)
    BY Zenon, <2>1, FS_Subset DEF Fits
  <2>6. Cardinality(keys) \in Nat /\ Cardinality(s.skipped_message_keys) \in Nat
    BY <2>5, FS_CardinalityType
  <2>7. Fits(session'[p])
    BY <2>1, <2>4, <2>5, <2>6, LimitsAssumption DEF Fits
  <2> QED BY <2>3, <2>7, FitsStep
<1>4. ASSUME NEW p \in Peers, \/ encrypt_fails(p)
                              \/ \E m \in network, damaged \in BOOLEAN : decrypt_rejects(p, m, damaged)
      PROVE  CacheInv'
  <2>1. UNCHANGED vars
    BY <1>4, FailedCalls
  <2> QED BY <2>1 DEF vars, CacheInv
<1> QED BY <1>1, <1>2, <1>3, <1>4, EncryptFits, DecryptFits DEF Next

\* Every session that is exported is accepted by from_state_internal and comes
\* back whole, for any limits: indices, nonce counter and caches never leave the
\* range the import enforces, and the replay cache holds no nonce twice.
THEOREM ExportsImport == Spec => []Importable
<1>1. Init => IInv /\ CacheInv
  BY InitIInv, InitFits
<1>2. IInv /\ CacheInv /\ [Next]_vars => (IInv /\ CacheInv)'
  BY NextIInv, StutterIInv, NextFits
<1>3. IInv /\ CacheInv => Importable
  <2> SUFFICES ASSUME IInv, CacheInv, NEW p \in Peers
               PROVE  /\ importable_chains(session[p])
                      /\ importable_skipped_keys(session[p])
                      /\ importable_metadata_keys(session[p])
                      /\ rebuild_loses_nothing(session[p].seen_payload_nonces)
    BY DEF Importable
  <2> DEFINE s == session[p]
  <2>1. s \in Sessions /\ SenderOK(p, s) /\ Fits(s) /\ Consistent(s, accepted[p])
        /\ \A k \in s.cached_metadata_keys : k[1] < s.recv_epoch
    BY Zenon DEF IInv, TypeOK, CacheInv, SenderInv, ReceiverInv, AgreementInv, InStep
  <2> HIDE DEF s
  <2>2. /\ s.send_index \in Nat /\ s.recv_epoch \in Nat /\ s.skipped_message_keys \subseteq MessageIds
        /\ s.cached_metadata_keys \subseteq Nat \X Secrets
    BY <2>1 DEF Sessions
  <2>3. importable_chains(s)
    <3>1. s.nonce.counter = s.send_index /\ s.send_index <= MaxMessagesPerChain
      BY <2>1, SMTT(30) DEF SenderOK
    <3>2. s.send_index <= MaxNonceCounter
      BY <2>2, <3>1, LimitsAssumption, SMTT(30)
    <3>3. s.recv_index <= MaxMessagesPerChain
      BY Zenon, <2>1 DEF Fits
    <3> QED BY <3>1, <3>2, <3>3, SMTT(30) DEF importable_chains
  <2>4. importable_skipped_keys(s)
    BY <2>1, <2>2, SMTT(30) DEF importable_skipped_keys, Fits, Consistent, Passed, MessageIds
  <2>5. \A k \in s.cached_metadata_keys : k[1] \in Nat /\ k[1] <= s.recv_epoch
    BY <2>1, <2>2
  <2>6. importable_metadata_keys(s)
    BY <2>1, <2>5 DEF importable_metadata_keys, Fits, OnePerEpoch
  <2> QED BY Zenon, <2>1, <2>3, <2>4, <2>6 DEF Fits, s
<1> QED BY <1>1, <1>2, <1>3, PTL DEF Spec

-----------------------------------------------------------------------------
(* The session implements SecureChannel.                                   *)

\* The channel variables of the refinement mapping.
sentOf == [p \in Peers |-> SentTo(Peer(p))]
receivedOf == [p \in Peers |-> session[p].total_received]

\* A fresh session is a fresh channel.
LEMMA InitChannel == Init => Channel!Init
<1> SUFFICES ASSUME Init PROVE Channel!Init
  OBVIOUS
<1>1. \A p \in Peers : SentTo(p) = {}
  BY DEF Init, SentTo
<1>2. \A p \in Peers : session[p].total_received = 0
  BY Zenon DEF Init, NewSession
<1>3. sentOf = [p \in Peers |-> {}]
  BY <1>1, PeerFacts DEF sentOf
<1>4. receivedOf = [p \in Peers |-> 0]
  BY <1>2 DEF receivedOf
<1>5. accepted = [p \in Peers |-> {}]
  BY DEF Init
<1>6. Channel!Peers = Peers
  BY DEF Channel!Peers, Peers
<1> QED BY <1>3, <1>4, <1>5, <1>6 DEF Channel!Init, sentOf, receivedOf

\* What an endpoint has sent, in terms of the network.
LEMMA SentOfPeer ==
  ASSUME NEW p \in Peers
  PROVE  sentOf[p] = {MessageId(m) : m \in {n \in network : n.from = p}}
BY PeerFacts DEF sentOf, SentTo

\* Every step of the session is a step of the channel or invisible to it.
LEMMA NextChannel ==
  ASSUME IInv, [Next]_vars
  PROVE  [Channel!Next]_<<sentOf, accepted, receivedOf>>
<1>1. Channel!Peers = Peers /\ \A p \in Peers : Channel!Peer(p) = Peer(p)
  BY DEF Channel!Peers, Peers, Channel!Peer, Peer
<1>2. accepted \in [Peers -> SUBSET MessageIds]
  BY DEF IInv, TypeOK
<1>3. ASSUME network' = network PROVE sentOf' = sentOf
  BY <1>3 DEF sentOf, SentTo
<1>4. ASSUME \A q \in Peers : session'[q].total_received = session[q].total_received
      PROVE  receivedOf' = receivedOf
  BY <1>4 DEF receivedOf
<1>5. ASSUME NEW p \in Peers, encrypt(p)
      PROVE  Channel!Next
  <2>1. PICK m : /\ network' = network \cup {m}
                 /\ m.from = p
                 /\ \A o \in network : o.from = p => MessageId(o) # MessageId(m)
    BY <1>5, EncryptStep
  <2>2. receivedOf' = receivedOf /\ accepted' = accepted
    <3>1. /\ session'[p].total_received = session[p].total_received
          /\ \A q \in Peers : q # p => session'[q] = session[q]
          /\ accepted' = accepted
      BY <1>5, EncryptStep
    <3>2. \A q \in Peers : session'[q].total_received = session[q].total_received
      BY <3>1
    <3> QED BY <1>4, <3>1, <3>2
  <2> DEFINE id == MessageId(m)
  <2>3. /\ sentOf[p] = {MessageId(o) : o \in {n \in network : n.from = p}}
        /\ sentOf'[p] = {MessageId(o) : o \in {n \in network' : n.from = p}}
    BY PeerFacts DEF sentOf, SentTo
  <2>4. id \notin sentOf[p] /\ sentOf'[p] = sentOf[p] \cup {id}
    BY <2>1, <2>3
  <2>5. \A q \in Peers : q # p => sentOf'[q] = sentOf[q]
    <3> SUFFICES ASSUME NEW q \in Peers, q # p PROVE sentOf'[q] = sentOf[q]
      OBVIOUS
    <3>1. /\ sentOf[q] = {MessageId(o) : o \in {n \in network : n.from = q}}
          /\ sentOf'[q] = {MessageId(o) : o \in {n \in network' : n.from = q}}
      BY PeerFacts DEF sentOf, SentTo
    <3>2. {n \in network' : n.from = q} = {n \in network : n.from = q}
      BY <2>1
    <3> QED BY <3>1, <3>2
  <2>6. sentOf' = [sentOf EXCEPT ![p] = @ \cup {id}]
    <3>1. DOMAIN sentOf = Peers /\ DOMAIN sentOf' = Peers
      BY DEF sentOf
    <3>2. sentOf = [q \in Peers |-> sentOf[q]] /\ sentOf' = [q \in Peers |-> sentOf'[q]]
      BY DEF sentOf
    <3> HIDE DEF id
    <3> QED BY <2>4, <2>5, <3>1, <3>2
  <2>7. id \in sentOf'[p] \ sentOf[p]
    BY <2>4
  <2> HIDE DEF id
  <2>8. Channel!Send(p)
    BY Zenon, <2>2, <2>6, <2>7 DEF Channel!Send, sentOf, receivedOf
  <2> QED BY <1>1, <2>8 DEF Channel!Next
<1>6. ASSUME NEW p \in Peers, NEW m \in network, decrypt(p, m)
      PROVE  Channel!Next
  <2>1. /\ MessageId(m) \notin accepted[p]
        /\ session'[p].total_received = session[p].total_received + 1
        /\ \A q \in Peers : q # p => session'[q] = session[q]
    BY <1>6, DecryptStep
  <2>2. /\ m.from = Peer(p)
        /\ accepted' = [accepted EXCEPT ![p] = @ \cup {MessageId(m)}]
        /\ network' = network
    BY <1>6 DEF decrypt
  <2>3. sentOf' = sentOf
    BY <1>3, <2>2
  <2>4. MessageId(m) \in sentOf[Peer(p)]
    <3>1. sentOf[Peer(p)] = {MessageId(o) : o \in {n \in network : n.from = Peer(p)}}
      BY PeerFacts, SentOfPeer
    <3> QED BY <2>2, <3>1
  <2>5. receivedOf' = [receivedOf EXCEPT ![p] = @ + 1]
    BY Zenon, <2>1 DEF receivedOf
  <2>6. Channel!Deliver(p)
    BY Zenon, <1>1, <2>1, <2>2, <2>3, <2>4, <2>5 DEF Channel!Deliver, sentOf, receivedOf
  <2> QED BY <1>1, <2>6 DEF Channel!Next
<1>7. ASSUME NEW p \in Peers, encrypt_fails(p)
      PROVE  UNCHANGED vars
  BY <1>7, FailedCalls
<1>8. ASSUME NEW p \in Peers, NEW m \in network, NEW damaged \in BOOLEAN,
             decrypt_rejects(p, m, damaged)
      PROVE  UNCHANGED vars
  BY <1>8, FailedCalls
<1>9. ASSUME UNCHANGED vars
      PROVE  UNCHANGED <<sentOf, accepted, receivedOf>>
  BY <1>9 DEF vars, sentOf, receivedOf, SentTo
<1>10. ASSUME NEW p \in Peers, destroy(p)
       PROVE  UNCHANGED <<sentOf, accepted, receivedOf>>
  <2>1. /\ \A q \in Peers : q # p => session'[q] = session[q]
        /\ session'[p].total_received = session[p].total_received
        /\ UNCHANGED <<network, accepted>>
    BY <1>10, DestroyStep
  <2>2. \A q \in Peers : session'[q].total_received = session[q].total_received
    BY <2>1
  <2> QED BY <1>3, <1>4, <2>1, <2>2
<1>11. ASSUME NEW p \in Peers, NEW m \in network, decrypt_payload_fails(p, m)
       PROVE  UNCHANGED <<sentOf, accepted, receivedOf>>
  <2>1. /\ \A q \in Peers : q # p => session'[q] = session[q]
        /\ session'[p].total_received = session[p].total_received
        /\ UNCHANGED <<network, accepted>>
    BY <1>11, PayloadFailsStep
  <2>2. \A q \in Peers : session'[q].total_received = session[q].total_received
    BY <2>1
  <2> QED BY <1>3, <1>4, <2>1, <2>2
<1> QED BY <1>5, <1>6, <1>7, <1>8, <1>9, <1>10, <1>11 DEF Next

\* encrypt and decrypt implement the channel SecureChannel describes.
THEOREM Refinement == Spec => ImplementsChannel
<1>1. Init => Channel!Init
  BY InitChannel
<1>2. IInv /\ [Next]_vars => [Channel!Next]_<<sentOf, accepted, receivedOf>>
  BY NextChannel
<1> QED BY <1>1, <1>2, Invariance, PTL DEF Spec, ImplementsChannel, Channel!Spec, sentOf, receivedOf
=============================================================================
