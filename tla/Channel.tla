------------------------------ MODULE Channel ------------------------------
(***************************************************************************)
(* Broadcast channels (src/src/protocol/channel.rs and the aura_channel_*  *)
(* functions of src/src/ffi/api.rs).  An admin generates channel keys and  *)
(* wraps each one for the devices that may read; posts are encrypted under *)
(* a channel key and signed by their sender.  The functions keep no state: *)
(* the devices' key caches, the blobs and the posts belong to the caller   *)
(* and to the channels server, which stores opaque fields and may hand out *)
(* the fields of different posts and the blobs of different devices in any *)
(* combination.                                                            *)
(*                                                                         *)
(* A ciphertext is what its AEAD binds; a signature is its signer and what *)
(* it covers.  A random nonce is the number of the post that drew it.      *)
(***************************************************************************)
EXTENDS Integers, FiniteSets, Sequences

CONSTANTS
    Channels, Devices, Senders, Bodies,
    MaxKeys,        \* bound on the channel keys generated
    MaxPosts,       \* bound on the posts
    MaxReads        \* bound on the messages each device reads

ASSUME ChannelAssumption == MaxKeys \in Nat /\ MaxPosts \in Nat /\ MaxReads \in Nat

VARIABLES
    keys,       \* the channels of the channel keys generated; a key is its number
    blobs,      \* wrapped keys on the server
    cache,      \* Devices -> channel keys the device holds
    posts,      \* the posts on the server, as assembled by their senders
    said,       \* history: what every sender posted
    read        \* Devices -> what it has read, and from whom

channel_vars == <<keys, blobs, cache, posts, said, read>>

-----------------------------------------------------------------------------
(* The pure functions. *)

derive_wrap_key(device, kyber) == <<"wrap", device, kyber>>

build_wrap_aad(device, kyber) == <<device, kyber>>

\* The channel key k sealed to the device's X25519 and ML-KEM keys.
wrap_key(k, d) ==
    [under |-> derive_wrap_key(d, d), aad |-> build_wrap_aad(d, d), key |-> k]

\* Device d can open the blob.
unwrap_key_blob_opens(blob, d) ==
    blob.under = derive_wrap_key(d, d) /\ blob.aad = build_wrap_aad(d, d)

build_message_aad_no_key_id(channel, key_id, generation) == <<channel, generation>>

build_message_aad(channel, key_id, generation) == <<channel, key_id, generation>>

build_signed_payload(channel, generation, ciphertext) == <<channel, generation, ciphertext>>

encrypt_message(body, k, channel, key_id, generation, sender, nonce) ==
    LET ciphertext == [key |-> k, nonce |-> nonce,
                       aad |-> build_message_aad(channel, key_id, generation), body |-> body]
    IN  [key_id |-> key_id, generation |-> generation, nonce |-> nonce,
         ciphertext |-> ciphertext,
         signature |-> [by |-> sender,
                        over |-> build_signed_payload(channel, generation, ciphertext)]]

verifies(fields, channel, sender) ==
    /\ fields.signature.by = sender
    /\ fields.signature.over = build_signed_payload(channel, fields.generation, fields.ciphertext)

\* decrypt_message succeeds: the signature of the claimed sender verifies and
\* the AEAD opens under key k.
decrypt_message_accepts(fields, k, channel, sender) ==
    /\ verifies(fields, channel, sender)
    /\ fields.ciphertext.key = k
    /\ fields.ciphertext.nonce = fields.nonce
    /\ fields.ciphertext.aad = build_message_aad(channel, fields.key_id, fields.generation)

-----------------------------------------------------------------------------
ChannelInit ==
    /\ keys = <<>>
    /\ blobs = {} /\ posts = {} /\ said = {}
    /\ cache = [d \in Devices |-> {}]
    /\ read = [d \in Devices |-> {}]

\* The identifier of a key is its number as well: both are fresh.
generate_channel_key(channel) ==
    /\ Len(keys) < MaxKeys
    /\ keys' = Append(keys, channel)
    /\ UNCHANGED <<blobs, cache, posts, said, read>>

wrap_key_for_device(k, d) ==
    /\ blobs' = blobs \cup {wrap_key(k, d)}
    /\ UNCHANGED <<keys, cache, posts, said, read>>

\* A device opens a blob the server handed out as its own.
unwrap_key_blob(d) ==
    /\ \E blob \in blobs :
        /\ unwrap_key_blob_opens(blob, d)
        /\ cache' = [cache EXCEPT ![d] = @ \cup {blob.key}]
    /\ UNCHANGED <<keys, blobs, posts, said, read>>

\* A sender on a device that holds the key posts.  The generation is the
\* caller's; here a sender counts it up or repeats it.
post(d, sender, k, generation, body) ==
    /\ k \in cache[d] /\ Cardinality(posts) < MaxPosts
    /\ LET fields == encrypt_message(body, k, keys[k], k, generation, sender,
                                     Cardinality(posts) + 1)
       IN  posts' = posts \cup {fields}
    /\ said' = said \cup {[channel |-> keys[k], key_id |-> k, generation |-> generation,
                           sender |-> sender, body |-> body]}
    /\ UNCHANGED <<keys, blobs, cache, read>>

\* What the server may hand out: fields taken from any of the posts.
Served ==
    {[key_id |-> p.key_id, generation |-> q.generation, nonce |-> n.nonce,
      ciphertext |-> r.ciphertext, signature |-> s.signature] : p, q, n, r, s \in posts}

decrypt_message(d, sender, k, channel) ==
    /\ k \in cache[d] /\ Cardinality(read[d]) < MaxReads
    /\ \E fields \in Served :
        /\ decrypt_message_accepts(fields, k, channel, sender)
        /\ read' = [read EXCEPT ![d] = @ \cup
              {[channel |-> channel, key_id |-> fields.key_id, generation |-> fields.generation,
                sender |-> sender, body |-> fields.ciphertext.body]}]
    /\ UNCHANGED <<keys, blobs, cache, posts, said>>

ChannelNext ==
    \/ \E channel \in Channels : generate_channel_key(channel)
    \/ \E k \in DOMAIN keys, d \in Devices : wrap_key_for_device(k, d)
    \/ \E d \in Devices : unwrap_key_blob(d)
    \/ \E d \in Devices, s \in Senders, k \in DOMAIN keys, g \in 0..1, body \in Bodies :
            post(d, s, k, g, body)
    \/ \E d \in Devices, s \in Senders, k \in DOMAIN keys, channel \in Channels :
            decrypt_message(d, s, k, channel)

ChannelSpec == ChannelInit /\ [][ChannelNext]_channel_vars

-----------------------------------------------------------------------------
\* What a device reads is what the named sender posted to that channel, under
\* the key id and the generation it is shown with, although the signature
\* covers neither the key id nor the nonce (channel.rs:380) and the server
\* combines the fields of different posts.
ReadIsSaid == \A d \in Devices : read[d] \subseteq said

\* A device reads only under channel keys that were wrapped for it: the blob
\* of another device does not open (channel.rs:175).
OnlyWrappedReaders ==
    \A d \in Devices : \A m \in read[d] : wrap_key(m.key_id, d) \in blobs

\* Channels are read by those they were opened for, and as they were written.
ReadAsPosted == ReadIsSaid /\ OnlyWrappedReaders
=============================================================================
