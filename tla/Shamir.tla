------------------------------- MODULE Shamir -------------------------------
(***************************************************************************)
(* Secret sharing (crypto/shamir_secret_sharing.rs) as the C interface      *)
(* offers it (aura_shamir_split, aura_shamir_reconstruct): a polynomial for *)
(* each byte, interpolation at 0 and the authentication of the result.  A   *)
(* dealer splits secrets, an application gathers shares in any order,       *)
(* twice, from several splits or damaged, and tries to reconstruct.         *)
(***************************************************************************)
EXTENDS Gf256, FiniteSets

CONSTANTS
    Secrets,      \* byte sequences
    AuthKeys,
    Random,       \* bytes the random source may return
    Thresholds, ShareCounts,  \* bounds: what callers ask for
    MaxSplits,    \* bound on splits
    MaxGathered,  \* bound on shares gathered
    MaxDamaged    \* bound on the damaged ones

-----------------------------------------------------------------------------
(* HMAC-SHA256 over the secret: equal exactly for equal key and secret. *)
Hmac(key, secret) == [key |-> key, of |-> secret]

Err(why) == [ok |-> FALSE, why |-> why]
Ok(secret) == [ok |-> TRUE, secret |-> secret]

(* The x of the i-th share. *)
split_x(i) == i

(* The shares of a split; rand[b] are the upper coefficients of byte b. *)
split(secret, share_count, rand) ==
    [i \in 1..share_count |->
        [x |-> split_x(i),
         y |-> [b \in DOMAIN secret |->
                  evaluate_polynomial(<<secret[b]>> \o rand[b], split_x(i))]]]

(* Every share leaves the C interface with the tag of the secret behind it. *)
aura_shamir_split(secret, share_count, key, rand) ==
    LET shares == split(secret, share_count, rand)
    IN [i \in DOMAIN shares |->
          [x |-> shares[i].x, y |-> shares[i].y, tag |-> Hmac(key, secret)]]

(* The conditions before interpolation: enough shares, one length, and no   *)
(* x-coordinate twice.                                                      *)
reconstruct_checked(shares, key, threshold) ==
    /\ Len(shares) >= 1 /\ Len(shares) >= threshold
    /\ \A i \in DOMAIN shares : Len(shares[i].y) = Len(shares[1].y)
    /\ \A i, j \in DOMAIN shares : shares[i].x = shares[j].x => i = j

Interpolated(shares) ==
    [b \in DOMAIN shares[1].y |->
        lagrange_interpolate([i \in DOMAIN shares |-> shares[i].x],
                             [i \in DOMAIN shares |-> shares[i].y[b]], 0)]

authenticated(secret, key, tag) == tag = Hmac(key, secret)

reconstruct(shares, tag, key, threshold) ==
    IF ~reconstruct_checked(shares, key, threshold) THEN Err("InvalidInput")
    ELSE LET secret == Interpolated(shares)
         IN IF authenticated(secret, key, tag) THEN Ok(secret)
            ELSE Err("Authentication")

(* The C interface wants one tag on all shares and passes the number of     *)
(* shares for the threshold.                                                *)
aura_shamir_reconstruct(shares, key) ==
    IF \E i \in DOMAIN shares : shares[i].tag # shares[1].tag THEN Err("InvalidInput")
    ELSE reconstruct(shares, shares[1].tag, key, Len(shares))

-----------------------------------------------------------------------------
VARIABLES
    splits,     \* the splits made: secret, threshold, key and shares
    gathered,   \* the shares in the application's hands: share, origin, intact
    outcome     \* of the last attempt, {} before it

sharing_vars == <<splits, gathered, outcome>>

SharingInit == splits = <<>> /\ gathered = <<>> /\ outcome = {}

Split(secret, threshold, share_count, key) ==
    /\ Len(splits) < MaxSplits /\ gathered = <<>>
    /\ threshold >= 2 /\ share_count >= threshold /\ Len(secret) >= 1
    /\ \E rand \in [DOMAIN secret -> [1..(threshold - 1) -> Random]] :
         splits' = Append(splits,
             [secret |-> secret, threshold |-> threshold, key |-> key,
              shares |-> aura_shamir_split(secret, share_count, key, rand)])
    /\ UNCHANGED <<gathered, outcome>>

(* A share comes in; shares of a split stay available, so it may come twice.*)
Gather(s, i) ==
    /\ Len(gathered) < MaxGathered /\ outcome = {}
    /\ gathered' = Append(gathered, [share |-> splits[s].shares[i], split |-> s, intact |-> TRUE])
    /\ UNCHANGED <<splits, outcome>>

(* A bit of a share's first byte is damaged before it comes in. *)
GatherDamaged(s, i) ==
    /\ Len(gathered) < MaxGathered /\ outcome = {}
    /\ Cardinality({j \in DOMAIN gathered : ~gathered[j].intact}) < MaxDamaged
    /\ gathered' = Append(gathered,
           [share |-> [splits[s].shares[i] EXCEPT !.y[1] = Xor(@, 1)],
            split |-> s, intact |-> FALSE])
    /\ UNCHANGED <<splits, outcome>>

Shares == [i \in DOMAIN gathered |-> gathered[i].share]

Reconstruct(key) ==
    /\ gathered # <<>> /\ outcome = {}
    /\ outcome' = {[key |-> key, answer |-> aura_shamir_reconstruct(Shares, key)]}
    /\ UNCHANGED <<splits, gathered>>

SharingNext ==
    \/ \E secret \in Secrets, threshold \in Thresholds, n \in ShareCounts, key \in AuthKeys :
         Split(secret, threshold, n, key)
    \/ \E s \in DOMAIN splits : \E i \in DOMAIN splits[s].shares :
         Gather(s, i) \/ GatherDamaged(s, i)
    \/ \E key \in AuthKeys : Reconstruct(key)

-----------------------------------------------------------------------------
(* The gathered shares are intact, distinct and enough shares of split s. *)
Quorum(s) ==
    /\ \A i \in DOMAIN gathered : gathered[i].split = s /\ gathered[i].intact
    /\ \A i, j \in DOMAIN gathered : gathered[i].share = gathered[j].share => i = j
    /\ Len(gathered) >= splits[s].threshold

(***************************************************************************)
(* Any threshold of the shares, in any order, give back the secret under    *)
(* the key of the split: tables, polynomial and interpolation agree.        *)
(***************************************************************************)
AnyQuorumReconstructs ==
    \A s \in DOMAIN splits : \A r \in outcome :
        Quorum(s) /\ r.key = splits[s].key => r.answer = Ok(splits[s].secret)

(***************************************************************************)
(* Whatever was gathered (too few shares, shares of two splits, a damaged   *)
(* one), an accepted result is the secret of every split a share came from. *)
(***************************************************************************)
NeverAnotherSecret ==
    \A r \in outcome : r.answer.ok =>
        \A i \in DOMAIN gathered : r.answer.secret = splits[gathered[i].split].secret

(***************************************************************************)
(* Reconstruction gives the secret from every quorum and never another one. *)
(***************************************************************************)
ReconstructsTheSecret == AnyQuorumReconstructs /\ NeverAnotherSecret

=============================================================================
