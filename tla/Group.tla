-------------------------------- MODULE Group --------------------------------
(***************************************************************************)
(* Group membership: the sessions of the members (protocol/group/mod.rs),  *)
(* the commits they make and process (commit.rs, membership.rs), the       *)
(* ratchet tree (tree.rs, tree_kem.rs), Welcomes (welcome.rs), and the     *)
(* relay that orders commits by its roster (api/relay.rs).                 *)
(*                                                                         *)
(* A commit is a number.  It stands for the path secrets its author drew,  *)
(* so the key pair a commit puts at node x is <<x, c>>, and the secrets of *)
(* the epoch it opens are c itself: they follow from the init secret of    *)
(* the base epoch and the fresh commit secret, and the confirmation MAC    *)
(* compares them.  A member holds the private keys in priv and is at the   *)
(* commit whose epoch it has installed.                                    *)
(***************************************************************************)
EXTENDS TreeMath, FiniteSets, SequencesExt

CONSTANTS
  Users,              \* identities
  MaxLeaves,          \* MAX_GROUP_MEMBERS
  Setups              \* the groups looked at, and their bounds

ASSUME GroupAssumption ==
  /\ MaxLeaves \in Nat \ {0}
  /\ \A s \in Setups :
       /\ ToSet(s.founders) \cup s.online \subseteq Users /\ Len(s.founders) \in 1..MaxLeaves
       /\ s.committers \subseteq s.online
       /\ s.block_external_join \in BOOLEAN /\ s.follows_relay \in BOOLEAN
       /\ {s.max_commits, s.max_reloads, s.max_auths, s.max_failures} \subseteq Nat

NoOne == "no one"     \* a blank leaf
Blank == 0            \* a node with no key
Nowhere == 0          \* a user without a group session

VARIABLES
  setup,      \* one of Setups, the same all along:
              \*   founders, the members at the start, in leaf order; online, who
              \*   does anything; committers, who commit; block_external_join of
              \*   the policy; follows_relay, clients commit and authorize only
              \*   at the relay's head; and the bounds max_commits, max_reloads
              \*   (restores), max_auths (external-join authorizations) and
              \*   max_failures (commits that fail half-way)
  commits,    \* every commit made, by number
  at,         \* at[u]: the commit u's session has installed
  draft,      \* draft[u]: the tree a failed commit has left in u's session, if any
  my_leaf,    \* my_leaf[u]: my_leaf_idx of u's session
  priv,       \* priv[u]: the private keys in u's tree
  reinit,     \* reinit[u]: pending_reinit of u's session
  joined,     \* joined[u]: the commit u entered the group with (history)
  auths,      \* external-join authorizations handed out
  roster,     \* the relay's GroupRoster: members by leaf
  log,        \* the commits the relay accepted, in order
  reloads,    \* number of restores so far
  failures    \* number of commits that failed half-way

vars == <<setup, commits, at, draft, my_leaf, priv, reinit, joined, auths, roster, log,
          reloads, failures>>

-----------------------------------------------------------------------------
(* The ratchet tree *)

path(leaf, n) == direct_path(leaf, n)

(* Paths of every tree within the bound, computed once. *)
Paths == [n \in 1..MaxLeaves |-> [l \in 0..n - 1 |-> path(l, n)]]
Copaths == [n \in 1..MaxLeaves |-> [l \in 0..n - 1 |-> copath(l, n)]]
PathSet(l, n) == ToSet(Paths[n][l])

populated(t) == {l \in 0..t.n - 1 : t.leaves[l] # NoOne}
members(t) == {t.leaves[l] : l \in populated(t)}

RECURSIVE resolution(_, _)
resolution(t, x) ==
  IF x >= node_count(t.n) THEN {}
  ELSE IF t.key[x] # Blank THEN {x}
  ELSE IF is_leaf(x) THEN {}
  ELSE resolution(t, left(x)) \cup resolution(t, right(x, t.n))

next_leaf_index(t) ==
  LET blank == {l \in 0..t.n - 1 : t.leaves[l] = NoOne}
  IN  IF blank = {} THEN t.n ELSE CHOOSE l \in blank : \A k \in blank : l <= k

(* A blank slot is filled with nothing else touched; an appended leaf       *)
(* brings blank parents.                                                    *)
add_leaf(t, u, c) ==
  LET l == next_leaf_index(t)
      n == IF l = t.n THEN t.n + 1 ELSE t.n
  IN  [n |-> n,
       leaves |-> [k \in 0..n - 1 |-> IF k = l THEN u ELSE t.leaves[k]],
       key |-> [x \in 0..node_count(n) - 1 |->
                  IF x = leaf_to_node(l) THEN c
                  ELSE IF x \in DOMAIN t.key THEN t.key[x] ELSE Blank]]

(* Defect: only the leaf is blanked. *)
blank_leaf_only(t, l) ==
  [n |-> t.n,
   leaves |-> [t.leaves EXCEPT ![l] = NoOne],
   key |-> [t.key EXCEPT ![leaf_to_node(l)] = Blank]]

blank_leaf(t, l) ==
  [n |-> t.n,
   leaves |-> [t.leaves EXCEPT ![l] = NoOne],
   key |-> [x \in DOMAIN t.key |->
              IF x = leaf_to_node(l) \/ x \in PathSet(l, t.n) THEN Blank ELSE t.key[x]]]

-----------------------------------------------------------------------------
(* Commits.  A proposal list of this code is one Remove (a leaf), one Add  *)
(* (a user), one ReInit, one ExternalInit with its Add, or empty.          *)

NoProposal == [add |-> {}, remove |-> {}, reinit |-> FALSE, auth |-> {}]
Adding(u) == [NoProposal EXCEPT !.add = {u}]
Removing(l) == [NoProposal EXCEPT !.remove = {l}]
ReIniting == [NoProposal EXCEPT !.reinit = TRUE]
Joining(u, a) == [NoProposal EXCEPT !.add = {u}, !.auth = {a}]

validate_proposals(t, p, committer) ==
  /\ p.add \cap members(t) = {}
  /\ p.add # {} => Cardinality(members(t)) < MaxLeaves
  /\ p.remove \subseteq populated(t) \ {committer}

(* Removes first, then adds. *)
apply_proposals(t, p, c) ==
  LET t1 == IF p.remove = {} THEN t ELSE blank_leaf(t, CHOOSE l \in p.remove : TRUE)
  IN  IF p.add = {} THEN t1 ELSE add_leaf(t1, CHOOSE u \in p.add : TRUE, c)

(* The update path: fresh keys at the committer's leaf and direct path. *)
with_path(t, leaf, c) ==
  [t EXCEPT !.key = [x \in DOMAIN t.key |->
     IF x = leaf_to_node(leaf) \/ x \in PathSet(leaf, t.n) THEN c ELSE t.key[x]]]

(* Defect: only the first node of the resolution gets the secret. *)
recipients_first(t, leaf, i) ==
  LET r == resolution(t, Copaths[t.n][leaf][i])
  IN  {x \in r : \A y \in r : x <= y}

(* The nodes of a level of the update path that its secret is encrypted to. *)
recipients(t, leaf, i) == resolution(t, Copaths[t.n][leaf][i])

mine(t, l) == {leaf_to_node(l)} \cup PathSet(l, t.n)

(* The level at which member l finds itself in a copath resolution. *)
ancestor_levels(t, committer, l) ==
  {i \in DOMAIN Paths[t.n][committer] : recipients(t, committer, i) \cap mine(t, l) # {}}

(* The level's secret can be opened: the member is under the node it was    *)
(* encrypted to and has that node's private key.                            *)
opens_path(t, committer, l, keys) ==
  \E i \in ancestor_levels(t, committer, l) :
    \E x \in recipients(t, committer, i) \cap mine(t, l) : <<x, t.key[x]>> \in keys

(* Private keys derived from the path secret: the part of the committer's   *)
(* path that is also the member's.                                          *)
derived(t, committer, l, c) ==
  {<<x, c>> : x \in PathSet(committer, t.n) \cap PathSet(l, t.n)}

still_valid(t, keys) == {k \in keys : k[1] \in DOMAIN t.key /\ t.key[k[1]] = k[2]}

(* create_commit: the author's tree with its proposals and fresh keys, which *)
(* carry the number c.                                                       *)
committed_tree(t, p, leaf, c) == with_path(apply_proposals(t, p, c), leaf, c)

author_keys(t, leaf, keys, c) ==
  still_valid(t, keys)
    \cup {<<x, c>> : x \in PathSet(leaf, t.n) \cup {leaf_to_node(leaf)}}

(* export_for_welcome: the private keys of inner nodes on the new member's  *)
(* direct path that the author has.                                         *)
export_for_welcome(t, leaf, keys) == {k \in keys : k[1] \in PathSet(leaf, t.n)}

(* create_welcome: the private keys that go with the tree to the new leaf.  *)
create_welcome(t, added, keys) == UNION {export_for_welcome(t, a, keys) : a \in added}

commit(u, l, base, p, t, keys) ==
  LET c == Len(commits) + 1
      t2 == committed_tree(t, p, l, c)
      added == IF p.add = {} THEN {} ELSE {next_leaf_index(t)}
  IN  [by |-> u, leaf |-> l, base |-> base, epoch |-> commits[base].epoch + 1,
       props |-> p, added |-> added, tree |-> t2, drafted |-> t # commits[base].tree,
       gift |-> create_welcome(t2, added, author_keys(t2, l, keys, c))]

(* inner.tree: that of the epoch, unless a failed commit has changed it. *)
tree(u) == IF draft[u] = {} THEN commits[at[u]].tree ELSE CHOOSE t \in draft[u] : TRUE
epoch(u) == commits[at[u]].epoch

-----------------------------------------------------------------------------
(* The group at the start: the first founder created it and added the       *)
(* others one by one, and everyone has processed everything; one founder is *)
(* create().                                                                *)

FoundingTree ==
  LET k == Len(setup.founders)
  IN  [n |-> k, leaves |-> [l \in 0..k - 1 |-> setup.founders[l + 1]],
       key |-> [x \in 0..node_count(k) - 1 |->
                  IF is_leaf(x) \/ x \in ToSet(path(0, k)) THEN 1 ELSE Blank]]

Founding ==
  [by |-> setup.founders[1], leaf |-> 0, base |-> 0, epoch |-> Len(setup.founders) - 1,
   props |-> NoProposal, added |-> {}, tree |-> FoundingTree, drafted |-> FALSE, gift |-> {}]

founder_leaf(u) == CHOOSE l \in 0..Len(setup.founders) - 1 : setup.founders[l + 1] = u

Init ==
  /\ setup \in Setups
  /\ commits = <<Founding>>
  /\ at = [u \in Users |-> IF u \in ToSet(setup.founders) THEN 1 ELSE Nowhere]
  /\ draft = [u \in Users |-> {}]
  /\ my_leaf = [u \in Users |-> IF u \in ToSet(setup.founders) THEN founder_leaf(u) ELSE 0]
  /\ priv = [u \in Users |->
       IF u \in ToSet(setup.founders)
       THEN {<<x, 1>> : x \in {leaf_to_node(founder_leaf(u))} \cup
              (ToSet(path(0, Len(setup.founders)))
                 \cap ToSet(path(founder_leaf(u), Len(setup.founders))))}
       ELSE {}]
  /\ reinit = [u \in Users |-> FALSE]
  /\ joined = [u \in Users |-> IF u \in ToSet(setup.founders) THEN 1 ELSE Nowhere]
  /\ auths = {}
  /\ roster = [l \in 0..Len(setup.founders) - 1 |-> setup.founders[l + 1]]
  /\ log = <<1>>
  /\ reloads = 0
  /\ failures = 0

-----------------------------------------------------------------------------
(* Operations of a member *)

(* ensure_no_pending_reinit on a session that exists. *)
writable(u) == at[u] # Nowhere /\ ~reinit[u]

(* The discipline of the client program, not of the code modelled. *)
at_head(u) == setup.follows_relay => at[u] = Last(log)

may_commit(u) == u \in setup.committers /\ writable(u) /\ at_head(u) /\ Len(commits) < setup.max_commits

(* create_commit and what each caller does with its output: the author      *)
(* installs the new epoch at once and hands the commit out.                 *)
make_commit(u, p) ==
  LET c == Len(commits) + 1
      cm == commit(u, my_leaf[u], at[u], p, tree(u), priv[u])
  IN  /\ may_commit(u)
      /\ validate_proposals(tree(u), p, my_leaf[u])
      /\ commits' = Append(commits, cm)
      /\ at' = [at EXCEPT ![u] = c]
      /\ draft' = [draft EXCEPT ![u] = {}]
      /\ priv' = [priv EXCEPT ![u] = author_keys(cm.tree, my_leaf[u], @, c)]
      /\ UNCHANGED <<my_leaf, joined, auths, roster, log, reloads, failures>>

(* create_commit works on the session's own tree.  When it, or the Welcome   *)
(* after it, fails for want of memory or randomness, the call returns an     *)
(* error and the session stays in its epoch with the tree as it was left:    *)
(* with the proposals applied, or with fresh keys on the path as well.       *)
commit_fails(u, p) ==
  LET c == -(failures + 1)
      applied == apply_proposals(tree(u), p, c)
      keyed == with_path(applied, my_leaf[u], c)
  IN  /\ may_commit(u) /\ failures < setup.max_failures
      /\ validate_proposals(tree(u), p, my_leaf[u])
      /\ \/ /\ draft' = [draft EXCEPT ![u] = {applied}]
            /\ priv' = [priv EXCEPT ![u] = still_valid(applied, @)]
         \/ /\ draft' = [draft EXCEPT ![u] = {keyed}]
            /\ priv' = [priv EXCEPT ![u] = author_keys(keyed, my_leaf[u], @, c)]
      /\ failures' = failures + 1
      /\ UNCHANGED <<commits, at, my_leaf, reinit, joined, auths, roster, log, reloads>>

add_member(u, v) == make_commit(u, Adding(v)) /\ UNCHANGED reinit

remove_member(u, l) == make_commit(u, Removing(l)) /\ UNCHANGED reinit

update(u) == make_commit(u, NoProposal) /\ UNCHANGED reinit

create_reinit_commit(u) ==
  make_commit(u, ReIniting) /\ reinit' = [reinit EXCEPT ![u] = TRUE]

authorize_external_join(u, v) ==
  /\ writable(u) /\ at_head(u) /\ ~setup.block_external_join
  /\ v \notin members(tree(u)) /\ Cardinality(auths) < setup.max_auths
  /\ auths' = auths \cup {[base |-> at[u], authorizer |-> my_leaf[u], joiner |-> v]}
  /\ UNCHANGED <<commits, at, draft, my_leaf, priv, reinit, joined, roster, log, reloads,
                 failures>>

(* The authorization names a member of the tree and this joiner. *)
authorization_fits(a, v, t) ==
  a.joiner = v /\ t.leaves[a.authorizer] # NoOne /\ ~setup.block_external_join

(* The joiner builds the next epoch from the public state the authorization *)
(* names and installs it at once.  Its session may be its first, or replace *)
(* one it lost.                                                             *)
from_external_join(v, a) ==
  LET t == commits[a.base].tree
      l == next_leaf_index(t)
      c == Len(commits) + 1
      cm == commit(v, l, a.base, Joining(v, a), t, {})
  IN  /\ at[v] = Nowhere
      /\ authorization_fits(a, v, t)
      /\ Len(commits) < setup.max_commits
      /\ validate_proposals(t, Joining(v, a), l)
      /\ commits' = Append(commits, cm)
      /\ at' = [at EXCEPT ![v] = c]
      /\ my_leaf' = [my_leaf EXCEPT ![v] = l]
      /\ priv' = [priv EXCEPT ![v] = author_keys(cm.tree, l, {}, c)]
      /\ joined' = [joined EXCEPT ![v] = c]
      /\ reinit' = [reinit EXCEPT ![v] = FALSE]
      /\ UNCHANGED <<draft, auths, roster, log, reloads, failures>>

(* What a member checks of an external join: the authorization is for its   *)
(* own epoch and context and signed by a leaf of its tree.                  *)
external_authorized(u, cm) ==
  /\ ~setup.block_external_join
  /\ \A a \in cm.props.auth :
       /\ a.base = at[u] /\ a.joiner = cm.by
       /\ a.authorizer \in populated(tree(u))

committer_known(u, cm) ==
  IF cm.props.auth = {} THEN cm.leaf < tree(u).n /\ tree(u).leaves[cm.leaf] = cm.by
  ELSE external_authorized(u, cm) /\ cm.props.add = {cm.by}

(* The epoch secrets follow from the init secret of the base epoch, the     *)
(* commit secret and the tree hash: the confirmation MAC of another base, or *)
(* of another tree, does not verify.                                        *)
confirmed(u, cm, t) == cm.base = at[u] /\ cm.tree = t

(* commit::process_commit on the candidate tree: everything before the      *)
(* confirmation MAC that can refuse an honest commit, and the MAC.          *)
accepts_commit(u, c) ==
  LET cm == commits[c]
      t == apply_proposals(tree(u), cm.props, c)
  IN  /\ writable(u)
      /\ cm.epoch = epoch(u) + 1
      /\ committer_known(u, cm)
      /\ validate_proposals(tree(u), cm.props, cm.leaf)
      /\ cm.leaf \in populated(t) /\ t.leaves[cm.leaf] = cm.by
      /\ my_leaf[u] < t.n
      /\ opens_path(t, cm.leaf, my_leaf[u], priv[u])
      /\ confirmed(u, cm, with_path(t, cm.leaf, c))

reinit_after(u, cm) == cm.props.reinit

process_commit(u, c) ==
  LET cm == commits[c]
      t == committed_tree(tree(u), cm.props, cm.leaf, c)
  IN  /\ c \in ToSet(log)
      /\ accepts_commit(u, c)
      /\ at' = [at EXCEPT ![u] = c]
      /\ draft' = [draft EXCEPT ![u] = {}]
      /\ priv' = [priv EXCEPT ![u] =
           still_valid(t, @) \cup derived(t, cm.leaf, my_leaf[u], c)]
      /\ reinit' = [reinit EXCEPT ![u] = reinit_after(u, cm)]
      /\ UNCHANGED <<commits, my_leaf, joined, auths, roster, log, reloads, failures>>

(* process_welcome: the private keys in the Welcome's tree, and the private *)
(* key of the member's own key package.                                     *)
process_welcome(c) ==
  commits[c].gift \cup {<<leaf_to_node(l), c>> : l \in commits[c].added}

from_welcome(v, c) ==
  LET cm == commits[c]
  IN  /\ c \in ToSet(log) /\ cm.props.auth = {} /\ v \in cm.props.add
      /\ at[v] # Nowhere => epoch(v) < cm.epoch
      /\ at' = [at EXCEPT ![v] = c]
      /\ draft' = [draft EXCEPT ![v] = {}]
      /\ my_leaf' = [my_leaf EXCEPT ![v] = CHOOSE l \in cm.added : TRUE]
      /\ priv' = [priv EXCEPT ![v] = process_welcome(c)]
      /\ joined' = [joined EXCEPT ![v] = c]
      /\ reinit' = [reinit EXCEPT ![v] = FALSE]
      /\ UNCHANGED <<commits, auths, roster, log, reloads, failures>>

(* What the sealed state holds of it: the epoch, the leaf and the tree with *)
(* its private keys.  pending_reinit is not among it.                       *)
export_sealed_state(u) ==
  [at |-> at[u], draft |-> draft[u], leaf |-> my_leaf[u], keys |-> priv[u]]

from_sealed_state(u, s) ==
  /\ at' = [at EXCEPT ![u] = s.at]
  /\ draft' = [draft EXCEPT ![u] = s.draft]
  /\ my_leaf' = [my_leaf EXCEPT ![u] = s.leaf]
  /\ priv' = [priv EXCEPT ![u] = s.keys]
  /\ reinit' = [reinit EXCEPT ![u] = FALSE]

reload(u) ==
  /\ at[u] # Nowhere /\ reloads < setup.max_reloads
  /\ from_sealed_state(u, export_sealed_state(u))
  /\ reloads' = reloads + 1
  /\ UNCHANGED <<commits, joined, auths, roster, log, failures>>

(* A user drops its session, for instance after being removed. *)
destroy(u) ==
  /\ at[u] # Nowhere /\ u \notin members(commits[Last(log)].tree)
  /\ at' = [at EXCEPT ![u] = Nowhere]
  /\ draft' = [draft EXCEPT ![u] = {}]
  /\ priv' = [priv EXCEPT ![u] = {}]
  /\ my_leaf' = [my_leaf EXCEPT ![u] = 0]
  /\ joined' = [joined EXCEPT ![u] = Nowhere]
  /\ reinit' = [reinit EXCEPT ![u] = FALSE]
  /\ UNCHANGED <<commits, auths, roster, log, reloads, failures>>

-----------------------------------------------------------------------------
(* The relay *)

is_member(l, u) == l \in DOMAIN roster /\ roster[l] = u

(* The authorization is for the relay's epoch, by a member it knows. *)
external_join_for_relay(cm) ==
  \A a \in cm.props.auth :
    /\ commits[a.base].epoch = commits[Last(log)].epoch
    /\ is_member(a.authorizer, commits[a.base].tree.leaves[a.authorizer])

relay_sender_identity(cm) ==
  IF cm.props.auth = {} THEN is_member(cm.leaf, cm.by)
  ELSE cm.leaf \notin DOMAIN roster /\ external_join_for_relay(cm)

validate_commit_for_relay(cm) ==
  /\ cm.epoch = commits[Last(log)].epoch + 1
  /\ relay_sender_identity(cm)
  /\ cm.props.remove \subseteq DOMAIN roster \ {cm.leaf}

(* Defect: removed members stay in the roster. *)
updated_roster_adds_only(cm) ==
  [l \in DOMAIN roster \cup cm.added |-> IF l \in cm.added THEN cm.tree.leaves[l] ELSE roster[l]]

updated_roster(cm) ==
  LET kept == DOMAIN roster \ cm.props.remove
  IN  [l \in kept \cup cm.added |-> IF l \in cm.added THEN cm.tree.leaves[l] ELSE roster[l]]

(* apply_commit_to_roster_tentative: the record of an added member comes    *)
(* with its Welcome's target leaf, and neither leaf nor identity may be     *)
(* taken.                                                                   *)
apply_commit_to_roster(cm) ==
  LET kept == DOMAIN roster \ cm.props.remove
  IN  /\ cm.added \cap kept = {}
      /\ cm.props.add \cap {roster[l] : l \in kept} = {}
      /\ Cardinality(kept) + Cardinality(cm.props.add) <= MaxLeaves
      /\ roster' = updated_roster(cm)

relay_commit(c) ==
  /\ c \notin ToSet(log)
  /\ validate_commit_for_relay(commits[c])
  /\ apply_commit_to_roster(commits[c])
  /\ log' = Append(log, c)
  /\ UNCHANGED <<commits, at, draft, my_leaf, priv, reinit, joined, auths, reloads, failures>>

Step ==
  \/ \E u, v \in setup.online : add_member(u, v)
  \/ \E u \in setup.online, l \in 0..MaxLeaves - 1 : remove_member(u, l)
  \/ \E u \in setup.online : update(u)
  \/ \E u \in setup.online : create_reinit_commit(u)
  \/ \E u, v \in setup.online : commit_fails(u, Adding(v))
  \/ \E u \in setup.online, l \in 0..MaxLeaves - 1 : commit_fails(u, Removing(l))
  \/ \E u \in setup.online : commit_fails(u, NoProposal)
  \/ \E u, v \in setup.online : authorize_external_join(u, v)
  \/ \E v \in setup.online : \E a \in auths : from_external_join(v, a)
  \/ \E u \in setup.online, c \in DOMAIN commits : process_commit(u, c)
  \/ \E v \in setup.online, c \in DOMAIN commits : from_welcome(v, c)
  \/ \E u \in setup.online : reload(u)
  \/ \E u \in setup.online : destroy(u)
  \/ \E c \in DOMAIN commits : relay_commit(c)

Next == Step /\ UNCHANGED setup

Spec == Init /\ [][Next]_vars

-----------------------------------------------------------------------------
(* Properties *)

Keys == (0..2 * MaxLeaves - 2) \X (1..setup.max_commits)

(* A private key of a node that is live in a commit's tree is held only by  *)
(* members of that tree: removing a member (blank_leaf over its whole       *)
(* direct path) leaves it no key a later path secret is encrypted to, on    *)
(* every branch and in every order of processing.                           *)
KeysStayInside ==
  \A c \in DOMAIN commits : \A u \in Users \ members(commits[c].tree) :
    still_valid(commits[c].tree, priv[u]) = {}

(* A member has the private key of every node above its leaf whose key was  *)
(* drawn since it joined, so it can open every path secret encrypted there  *)
(* by process_update_path.                                                  *)
KeysSinceJoin ==
  \A u \in Users : at[u] # Nowhere =>
    \A x \in PathSet(my_leaf[u], tree(u).n) :
      tree(u).key[x] # Blank /\ tree(u).key[x] >= joined[u]
        => <<x, tree(u).key[x]>> \in priv[u]

(* Private keys follow the tree: nobody outside holds a live one, and those *)
(* inside hold all they were sent since they joined.                        *)
KeysFollowTree == KeysStayInside /\ KeysSinceJoin

(* Members of the tree of a commit at its base, but for its author. *)
awaits(u, c) ==
  /\ at[u] # Nowhere /\ at[u] = commits[c].base
  /\ writable(u) /\ u \in members(commits[c].tree) \ {commits[c].by}

(* The path secret u needs is encrypted to a node above its leaf that got its *)
(* key before u joined and that the member which added u had no private key   *)
(* of, so that export_for_welcome could not pass it on.                       *)
below_older_key(u, c) ==
  LET t == apply_proposals(tree(u), commits[c].props, c)
  IN  \E i \in ancestor_levels(t, commits[c].leaf, my_leaf[u]) :
        \E x \in recipients(t, commits[c].leaf, i) \cap mine(t, my_leaf[u]) :
          ~is_leaf(x) /\ t.key[x] < joined[u] /\ <<x, t.key[x]>> \notin priv[u]

(* A failed commit has left the author or u with a tree of its own. *)
out_of_step(u, c) == commits[c].drafted \/ draft[u] # {}

(* A member at the base of another one's commit that is still a member after *)
(* it can process it: the co-path resolutions of the update path cover all   *)
(* members.                                                                  *)
MembersKeepUp ==
  \A c \in DOMAIN commits : \A u \in Users :
    awaits(u, c) /\ ~out_of_step(u, c) => accepts_commit(u, c)

(* The same, but for a member below a key that is older than its membership:  *)
(* the only case in which a resolution misses anybody.                        *)
ResolutionCoversMembers ==
  \A c \in DOMAIN commits : \A u \in Users :
    awaits(u, c) /\ ~out_of_step(u, c) /\ ~below_older_key(u, c) => accepts_commit(u, c)

(* What the relay accepts is one history, commit upon commit, when clients  *)
(* commit on the relay's head, although two of them may do so at once.      *)
LogIsOneHistory ==
  setup.follows_relay => \A i \in 2..Len(log) : commits[log[i]].base = log[i - 1]

(* The roster the relay keeps from public commits alone is then the         *)
(* membership and the leaf assignment of the tree at the head of its log,   *)
(* unless a commit on the way was built on what a failed one had left.      *)
RosterIsMembership ==
  setup.follows_relay /\ (\A i \in DOMAIN log : ~commits[log[i]].drafted) =>
    LET t == commits[Last(log)].tree
    IN  /\ DOMAIN roster = populated(t)
        /\ \A l \in DOMAIN roster : roster[l] = t.leaves[l]

(* The relay's view of a group, log and roster, is the clients' history.    *)
RelayFollowsGroup == LogIsOneHistory /\ RosterIsMembership
=============================================================================
