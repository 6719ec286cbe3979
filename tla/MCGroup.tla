------------------------------- MODULE MCGroup -------------------------------
(* Instances of Group for TLC. *)
EXTENDS Group

CONSTANTS ann, bob, cal, dee

Base ==
  [ founders |-> <<ann, bob, cal>>, online |-> {ann, bob, cal}, committers |-> {ann, bob, cal},
    block_external_join |-> FALSE, follows_relay |-> FALSE,
    max_commits |-> 4, max_reloads |-> 0, max_auths |-> 0, max_failures |-> 0 ]

MCSetups ==
  { \* a fourth member comes and goes, sessions are restored
    [Base EXCEPT !.online = {ann, bob, cal, dee}, !.committers = {ann, bob},
                 !.block_external_join = TRUE, !.max_reloads = 1],
    \* an external join, whatever order the clients work in
    [Base EXCEPT !.max_auths = 1],
    \* clients that follow the relay, a third member by Welcome or external join
    [Base EXCEPT !.founders = <<ann, bob>>, !.follows_relay = TRUE, !.max_auths = 1],
    \* the same with three members and commits that fail half-way
    [Base EXCEPT !.block_external_join = TRUE, !.follows_relay = TRUE,
                 !.committers = {ann, bob}, !.max_commits = 3, !.max_reloads = 1, !.max_failures = 1],
    \* a full tree of four leaves, one member offline
    [Base EXCEPT !.founders = <<ann, bob, cal, dee>>, !.online = {ann, cal, dee}, !.committers = {ann, cal},
                 !.block_external_join = TRUE, !.follows_relay = TRUE, !.max_commits = 5] }

(* One member removes bob, another fills the empty leaf and commits again. *)
LateSetups ==
  {[Base EXCEPT !.online = {ann, bob, cal, dee}, !.committers = {ann, cal},
                !.block_external_join = TRUE, !.follows_relay = TRUE]}
=============================================================================
