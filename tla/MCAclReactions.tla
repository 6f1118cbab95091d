-------------------------- MODULE MCAclReactions --------------------------
(* Constants of AclReactions for TLC.                                      *)
EXTENDS AclReactions

\* A file from before the block, one that has its rule and report, and one in which
\* the block has ended.
MCEntries ==
    {[action |-> "block", expired |-> FALSE, eligible |-> TRUE,
      meta |-> [rule_id |-> NoRule, reported |-> FALSE]],
     [action |-> "block", expired |-> FALSE, eligible |-> TRUE,
      meta |-> [rule_id |-> 1, reported |-> TRUE]],
     [action |-> "other", expired |-> TRUE, eligible |-> FALSE,
      meta |-> [rule_id |-> 1, reported |-> FALSE]]}
=============================================================================
