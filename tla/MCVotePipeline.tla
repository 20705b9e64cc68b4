--------------------------- MODULE MCVotePipeline ---------------------------
(* Small instances of VotePipeline for TLC. *)
EXTENDS VotePipeline, TLC

\* Every way a call of the vote's own path can go wrong, and crashes, but
\* repeated Kafka writes: they have a run of their own and only lengthen the
\* topic here.
AllFaults ==
  {"kafka", "redis", "mongo"} \X {"error", "late"}
    \cup {<<"redis", "dup">>, <<"session", "error">>, <<"process", "crash">>}

NoFaults == {}
RepeatsAndCuts == {<<"kafka", "dup">>, <<"cursor", "error">>}
MongoDown == {<<"mongo", "error">>}

OneSelection == {[v \in VoteIDs |-> <<0>>]}

\* One of the votes names an option twice, or one that the question has not.
VariedSelections ==
  LET first == CHOOSE v \in VoteIDs : TRUE
  IN {[v \in VoteIDs |-> IF v = first THEN <<0>> ELSE s] :
        s \in {<<1, 1>>, <<0, 2>>}}

Symmetry == Permutations(Instances) \cup Permutations(VoteIDs)
=============================================================================
