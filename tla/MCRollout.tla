----------------------------- MODULE MCRollout ------------------------------
(* Instances of Rollout and PodSpec for TLC. *)
EXTENDS Rollout

MCEnvKeys == <<"A", "B">>
MCPaths == {"/dev/shm", "/model"}
MCSecrets == <<"registry">>

M(engine, scheme, adapters, args, resolves) ==
    [engine |-> engine, scheme |-> scheme, cached |-> FALSE, adapters |-> adapters,
     files |-> <<>>, env |-> {"A", "B"}, args |-> args, generates |-> TRUE, pull |-> TRUE,
     resolves |-> resolves]

MCFirst == M("VLLM", "hf", FALSE, "v1", TRUE)

\* Weights in a bucket, with and without adapters.
MCBucket == [MCFirst EXCEPT !.scheme = "gs", !.cached = TRUE]
MCBuckets == {MCBucket, [MCBucket EXCEPT !.adapters = TRUE]}

\* Another engine and source, adapters, a profile that does not exist.
MCModels ==
    {MCFirst, M("VLLM", "pvc", TRUE, "v1", TRUE), M("Infinity", "hf", FALSE, "v2", FALSE)}

=============================================================================
