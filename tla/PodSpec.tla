------------------------------ MODULE PodSpec -------------------------------
(***************************************************************************)
(* The Pod the model controller builds for a Model: the four engines       *)
(* (internal/modelcontroller/engine_*.go), the additions of the source of  *)
(* the weights (model_source.go), and the patches for files, adapters and  *)
(* cache.  Pure operators; Rollout uses them to tell Pods that are up to   *)
(* date from Pods that are not.                                            *)
(*                                                                         *)
(* Of a Pod the model keeps what differs from Model to Model and is not a  *)
(* mere copy of a field: where the server is told to find the weights,     *)
(* environment names in their order, volumes, mounts, pull secrets and the *)
(* command of the startup probe.  Probes, resources and security contexts  *)
(* are the same for all Models of a profile and are left out.              *)
(***************************************************************************)
EXTENDS Integers, Sequences, FiniteSets, Functions

CONSTANTS
    EnvKeys,      \* the names users set in Spec.Env, in alphabetical order
    UserPaths,    \* where users put files: any absolute path will do
    PullSecrets,  \* ModelServerPods.ImagePullSecrets
    Patches       \* ModelServerPods.JSONPatches

ASSUME PodSpecAssumption ==
    EnvKeys \in Seq(Range(EnvKeys)) /\ IsInjective(EnvKeys) /\ IsFiniteSet(UserPaths)

Engines == {"VLLM", "OLlama", "Infinity", "FasterWhisper"}
Schemes == {"hf", "s3", "gs", "oss", "pvc", "oci", "ollama"}

\* The orders a Go map may be iterated in, or a user may name things in.
Iterations(keys) == {s \in [1..Cardinality(keys) -> keys] : IsInjective(s)}

\* Files are listed in any order, each path once.
FileLists == UNION {Iterations(paths) : paths \in SUBSET UserPaths}

\* ModelSpec.  The contents of files and the adapters' names are no part of
\* the Pod: files are their paths, adapters whether there is a list of them.
\* resolves: resource profile, image and patches can be resolved for the Model.
Model == [engine : Engines, scheme : Schemes, cached : BOOLEAN, adapters : BOOLEAN,
          files : FileLists, env : SUBSET Range(EnvKeys), args : {"v1", "v2"},
          generates : BOOLEAN, pull : BOOLEAN, resolves : BOOLEAN]

\* The validation rules of the Model resource.
Admitted(m) ==
    /\ m.cached => m.scheme \in {"hf", "s3", "gs", "oss"}
    /\ m.scheme \in {"gs", "oss"} => m.cached
    /\ m.adapters => m.engine = "VLLM"

\* The rules for a change: with a cache profile the URL stays.  The profile may
\* be set or removed: "self == oldSelf" on an optional field is a rule for two
\* values that are there.
AdmittedChange(old, new) ==
    /\ Admitted(new)
    /\ old.cached => new.scheme = old.scheme

\* getModelConfig and applyJSONPatchToPod return no error.
Resolves(m) == m.resolves

-----------------------------------------------------------------------------
(* model_source.go *)

Mount(volume, path) == [volume |-> volume, path |-> path]

Additions(env, volumes, mounts, secrets) ==
    [env |-> env, volumes |-> volumes, mounts |-> mounts, pullSecrets |-> secrets]

authForS3 == Additions(<<"AWS_ACCESS_KEY_ID", "AWS_SECRET_ACCESS_KEY">>, <<>>, <<>>, <<>>)
authForHuggingfaceHub == Additions(<<"HF_TOKEN">>, <<>>, <<>>, <<>>)
authForOSS == Additions(<<"OSS_ACCESS_KEY_ID", "OSS_ACCESS_KEY_SECRET">>, <<>>, <<>>, <<>>)
authForGCS ==
    Additions(<<"GOOGLE_APPLICATION_CREDENTIALS">>, <<"gcp-credentials">>,
              <<Mount("gcp-credentials", "/secrets/gcp-credentials")>>, <<>>)
pvcPodAdditions == Additions(<<>>, <<"model">>, <<Mount("model", "/model")>>, <<>>)
ociPodAdditions == Additions(<<>>, <<"model">>, <<Mount("model", "/model")>>, <<"oci">>)

\* parseModelSource
SourceAdditions(m) ==
    CASE m.scheme = "gs"  -> authForGCS
      [] m.scheme = "oss" -> authForOSS
      [] m.scheme = "s3"  -> authForS3
      [] m.scheme = "hf"  -> authForHuggingfaceHub
      [] m.scheme = "pvc" -> pvcPodAdditions
      [] m.scheme = "oci" -> ociPodAdditions
      [] OTHER            -> Additions(<<>>, <<>>, <<>>, <<>>)

\* modelSourcePodAdditions.append
Joined(a, b) ==
    Additions(a.env \o b.env, a.volumes \o b.volumes, a.mounts \o b.mounts,
              a.pullSecrets \o b.pullSecrets)

modelAuthCredentialsForAllSources ==
    Joined(Joined(Joined(authForHuggingfaceHub, authForGCS), authForOSS), authForS3)

\* A Pod to which these are appended, at the container with index i.
Extended(pod, i, a) ==
    [containers |->
        [pod.containers EXCEPT ![i] =
            [name |-> @.name, load |-> @.load, args |-> @.args, env |-> @.env \o a.env,
             mounts |-> @.mounts \o a.mounts, startup |-> @.startup]],
     volumes |-> pod.volumes \o a.volumes, pullSecrets |-> pod.pullSecrets \o a.pullSecrets,
     patches |-> pod.patches]

\* Mutated form of applyToPodSpec: the volumes are forgotten.
applyMountsToPodSpec(pod, a, i) ==
    Extended(pod, i, Additions(a.env, <<>>, a.mounts, a.pullSecrets))

applyToPodSpec(pod, a, i) == Extended(pod, i, a)

-----------------------------------------------------------------------------
(* Patches.  Container 1 is the server. *)

Sorted(keys) == SelectSeq(EnvKeys, LAMBDA k : k \in keys)

\* Mutated form of EnvOf: in the order the map is iterated in.
EnvUnsorted(order) == order

\* The names of Spec.Env, collected from a Go map in any order, and sorted.
EnvOf(order) == Sorted(Range(order))

\* A volume that is mounted at a path, and nothing else.
Mounted(volume, path) == Additions(<<>>, <<volume>>, <<Mount(volume, path)>>, <<>>)

patchFileVolumes(pod, m) ==
    LET mounts == [j \in DOMAIN m.files |-> Mount("model-files", m.files[j])]
    IN  IF m.files = <<>> THEN pod
        ELSE Extended(pod, 1, Additions(<<>>, <<"model-files">>, mounts, <<>>))

WithContainer(pod, container) ==
    [containers |-> Append(pod.containers, container), volumes |-> pod.volumes,
     pullSecrets |-> pod.pullSecrets, patches |-> pod.patches]

patchServerAdapterLoader(pod, m, order) ==
    LET loader == [name |-> "loader", load |-> "nothing", args |-> <<>>, env |-> EnvOf(order),
                   mounts |-> <<Mount("adapters", "/adapters")>>, startup |-> <<>>]
        patched == WithContainer(Extended(pod, 1, Mounted("adapters", "/adapters")), loader)
    IN  IF ~m.adapters THEN pod
        ELSE applyToPodSpec(patched, modelAuthCredentialsForAllSources, 2)

patchServerCacheVolumes(pod, m) ==
    IF ~m.cached THEN pod ELSE Extended(pod, 1, Mounted("models", "cacheDir"))

-----------------------------------------------------------------------------
(* The engines.  load: the place the server is told to load the model from,  *)
(* "ref" and "url" being the reference in the URL and the URL itself.        *)

\* The Pod all engines start from, and what all of them do to it at the end.
BasePod(load, args, env, startup) ==
    [containers |-> << [name |-> "server", load |-> load, args |-> args, env |-> env,
                        mounts |-> <<Mount("dshm", "/dev/shm")>>, startup |-> startup] >>,
     volumes |-> <<"dshm">>, pullSecrets |-> PullSecrets, patches |-> {}]

Finished(pod, m) == applyToPodSpec(patchServerCacheVolumes(pod, m), SourceAdditions(m), 1)

\* Mutated form of vLLMModelFlag: images are not thought of.
vLLMModelFlagNoOCI(m) ==
    IF m.scheme = "pvc" THEN "/model"
    ELSE IF m.cached THEN "cacheDir"
    ELSE IF m.scheme = "s3" THEN "url" ELSE "ref"

vLLMModelFlag(m) ==
    IF m.scheme \in {"pvc", "oci"} THEN "/model"
    ELSE IF m.cached THEN "cacheDir"
    ELSE IF m.scheme = "s3" THEN "url" ELSE "ref"

vLLMPodForModel(m, order) ==
    LET streamer == IF ~m.cached /\ m.scheme = "s3" THEN <<"runai_streamer">> ELSE <<>>
        lora     == IF m.adapters THEN <<"enable-lora">> ELSE <<>>
        loraEnv  == IF m.adapters THEN <<"VLLM_ALLOW_RUNTIME_LORA_UPDATING">> ELSE <<>>
        pod == BasePod(vLLMModelFlag(m), streamer \o <<m.args>> \o lora,
                       loraEnv \o EnvOf(order), <<"/health">>)
    IN  Finished(patchServerAdapterLoader(patchFileVolumes(pod, m), m, order), m)

\* One word per argument of the command.
ollamaStartupProbeScript(m) ==
    LET copy == <<"ollama", "cp", IF m.scheme = "pvc" THEN "param" ELSE "ref", "name">>
    IN  (IF m.scheme # "pvc" /\ m.pull THEN <<"ollama", "pull", "ref", "&&">> \o copy ELSE copy)
        \o (IF m.generates THEN <<"&&", "ollama", "run", "name", "hi">> ELSE <<>>)

oLlamaPodForModel(m, order) ==
    LET models == IF m.scheme = "pvc" THEN <<"OLLAMA_MODELS">> ELSE <<>>
        pod == BasePod("ref", <<m.args>>,
                       <<"OLLAMA_HOST", "OLLAMA_KEEP_ALIVE">> \o models \o EnvOf(order),
                       <<"bash", "-c">> \o ollamaStartupProbeScript(m))
    IN  Finished(patchFileVolumes(pod, m), m)

infinityPodForModel(m, order) ==
    LET pod == BasePod(IF m.cached THEN "cacheDir" ELSE "ref", <<"v2", m.args>>,
                       <<"INFINITY_MODEL_ID", "INFINITY_SERVED_MODEL_NAME", "INFINITY_URL_PREFIX",
                         "INFINITY_ENGINE", "INFINITY_PORT">> \o EnvOf(order), <<"/health">>)
    IN  Finished(patchFileVolumes(pod, m), m)

fasterWhisperPodForModel(m, order) ==
    LET pod == BasePod(IF m.cached THEN "cacheDir" ELSE "ref", <<m.args>>,
                       <<"WHISPER__MODEL", "ENABLE_UI">> \o EnvOf(order), <<"/health">>)
    IN  Finished(patchFileVolumes(pod, m), m)

\* The Pod of calculatePodPlan, with the map of the environment iterated in
\* this order.  The configured patches are the same for all Models.
PodForModel(m, order) ==
    LET pod == CASE m.engine = "OLlama"        -> oLlamaPodForModel(m, order)
                 [] m.engine = "FasterWhisper" -> fasterWhisperPodForModel(m, order)
                 [] m.engine = "Infinity"      -> infinityPodForModel(m, order)
                 [] OTHER                      -> vLLMPodForModel(m, order)
    IN  [containers |-> pod.containers, volumes |-> pod.volumes,
         pullSecrets |-> pod.pullSecrets, patches |-> Patches]

\* The hash is of 32 bits: no two Pods of a Model are taken to have the same one.
PodHash(pod) == pod

\* What the API server asks of a Pod, and bash -c makes of its arguments: the
\* first is the script, the others are its parameters.
ValidPod(pod) ==
    /\ IsInjective(pod.volumes)
    /\ \A i \in DOMAIN pod.containers :
        LET mounts == pod.containers[i].mounts
        IN  /\ \A j, k \in DOMAIN mounts : mounts[j].path = mounts[k].path => j = k
            /\ \A j \in DOMAIN mounts : mounts[j].volume \in Range(pod.volumes)

BashRuns(command) == <<command[3]>>

-----------------------------------------------------------------------------
(* Models that pass validation and do not work *)

\* All Pods that may be built for a Model.
AllPods(m) == {PodForModel(m, order) : order \in Iterations(m.env)}

\* The server finds weights where it is told to: a mounted directory, not a file,
\* the hub it downloads from, or a bucket it can stream from.
Finds(m, server) ==
    \/ \E mount \in Range(server.mounts) :
            mount.path = server.load /\ mount.volume # "model-files"
    \/ server.load = "ref" /\ m.scheme = "hf"
    \/ server.load = "url" /\ m.scheme = "s3" /\ "runai_streamer" \in Range(server.args)

\* What is wrong with the Pods of a Model: the API server refuses them, the
\* server does not find the weights, the probe does not run the script.
Faults(m) ==
    UNION {(IF ValidPod(pod) THEN {} ELSE {"refused"})
           \cup (IF m.engine = "OLlama" \/ Finds(m, pod.containers[1]) THEN {} ELSE {"lost"})
           \cup (IF m.engine = "OLlama" /\ BashRuns(pod.containers[1].startup)
                                           # ollamaStartupProbeScript(m)
                 THEN {"unprobed"} ELSE {}) : pod \in AllPods(m)}

\* The kinds of Models that pass validation and have something wrong.
Broken ==
    UNION {{[engine |-> m.engine, scheme |-> m.scheme, cached |-> m.cached,
             adapters |-> m.adapters, files |-> m.files, fault |-> f] : f \in Faults(m)} :
           m \in {n \in Model : Admitted(n)}}

\* Where the engine, the patches and the source mount something into the server.
Taken(m) ==
    {"/dev/shm"} \cup (IF m.adapters THEN {"/adapters"} ELSE {})
    \cup (IF m.cached THEN {"cacheDir"} ELSE {})
    \cup (IF m.scheme \in {"pvc", "oci"} THEN {"/model"} ELSE {})
    \cup (IF m.scheme = "gs" THEN {"/secrets/gcp-credentials"} ELSE {})

\* The two ways to a Pod the API server refuses: the credentials of a bucket twice,
\* and a file where something else is mounted.
SecretTwice(m) == m.scheme = "gs" /\ m.adapters
FileInTheWay(m) == Range(m.files) \cap Taken(m) # {}

\* The engines other than vLLM know the hub and the cache only; Ollama loads itself.
Unsupported(m) == m.scheme = "ollama" \/ (m.engine # "VLLM" /\ ~m.cached /\ m.scheme # "hf")

\* What is wrong beyond that.
Clashing == {c \in Broken : c.fault = "refused" /\ ~SecretTwice(c) /\ ~FileInTheWay(c)}
Misled   == {c \in Broken : c.fault = "lost" /\ ~Unsupported(c)}

=============================================================================
