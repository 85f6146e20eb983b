---------------------------- MODULE TunedParams ----------------------------
(***************************************************************************)
(* How parameters travel from training to inference.  pretrain.py writes   *)
(* src/perf_mlp_params.h, which both modules are built with; the training  *)
(* module saves its best parameters to src/freqmind_tuned_params.h,        *)
(* chunk by chunk, each time its governor is stopped; `make inference`     *)
(* builds a module that includes this header when it exists, and           *)
(* freqmind_load_params copies it over the pretrained parameters.          *)
(*                                                                         *)
(* The header is a sequence of chunks <<save, k>>: chunk 0 opens the       *)
(* include guard and the macro, chunk k is the k-th value, the chunk after *)
(* the last value closes both.  Only one of the two modules, which have    *)
(* the same name, is loaded at a time.                                     *)
(***************************************************************************)
EXTENDS Integers, Sequences

CONSTANTS
    Sizes,     \* numbers of parameters a network may have
    MaxSaves,  \* bound: saves
    None

TunedConstants ==
    /\ Sizes \subseteq Nat \ {0}
    /\ Sizes # {}
    /\ MaxSaves \in Nat
    /\ None \notin Nat

VARIABLES
    source,   \* PERF_MLP_PARAM_COUNT of src/perf_mlp_params.h
    training, \* None, or the size the loaded training module was built with
    header,   \* None, or the chunks of src/freqmind_tuned_params.h
    saving,   \* None, or the next chunk freqmind_save_params_header writes
    saves,    \* sizes of the saves begun so far
    module,   \* None, or the inference module built last
    params    \* None, or freqmind_inference_params of the loaded module (values)
              \* and its FREQMIND_HAS_TUNED_PARAMS (tuned)

vars == <<source, training, header, saving, saves, module, params>>

Chunk(k) == <<Len(saves), k>>
LastChunk == saves[Len(saves)] + 1

-----------------------------------------------------------------------------
(* make pretrain                                                           *)
Pretrain ==
    /\ source' \in Sizes
    /\ UNCHANGED <<training, header, saving, saves, module, params>>

(* make train: build the training module with the parameters just          *)
(* pretrained, and load it                                                 *)
LoadTraining ==
    /\ training = None /\ params = None
    /\ source' \in Sizes
    /\ training' = source'
    /\ UNCHANGED <<header, saving, saves, module, params>>

(* rmmod, once stop has returned                                           *)
UnloadTraining ==
    /\ training # None /\ saving = None
    /\ training' = None
    /\ UNCHANGED <<source, header, saving, saves, module, params>>

-----------------------------------------------------------------------------
(* freqmind_save_params_header: opened with O_TRUNC ...                    *)

(* Mutant: the file is not truncated.                                      *)
Untruncated == IF header = None THEN << >> ELSE header

Opened == << >>

SaveOpens ==
    /\ training # None /\ saving = None
    /\ Len(saves) < MaxSaves
    /\ header' = Opened
    /\ saves' = Append(saves, training)
    /\ saving' = 0
    /\ UNCHANGED <<source, training, module, params>>

(* ... then written chunk by chunk ...                                     *)
SaveWrites ==
    /\ saving # None
    /\ header' = IF saving < Len(header) THEN [header EXCEPT ![saving + 1] = Chunk(saving)]
                                         ELSE Append(header, Chunk(saving))
    /\ saving' = IF saving = LastChunk THEN None ELSE saving + 1
    /\ UNCHANGED <<source, training, saves, module, params>>

(* ... until a write fails, possibly in the middle of a chunk: what is     *)
(* there stays.                                                            *)
SaveFails ==
    /\ saving # None
    /\ saving' = None
    /\ UNCHANGED <<source, training, header, saves, module, params>>

-----------------------------------------------------------------------------
(* make inference                                                          *)

(* The compiler accepts the header if the guard it opens is closed, which  *)
(* the last chunk of a save does, and if the macro is defined.             *)
Compiles(h) ==
    /\ Len(h) > 1
    /\ h[1][2] = 0
    /\ LET last == h[Len(h)] IN last[2] = saves[last[1]] + 1

(* An error leaves what was built before.  BUILD_BUG_ON compares the       *)
(* count in the header, which is written as the name PERF_MLP_PARAM_COUNT  *)
(* (src/train.c:296), with PERF_MLP_PARAM_COUNT.                           *)
BuildInference ==
    /\ IF header = None THEN TRUE ELSE Compiles(header)
    /\ module' = [size |-> source, tuned |-> header]
    /\ UNCHANGED <<source, training, header, saving, saves, params>>

(* Values that come from no save.                                          *)
Pretrained == <<0, 0>>
Zero == <<0, 1>>

(* freqmind_load_params: the initializer fills the array from the front;   *)
(* what it does not reach is zero, what exceeds it is dropped.             *)
Loaded ==
    LET tuned == module.tuned
        count == Len(tuned) - 2
    IN  [k \in 1 .. module.size |->
            IF tuned = None THEN Pretrained
            ELSE IF k <= count THEN tuned[k + 1] ELSE Zero]

LoadInference ==
    /\ module # None
    /\ training = None /\ params = None
    /\ params' = [tuned |-> module.tuned # None, values |-> Loaded]
    /\ UNCHANGED <<source, training, header, saving, saves, module>>

UnloadInference ==
    /\ params # None
    /\ params' = None
    /\ UNCHANGED <<source, training, header, saving, saves, module>>

Init ==
    /\ source \in Sizes
    /\ training = None /\ header = None /\ saving = None /\ saves = << >>
    /\ module = None /\ params = None

Next ==
    \/ Pretrain \/ LoadTraining \/ UnloadTraining
    \/ SaveOpens \/ SaveWrites \/ SaveFails
    \/ BuildInference \/ LoadInference \/ UnloadInference

Spec == Init /\ [][Next]_vars

-----------------------------------------------------------------------------
(* Properties                                                              *)

(* Whatever moment of a save `make inference` comes at, and whatever       *)
(* writes failed, a module built with a tuned header runs with the first   *)
(* values of one save that was written to its end, in their order; never   *)
(* with a torn header, a mixture of two saves or the pretrained values,    *)
(* which a module built without that header runs with.                     *)
ParamsAreOfOneSave ==
    params # None =>
        LET values == params.values
        IN  IF params.tuned
            THEN \E s \in 1 .. Len(saves) :
                     \A k \in DOMAIN values :
                         values[k] = IF k <= saves[s] THEN <<s, k>> ELSE Zero
            ELSE \A k \in DOMAIN values : values[k] = Pretrained

(* src/inference.c:68 asserts at build time that the tuned parameters are  *)
(* as many as the network has.                                             *)
TunedCountMatches ==
    module # None /\ module.tuned # None => Len(module.tuned) - 2 = module.size
=============================================================================
