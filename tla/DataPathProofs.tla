--------------------------- MODULE DataPathProofs ---------------------------
(***************************************************************************)
(* Proofs about the data path: for networks, matrices, words, samples and  *)
(* saves of every size, what MCDataPath checks of a few.  Each part has an *)
(* inductive invariant of its own, and keeps it because the other parts    *)
(* have no step in its behaviours.                                         *)
(***************************************************************************)
EXTENDS DataPath, NumberFacts

(***************************************************************************)
(* The tuned parameters                                                    *)
(***************************************************************************)

(* The first len chunks of a save.                                         *)
Begun(save, len) == [x \in 1 .. len |-> <<save, x - 1>>]

(* The inductive invariant of the header: it is a save or the beginning of *)
(* one, and a module holds all the chunks of the save that it was built    *)
(* from.                                                                   *)
TunedInv ==
    /\ source \in Nat
    /\ training # None => training \in Nat
    /\ saves \in Seq(Nat)
    /\ saving # None =>
           /\ Len(saves) > 0
           /\ saving \in 0 .. saves[Len(saves)] + 1
           /\ header = Begun(Len(saves), saving)
    /\ header # None =>
           \E save \in 1 .. Len(saves) : \E len \in 0 .. saves[save] + 2 :
               header = Begun(save, len)
    /\ module # None =>
           /\ module.size \in Nat
           /\ module.tuned # None =>
                  \E save \in 1 .. Len(saves) : module.tuned = Begun(save, saves[save] + 2)
    /\ Tuned!ParamsAreOfOneSave

(* What the beginning of a save is.                                        *)
LEMMA BegunChunks ==
  ASSUME NEW save, NEW len \in Nat
  PROVE  /\ Len(Begun(save, len)) = len
         /\ \A x \in 1 .. len : /\ Begun(save, len)[x] = <<save, x - 1>>
                                /\ Begun(save, len)[x][1] = save
                                /\ Begun(save, len)[x][2] = x - 1
  BY DEF Begun

(* A chunk more makes the beginning longer by one.                         *)
LEMMA BegunGrows ==
  ASSUME NEW save, NEW len \in Nat
  PROVE  Append(Begun(save, len), <<save, len>>) = Begun(save, len + 1)
  <1> DEFINE S == {<<save, x>> : x \in Nat}
             p == Begun(save, len)
             q == Append(p, <<save, len>>)
  <1>1. p \in Seq(S) /\ Len(p) = len /\ \A x \in 1 .. len : p[x] = <<save, x - 1>>
    BY DEF Begun
  <1>2. <<save, len>> \in S
    OBVIOUS
  <1> HIDE DEF p, S
  <1>3. /\ q \in Seq(S) /\ Len(q) = len + 1
        /\ \A x \in 1 .. len : q[x] = p[x]
        /\ q[len + 1] = <<save, len>>
    BY <1>1, <1>2
  <1> HIDE DEF q
  <1>4. \A x \in 1 .. len + 1 : q[x] = <<save, x - 1>>
    BY <1>1, <1>3
  <1>5. q = [x \in 1 .. len + 1 |-> q[x]]
    BY <1>3
  <1>6. q = Begun(save, len + 1)
    BY <1>4, <1>5 DEF Begun
  <1> QED
    BY <1>6 DEF q, p

(* Sizes are numbers, and no parameter set is None.                        *)
LEMMA TunedSizes == Sizes \subseteq Nat /\ None \notin Nat
  BY DataPathConstants DEF Tuned!TunedConstants

(* Nothing is saved or built at first.                                     *)
LEMMA TunedStarts == Tuned!Init => TunedInv
  <1> SUFFICES ASSUME Tuned!Init PROVE TunedInv
    OBVIOUS
  <1>1. << >> \in Seq(Nat)
    OBVIOUS
  <1> QED
    BY <1>1, TunedSizes DEF Tuned!Init, TunedInv, Tuned!ParamsAreOfOneSave

(* Opening the header truncates it: the save begins with no chunk.         *)
LEMMA TunedSaveOpens == TunedInv /\ Tuned!SaveOpens => TunedInv'
  <1> SUFFICES ASSUME TunedInv, Tuned!SaveOpens PROVE TunedInv'
    OBVIOUS
  <1> USE DEF TunedInv, Tuned!SaveOpens
  <1>1. /\ saves \in Seq(Nat) /\ training \in Nat
        /\ saves' = Append(saves, training)
    OBVIOUS
  <1>2. /\ saves' \in Seq(Nat) /\ Len(saves') = Len(saves) + 1 /\ Len(saves) \in Nat
        /\ \A x \in 1 .. Len(saves) : x \in 1 .. Len(saves') /\ saves'[x] = saves[x]
        /\ saves'[Len(saves')] = training
    BY <1>1
  <1>3. header' = Begun(Len(saves'), 0)
    BY DEF Tuned!Opened, Begun
  <1>4. 0 \in 0 .. saves'[Len(saves')] + 2 /\ 0 \in 0 .. saves'[Len(saves')] + 1
    BY <1>1, <1>2
  <1>5. Len(saves') > 0 /\ Len(saves') \in 1 .. Len(saves')
    BY <1>2
  <1>6. \E save \in 1 .. Len(saves') : \E len \in 0 .. saves'[save] + 2 :
            header' = Begun(save, len)
    BY <1>3, <1>4, <1>5
  <1>7. (saving # None =>
            /\ Len(saves) > 0
            /\ saving \in 0 .. saves[Len(saves)] + 1
            /\ header = Begun(Len(saves), saving))'
    BY <1>3, <1>4, <1>5
  <1>8. (module # None =>
            /\ module.size \in Nat
            /\ module.tuned # None =>
                  \E save \in 1 .. Len(saves) : module.tuned = Begun(save, saves[save] + 2))'
    <2>1. SUFFICES ASSUME module # None, module.tuned # None
                   PROVE  \E save \in 1 .. Len(saves') :
                              module.tuned = Begun(save, saves'[save] + 2)
      OBVIOUS
    <2>2. PICK save \in 1 .. Len(saves) : module.tuned = Begun(save, saves[save] + 2)
      BY <2>1
    <2> QED
      BY <1>2, <2>2
  <1>9. Tuned!ParamsAreOfOneSave'
    <2>1. CASE params # None /\ params.tuned
      <3>1. PICK save \in 1 .. Len(saves) :
                \A x \in DOMAIN params.values :
                    params.values[x] = IF x <= saves[save] THEN <<save, x>> ELSE Tuned!Zero
        BY <2>1 DEF Tuned!ParamsAreOfOneSave
      <3>2. save \in 1 .. Len(saves') /\ saves'[save] = saves[save]
        BY <1>2
      <3> QED
        BY <2>1, <3>1, <3>2 DEF Tuned!ParamsAreOfOneSave, Tuned!Zero
    <2>2. CASE ~(params # None /\ params.tuned)
      BY <2>2 DEF Tuned!ParamsAreOfOneSave, Tuned!Pretrained
    <2> QED
      BY <2>1, <2>2
  <1>10. (source \in Nat /\ (training # None => training \in Nat))' /\ saves' \in Seq(Nat)
    BY <1>2
  <1> QED
    BY <1>6, <1>7, <1>8, <1>9, <1>10

(* Each write appends the next chunk of the save that is under way.        *)
LEMMA TunedSaveWrites == TunedInv /\ Tuned!SaveWrites => TunedInv'
  <1> SUFFICES ASSUME TunedInv, Tuned!SaveWrites PROVE TunedInv'
    OBVIOUS
  <1> DEFINE last == Len(saves)
  <1>1. /\ last \in Nat /\ last > 0 /\ last \in 1 .. last /\ saves[last] \in Nat
        /\ saving \in 0 .. saves[last] + 1
        /\ saving \in Nat
        /\ header = Begun(last, saving)
    BY DEF TunedInv, Tuned!SaveWrites
  <1>2. Len(header) = saving
    BY <1>1, BegunChunks
  <1>3. header' = Append(header, <<last, saving>>)
    BY <1>1, <1>2 DEF Tuned!SaveWrites, Tuned!Chunk
  <1>4. header' = Begun(last, saving + 1) /\ saving + 1 \in 0 .. saves[last] + 2
    <2>1. Append(Begun(last, saving), <<last, saving>>) = Begun(last, saving + 1)
      <3> HIDE DEF last
      <3> QED
        BY <1>1, BegunGrows
    <2>2. saving + 1 \in 0 .. saves[last] + 2
      BY <1>1
    <2> HIDE DEF last
    <2> QED
      BY <1>1, <1>3, <2>1, <2>2
  <1>5. saving' = IF saving = saves[last] + 1 THEN None ELSE saving + 1
    BY DEF Tuned!SaveWrites, Tuned!LastChunk
  <1>6. UNCHANGED <<source, training, saves, module, params>>
    BY DEF Tuned!SaveWrites
  <1>7. (saving # None =>
            /\ Len(saves) > 0
            /\ saving \in 0 .. saves[Len(saves)] + 1
            /\ header = Begun(Len(saves), saving))'
    BY <1>1, <1>4, <1>5, <1>6
  <1>8. \E save \in 1 .. Len(saves) : \E len \in 0 .. saves[save] + 2 : header' = Begun(save, len)
    BY <1>1, <1>4
  <1> HIDE DEF last
  <1> QED
    BY <1>6, <1>7, <1>8 DEF TunedInv, Tuned!ParamsAreOfOneSave, Tuned!Zero, Tuned!Pretrained

(* A failed save leaves the beginning of a save behind.                    *)
LEMMA TunedSaveFails == TunedInv /\ Tuned!SaveFails => TunedInv'
  BY DEF TunedInv, Tuned!SaveFails, Tuned!ParamsAreOfOneSave, Tuned!Zero, Tuned!Pretrained

(* A build takes the whole header or none of it.                           *)
LEMMA TunedBuildInference == TunedInv /\ Tuned!BuildInference => TunedInv'
  <1> SUFFICES ASSUME TunedInv, Tuned!BuildInference PROVE TunedInv'
    OBVIOUS
  <1>1. /\ UNCHANGED <<source, training, header, saving, saves, params>>
        /\ module'.size = source /\ module'.tuned = header
        /\ header = None \/ Tuned!Compiles(header)
    BY DEF Tuned!BuildInference
  <1>2. ASSUME header # None
        PROVE  \E save \in 1 .. Len(saves) : header = Begun(save, saves[save] + 2)
    <2>1. PICK save \in 1 .. Len(saves) : \E len \in 0 .. saves[save] + 2 :
                  header = Begun(save, len)
      BY <1>2 DEF TunedInv
    <2>2. PICK len \in 0 .. saves[save] + 2 : header = Begun(save, len)
      BY <2>1
    <2>3. saves[save] \in Nat
      BY DEF TunedInv
    <2>4. len \in Nat /\ len > 1 /\ len \in 1 .. len
      <3>1. len \in Nat
        BY <2>3
      <3>2. Len(header) = len
        BY <2>2, <3>1, BegunChunks
      <3> QED
        BY <1>1, <1>2, <3>1, <3>2 DEF Tuned!Compiles
    <2>5. Len(header) = len /\ header[len][1] = save /\ header[len][2] = len - 1
      BY <2>2, <2>4, BegunChunks
    <2>6. len - 1 = saves[save] + 1
      BY <1>1, <1>2, <2>5 DEF Tuned!Compiles
    <2>7. len = saves[save] + 2
      BY <2>3, <2>4, <2>6
    <2> QED
      BY <2>2, <2>7
  <1> QED
    BY <1>1, <1>2 DEF TunedInv, Tuned!ParamsAreOfOneSave, Tuned!Zero, Tuned!Pretrained

(* A loaded module uses the chunks it was built with, in their order.      *)
LEMMA TunedLoadInference == TunedInv /\ Tuned!LoadInference => TunedInv'
  <1> SUFFICES ASSUME TunedInv, Tuned!LoadInference PROVE TunedInv'
    OBVIOUS
  <1>1. /\ module # None
        /\ params' = [tuned |-> module.tuned # None, values |-> Tuned!Loaded]
        /\ UNCHANGED <<source, training, header, saving, saves, module>>
    BY DEF Tuned!LoadInference
  <1>2. params'.tuned = (module.tuned # None) /\ params'.values = Tuned!Loaded
    BY <1>1
  <1>3. DOMAIN Tuned!Loaded = 1 .. module.size /\ module.size \in Nat
    BY <1>1 DEF Tuned!Loaded, TunedInv
  <1>4. Tuned!ParamsAreOfOneSave'
    <2>1. CASE module.tuned = None
      BY <1>1, <1>2, <2>1 DEF Tuned!ParamsAreOfOneSave, Tuned!Loaded, Tuned!Pretrained
    <2>2. CASE module.tuned # None
      <3>1. PICK save \in 1 .. Len(saves) : module.tuned = Begun(save, saves[save] + 2)
        BY <1>1, <2>2 DEF TunedInv
      <3>2. saves[save] \in Nat
        BY DEF TunedInv
      <3>3. /\ Len(module.tuned) - 2 = saves[save]
            /\ \A x \in 1 .. saves[save] + 2 : module.tuned[x] = <<save, x - 1>>
        <4> DEFINE len == saves[save] + 2
        <4>1. len \in Nat /\ len - 2 = saves[save]
          BY <3>2
        <4>2. module.tuned = Begun(save, len)
          BY <3>1
        <4> HIDE DEF len
        <4>3. Len(module.tuned) = len /\ \A x \in 1 .. len : module.tuned[x] = <<save, x - 1>>
          BY <4>1, <4>2, BegunChunks
        <4> QED
          BY <4>1, <4>3 DEF len
      <3>4. ASSUME NEW x \in 1 .. module.size
            PROVE  Tuned!Loaded[x] = IF x <= saves[save] THEN <<save, x>> ELSE Tuned!Zero
        <4>1. Tuned!Loaded[x] = IF x <= saves[save] THEN module.tuned[x + 1] ELSE Tuned!Zero
          BY <1>3, <2>2, <3>3 DEF Tuned!Loaded
        <4>2. x <= saves[save] => module.tuned[x + 1] = <<save, x>>
          <5>1. SUFFICES ASSUME x <= saves[save] PROVE module.tuned[x + 1] = <<save, x>>
            OBVIOUS
          <5>2. x + 1 \in 1 .. saves[save] + 2 /\ (x + 1) - 1 = x
            BY <1>3, <3>2, <5>1
          <5> QED
            BY <3>3, <5>2
        <4> QED
          BY <4>1, <4>2
      <3>5. \A x \in DOMAIN params'.values :
                params'.values[x] = IF x <= saves'[save] THEN <<save, x>> ELSE Tuned!Zero
        BY <1>1, <1>2, <1>3, <3>4
      <3> QED
        BY <1>1, <1>2, <2>2, <3>5 DEF Tuned!ParamsAreOfOneSave, Tuned!Zero
    <2> QED
      BY <2>1, <2>2
  <1> QED
    BY <1>1, <1>4 DEF TunedInv

(* The invariant is kept by every step of training, saving, building and   *)
(* loading.                                                                *)
LEMMA TunedStep == TunedInv /\ Tuned!Next => TunedInv'
  <1> SUFFICES ASSUME TunedInv, Tuned!Next PROVE TunedInv'
    OBVIOUS
  <1> USE DEF TunedInv, Tuned!ParamsAreOfOneSave, Tuned!Zero, Tuned!Pretrained
  <1>1. CASE Tuned!Pretrain
    BY <1>1, TunedSizes DEF Tuned!Pretrain
  <1>2. CASE Tuned!LoadTraining
    BY <1>2, TunedSizes DEF Tuned!LoadTraining
  <1>3. CASE Tuned!UnloadTraining
    BY <1>3 DEF Tuned!UnloadTraining
  <1>4. CASE Tuned!UnloadInference
    BY <1>4 DEF Tuned!UnloadInference
  <1> HIDE DEF TunedInv
  <1> QED
    BY <1>1, <1>2, <1>3, <1>4, TunedSaveOpens, TunedSaveWrites, TunedSaveFails,
       TunedBuildInference, TunedLoadInference DEF Tuned!Next

(* A module built for inference runs with one complete save of training or *)
(* with the pretrained parameters, whatever the save was interrupted by    *)
(* and however the sizes changed in between.                               *)
THEOREM ParamsComplete == Spec => []ParamsAreComplete
  <1> DEFINE IInv == part = "tuned" => TunedInv
  <1>1. Init => IInv
    BY TunedStarts DEF Init
  <1>2. IInv /\ [Next]_vars => IInv'
    <2> SUFFICES ASSUME IInv, [Next]_vars, part' = "tuned" PROVE TunedInv'
      OBVIOUS
    <2>1. CASE part = "tuned" /\ Tuned!Next
      BY <2>1, TunedStep
    <2>2. CASE UNCHANGED vars
      BY <2>2 DEF vars, TunedVars, TunedInv, Tuned!ParamsAreOfOneSave, Tuned!Zero,
                  Tuned!Pretrained
    <2> QED
      BY <2>1, <2>2 DEF Next
  <1>3. IInv => ParamsAreComplete
    BY DEF TunedInv, ParamsAreComplete
  <1> HIDE DEF IInv
  <1> QED
    BY <1>1, <1>2, <1>3, PTL DEF Spec

(***************************************************************************)
(* The kernels of the network                                              *)
(***************************************************************************)

(* The totals of the kernels are sums.                                     *)
LEMMA KernelSums ==
  ASSUME NEW f, NEW lo \in Int, NEW hi \in Int
  PROVE  Forward!Total(f, lo, hi) = Sum(f, lo, hi) /\ MatMul!Total(f, lo, hi) = Sum(f, lo, hi)
  BY DEF Sum, Forward!Total, MatMul!Total

(* One and Half are positive, and what was never written is no raw number. *)
LEMMA KernelNumbers == One \in Nat \ {0} /\ Half \in Nat \ {0} /\ Junk \notin Forward!Raw
  BY DataPathConstants DEF Forward!ForwardConstants, Forward!KernelConstants

(* The products that a dot product of integers adds up.                    *)
AreProducts(f, u, p, v, q, len) ==
    /\ p \in Int /\ q \in Int /\ len \in Nat
    /\ \A x \in 0 .. len - 1 :
           /\ u[p + x] \in Int /\ v[q + x] \in Int
           /\ f[x] = u[p + x] * v[q + x]

(* Four lanes and the rest make the whole product.                         *)
LEMMA DotIsSum ==
  ASSUME NEW given, NEW u, NEW p, NEW v, NEW q, NEW len, AreProducts(given, u, p, v, q, len)
  PROVE  /\ Forward!DotRaw(u, p, v, q, len) = Sum(given, 0, len)
         /\ Sum(given, 0, len) \in Int
  <1> DEFINE f == [x \in 0 .. len - 1 |-> u[p + x] * v[q + x]]
             groups == len \div 4
             Lane(l) == [x \in 0 .. groups - 1 |-> f[4 * x + l]]
  <1> USE DEF AreProducts
  <1>0. \A x \in 0 .. len - 1 : f[x] = given[x]
    OBVIOUS
  <1>1. \A x \in 0 .. len - 1 : f[x] \in Int
    OBVIOUS
  <1>2. f = Forward!Products(u, p, v, q, len)
    BY DEF Forward!Products
  <1>3. groups \in Nat /\ 4 * groups <= len
    OBVIOUS
  <1>4. Forward!DotRaw(u, p, v, q, len)
            = Forward!Total(Lane(0), 0, groups) + Forward!Total(Lane(1), 0, groups)
                  + Forward!Total(Lane(2), 0, groups) + Forward!Total(Lane(3), 0, groups)
                  + Forward!Total(f, 4 * groups, len)
    BY <1>2, Zenon DEF Forward!DotRaw
  <1> HIDE DEF groups
  <1>5. \A x \in 0 .. 4 * groups - 1 : f[x] \in Int
    BY <1>1, <1>3
  <1> HIDE DEF f
  <1>6. Sum(Lane(0), 0, groups) + Sum(Lane(1), 0, groups) + Sum(Lane(2), 0, groups)
            + Sum(Lane(3), 0, groups) = Sum(f, 0, 4 * groups)
    BY <1>3, <1>5, SumOfLanes
  <1>7. Sum(f, 0, len) = Sum(f, 0, 4 * groups) + Sum(f, 4 * groups, len)
    BY <1>1, <1>3, SumSplit
  <1>8. Sum(f, 0, len) \in Int
    BY <1>1, SumType
  <1> HIDE DEF Lane
  <1>9. /\ \A l : Forward!Total(Lane(l), 0, groups) = Sum(Lane(l), 0, groups)
        /\ Forward!Total(f, 4 * groups, len) = Sum(f, 4 * groups, len)
    BY <1>3, KernelSums
  <1>10. Forward!DotRaw(u, p, v, q, len) = Sum(f, 0, len)
    BY <1>4, <1>6, <1>7, <1>9
  <1>11. Sum(f, 0, len) = Sum(given, 0, len)
    BY <1>0, SumSame
  <1> QED
    BY <1>8, <1>10, <1>11

(* Storing into a raw number wraps, and keeps a number that fits.          *)
LEMMA WrappedIsRaw ==
  ASSUME NEW x \in Int
  PROVE  /\ Forward!Wrapped(x) \in Forward!Raw
         /\ x \in Forward!Raw => Forward!Wrapped(x) = x
  <1> DEFINE w == 2 * Half
             y == x + Half
  <1>1. w \in Nat /\ w > 0 /\ y \in Int /\ Half \in Nat
    BY KernelNumbers
  <1>2. y % w \in 0 .. w - 1
    BY <1>1, Remainder
  <1>3. x \in Forward!Raw => y \in 0 .. w - 1
    BY <1>1 DEF Forward!Raw
  <1>4. y \in 0 .. w - 1 => y % w = y
    BY <1>1, SmallRemainder
  <1>5. Forward!Wrapped(x) = (y % w) - Half
    BY DEF Forward!Wrapped
  <1>6. w = 2 * Half /\ y = x + Half
    OBVIOUS
  <1> HIDE DEF w, y
  <1> QED
    BY <1>1, <1>2, <1>3, <1>4, <1>5, <1>6 DEF Forward!Raw

(* Rescaling an accumulator makes an integer.                              *)
LEMMA DownscaleIsInt ==
  ASSUME NEW x \in Int PROVE Forward!Downscale(x) \in Int
  BY KernelNumbers DEF Forward!Downscale

(* A finished accumulator is a raw number.                                 *)
LEMMA FinishIsRaw ==
  ASSUME NEW x \in Int, NEW offsets, NEW at, offsets # None => offsets[at] \in Forward!Raw, NEW how
  PROVE  Forward!FinishAcc(x, offsets, at, how) \in Forward!Raw
  <1> DEFINE scaled == Forward!Wrapped(Forward!Downscale(x))
             raw == IF offsets = None THEN scaled ELSE Forward!Wrapped(scaled + offsets[at])
  <1>1. scaled \in Forward!Raw
    BY DownscaleIsInt, WrappedIsRaw
  <1>2. \A y \in Forward!Raw : y \in Int
    BY KernelNumbers DEF Forward!Raw
  <1>3. raw \in Forward!Raw
    BY <1>1, <1>2, WrappedIsRaw
  <1>4. Forward!FinishAcc(x, offsets, at, how) = IF how = "relu" THEN Forward!ReluRaw(raw) ELSE raw
    BY DEF Forward!FinishAcc
  <1>5. 0 \in Forward!Raw
    BY KernelNumbers DEF Forward!Raw
  <1> HIDE DEF raw
  <1> QED
    BY <1>3, <1>4, <1>5 DEF Forward!ReluRaw

(***************************************************************************)
(* mlp_fxp_forward                                                         *)
(***************************************************************************)

(* What is known of every layer and input that a call may be given.        *)
LEMMA LayerParts ==
  /\ Forward!MaxOut \in Nat
  /\ MaxLayers \in Nat
  /\ \A l \in Layers : /\ l.in \in Nat /\ l.out \in Nat /\ l.out <= Forward!MaxOut
                       /\ l.weights # None =>
                              \A x \in 0 .. l.in * l.out - 1 : l.weights[x] \in Forward!Raw
                       /\ l.bias # None => \A x \in 0 .. l.out - 1 : l.bias[x] \in Forward!Raw
  /\ \A len \in 0 .. 2 * Forward!MaxOut + 3 :
         None \notin [0 .. len - 1 -> Forward!Raw \cup {Junk}]
  /\ \A y \in Inputs, l \in Layers : \A x \in 0 .. l.in - 1 : y[x] \in Forward!Raw
  <1>1. Forward!ForwardConstants
    BY DataPathConstants
  <1>2. \E w \in {l.out : l \in Layers} : \A l \in Layers : l.out <= w
    BY <1>1 DEF Forward!ForwardConstants
  <1>3. /\ Forward!MaxOut \in {l.out : l \in Layers}
        /\ \A l \in Layers : l.out <= Forward!MaxOut
    BY <1>2, Zenon DEF Forward!MaxOut
  <1> QED
    BY <1>1, <1>3 DEF Forward!ForwardConstants

(* What a layer needs and the call provides.                               *)
NetworkGiven ==
    /\ Forward!N \in Nat
    /\ \A x \in 1 .. Forward!N : layers[x] \in Layers
    /\ input \in Inputs

(* The width of the work buffer covers every hidden layer, and one of them *)
(* needs it.                                                               *)
LEMMA WidestIsLargest ==
  ASSUME NetworkGiven
  PROVE  /\ Forward!Widest \in Nat
         /\ \A x \in 1 .. Forward!N - 1 : layers[x].out <= Forward!Widest
         /\ Forward!Widest = 0 \/ \E x \in 1 .. Forward!N - 1 : layers[x].out = Forward!Widest
         /\ Forward!Widest <= Forward!MaxOut
         /\ Forward!RequiredWorkLen = 2 * Forward!Widest
         /\ Forward!RequiredWorkLen \div 2 = Forward!Widest
  <1> DEFINE top == IF Forward!N = 0 THEN 0 ELSE Forward!N - 1
             f == [x \in 1 .. top |-> layers[x].out]
             S == {0} \cup {layers[x].out : x \in 1 .. Forward!N - 1}
  <1>1. top \in Nat /\ 1 .. top = 1 .. Forward!N - 1
    BY DEF NetworkGiven
  <1>2. \A x \in 1 .. Forward!N - 1 : layers[x] \in Layers
    BY DEF NetworkGiven
  <1>3. \A x \in 1 .. top : f[x] = layers[x].out /\ f[x] \in Nat
    BY <1>1, <1>2, LayerParts
  <1>4. \E w \in {0} \cup {f[x] : x \in 1 .. top} : w \in Nat /\ \A x \in 1 .. top : f[x] <= w
    <2> HIDE DEF f, top
    <2> QED
      BY <1>1, <1>3, LargestExists
  <1>5. S = {0} \cup {f[x] : x \in 1 .. top}
    BY <1>1, <1>3
  <1>6. \E w \in S : \A x \in 1 .. Forward!N - 1 : layers[x].out <= w
    BY <1>1, <1>3, <1>4, <1>5
  <1>7. /\ Forward!Widest \in S
        /\ \A x \in 1 .. Forward!N - 1 : layers[x].out <= Forward!Widest
    BY <1>6, Zenon DEF Forward!Widest
  <1>8. \A w \in S : w \in Nat /\ w <= Forward!MaxOut
    BY <1>2, LayerParts
  <1>9. Forward!Widest \in Nat /\ Forward!Widest <= Forward!MaxOut
    BY <1>7, <1>8
  <1>10. \A w \in Nat : (2 * w) \div 2 = w
    OBVIOUS
  <1> QED
    BY <1>7, <1>9, <1>10 DEF Forward!RequiredWorkLen

(* The checks of the first upTo layers succeed.                            *)
Accepted(upTo) == \A x \in 1 .. upTo : Forward!LayerError(x) = "OK"

(* The output as the caller hands it over.                                 *)
Blank == [x \in 0 .. Forward!MaxOut - 1 |-> Junk]

(* The call brings the work space that the network requires.               *)
Roomy == /\ Forward!RequiredWorkLen <= workLen
         /\ Forward!RequiredWorkLen = 0 \/ work # None

(* A cell of the buffer that a layer uses.                                 *)
Held(place, x) == Forward!Contents(place.buffer)[place.from + x]

(* The buffers hold raw numbers or what was there before the call.         *)
BuffersTyped ==
    /\ workLen \in 0 .. 2 * Forward!MaxOut + 3
    /\ work # None => work \in [0 .. workLen - 1 -> Forward!Raw \cup {Junk}]
    /\ output \in [0 .. Forward!MaxOut - 1 -> Forward!Raw \cup {Junk}]

(* How far checks and layers have come, and what is known by then.         *)
Progress ==
    /\ status \in {"checking", "running", "OK", "ARG", "SHAPE", "WORK"}
    /\ i \in 0 .. Forward!N
    /\ status # "running" => r = 0
    /\ status \notin {"running", "OK"} => output = Blank
    /\ status = "checking" => Accepted(i)
    /\ status \in {"ARG", "SHAPE"} => Forward!N = 0 \/ ~Accepted(Forward!N)
    /\ status \in {"running", "OK", "WORK"} => Forward!N > 0 /\ Accepted(Forward!N)
    /\ status = "WORK" => ~Roomy
    /\ status \in {"running", "OK"} => Roomy
    /\ status = "running" => i < Forward!N /\ r \in 0 .. layers[i + 1].out

(* The layer's input is there, and so is its output up to the row reached. *)
CellsWritten ==
    status = "running" =>
        /\ \A x \in 0 .. layers[i + 1].in - 1 : Held(Forward!Source(i), x) \in Forward!Raw
        /\ \A x \in 0 .. r - 1 : Held(Forward!Destination(i), x) \in Forward!Raw

(* What an accepted layer is like.                                         *)
LEMMA AcceptedLayers ==
  ASSUME NetworkGiven, NEW top \in Nat, top <= Forward!N, Accepted(top), NEW x \in 1 .. top
  PROVE  /\ layers[x] \in Layers
         /\ layers[x].weights # None
         /\ layers[x].in > 0 /\ layers[x].out > 0
         /\ x > 1 => layers[x].in = layers[x - 1].out
         /\ layers[x].activation \in {"none", "relu"}
  <1>1. layers[x] \in Layers
    BY DEF NetworkGiven
  <1>2. layers[x].in \in Nat /\ layers[x].out \in Nat
    BY <1>1, LayerParts
  <1>3. Forward!LayerError(x) = "OK"
    BY DEF Accepted
  <1> QED
    BY <1>1, <1>2, <1>3 DEF Forward!LayerError

(* Where the layer computed reads and writes.                              *)
LEMMA Places ==
  ASSUME NetworkGiven, BuffersTyped, Roomy, Accepted(Forward!N),
         NEW at \in 0 .. Forward!N - 1
  PROVE  /\ layers[at + 1] \in Layers
         /\ layers[at + 1].in \in Nat \ {0} /\ layers[at + 1].out \in Nat \ {0}
         /\ at = 0 => Forward!Source(at) = [buffer |-> "input", from |-> 0]
         /\ at > 0 => /\ Forward!Source(at) = Forward!Destination(at - 1)
                      /\ Forward!Source(at).buffer = "work"
                      /\ Forward!Source(at).from
                             = IF at % 2 = 0 THEN Forward!Widest ELSE 0
                      /\ layers[at + 1].in <= Forward!Widest
                      /\ work # None
         /\ at + 1 = Forward!N => Forward!Destination(at) = [buffer |-> "output", from |-> 0]
         /\ at + 1 < Forward!N => /\ Forward!Destination(at).buffer = "work"
                                  /\ Forward!Destination(at).from
                                         = IF at % 2 = 1 THEN Forward!Widest ELSE 0
                                  /\ layers[at + 1].out <= Forward!Widest
                                  /\ work # None
         /\ layers[at + 1].out <= Forward!MaxOut
         /\ 2 * Forward!Widest <= workLen /\ Forward!Widest \in Nat
  <1>1. Forward!N \in Nat /\ at + 1 \in 1 .. Forward!N
    BY DEF NetworkGiven
  <1>2. /\ layers[at + 1] \in Layers
        /\ layers[at + 1].in \in Nat \ {0} /\ layers[at + 1].out \in Nat \ {0}
        /\ layers[at + 1].out <= Forward!MaxOut
    BY <1>1, AcceptedLayers, LayerParts
  <1>3. /\ Forward!Widest \in Nat
        /\ \A x \in 1 .. Forward!N - 1 : layers[x].out <= Forward!Widest
        /\ Forward!RequiredWorkLen = 2 * Forward!Widest
        /\ Forward!RequiredWorkLen \div 2 = Forward!Widest
    BY WidestIsLargest
  <1>4. 2 * Forward!Widest <= workLen
    BY <1>3 DEF Roomy
  <1>5. ASSUME at + 1 < Forward!N
        PROVE  layers[at + 1].out <= Forward!Widest /\ work # None
    <2>1. at + 1 \in 1 .. Forward!N - 1
      BY <1>1, <1>5
    <2> QED
      BY <1>2, <1>3, <2>1 DEF Roomy
  <1>6. ASSUME at > 0
        PROVE  layers[at + 1].in <= Forward!Widest /\ work # None
    <2>1. at \in 1 .. Forward!N - 1 /\ (at + 1) - 1 = at /\ at + 1 > 1
      BY <1>1, <1>6
    <2>2. layers[at + 1].in = layers[at].out
      BY <1>1, <2>1, AcceptedLayers
    <2> QED
      BY <1>2, <1>3, <2>1, <2>2 DEF Roomy
  <1>7. at = 0 => Forward!Source(at) = [buffer |-> "input", from |-> 0]
    BY DEF Forward!Source
  <1>8. at > 0 => /\ Forward!Source(at) = Forward!Destination(at - 1)
                  /\ Forward!Source(at).buffer = "work"
                  /\ Forward!Source(at).from = IF at % 2 = 0 THEN Forward!Widest ELSE 0
    <2>1. at > 0 => at - 1 # Forward!N - 1 /\ ((at - 1) % 2 = 1 <=> at % 2 = 0)
      BY <1>1
    <2> QED
      BY <1>3, <2>1 DEF Forward!Source, Forward!Destination
  <1>9. at + 1 = Forward!N => Forward!Destination(at) = [buffer |-> "output", from |-> 0]
    <2>1. at + 1 = Forward!N => at = Forward!N - 1
      BY <1>1
    <2> QED
      BY <2>1 DEF Forward!Destination
  <1>10. at + 1 < Forward!N => /\ Forward!Destination(at).buffer = "work"
                               /\ Forward!Destination(at).from
                                      = IF at % 2 = 1 THEN Forward!Widest ELSE 0
    <2>1. at + 1 < Forward!N => at # Forward!N - 1
      BY <1>1
    <2> QED
      BY <1>3, <2>1 DEF Forward!Destination
  <1> QED
    BY <1>2, <1>3, <1>4, <1>5, <1>6, <1>7, <1>8, <1>9, <1>10

(* A layer of the network's function.                                      *)
LayerResult(before, at) ==
    LET l == layers[at]
        y == [e \in 0 .. l.out - 1 |-> Forward!Neuron(l, before.x, e)]
    IN  [fits |-> before.fits /\ \A e \in DOMAIN y : y[e].fits,
         x |-> [e \in DOMAIN y |-> y[e].v]]

(* The function's value after each layer.                                  *)
Computed ==
    CHOOSE h : h = [at \in 0 .. Forward!N |->
        IF at = 0 THEN [fits |-> TRUE, x |-> input] ELSE LayerResult(h[at - 1], at)]

(* The recursion over the layers has a solution.                           *)
LEMMA ComputedExists ==
  ASSUME NEW top \in Nat
  PROVE  \E h : h = [at \in 0 .. top |->
             IF at = 0 THEN [fits |-> TRUE, x |-> input] ELSE LayerResult(h[at - 1], at)]
  <1> DEFINE V(h, at) == IF at = 0 THEN [fits |-> TRUE, x |-> input]
                                   ELSE LayerResult(h[at - 1], at)
             S == {d \in Nat : \E h : h = [at \in 0 .. d |-> V(h, at)]}
  <1>1. 0 \in S
    <2> DEFINE h == [at \in 0 .. 0 |-> [fits |-> TRUE, x |-> input]]
    <2>1. h = [at \in 0 .. 0 |-> V(h, at)]
      OBVIOUS
    <2> HIDE DEF h, V
    <2> QED
      BY <2>1
  <1>2. ASSUME NEW d \in Nat, d \in S PROVE d + 1 \in S
    <2>1. PICK g : g = [at \in 0 .. d |-> V(g, at)]
      BY <1>2, Zenon
    <2> DEFINE h == [at \in 0 .. d + 1 |-> IF at = d + 1 THEN LayerResult(g[d], d + 1) ELSE g[at]]
    <2>2. ASSUME NEW at \in 0 .. d + 1 PROVE h[at] = V(h, at)
      <3>1. CASE at = d + 1
        <4>1. at # 0 /\ at - 1 = d /\ d \in 0 .. d + 1 /\ d # d + 1
          BY <3>1
        <4>2. h[at] = LayerResult(g[d], d + 1) /\ h[d] = g[d]
          BY <3>1, <4>1
        <4> HIDE DEF h
        <4> QED
          BY <3>1, <4>1, <4>2
      <3>2. CASE at # d + 1
        <4>1. at \in 0 .. d
          BY <3>2
        <4>2. h[at] = g[at] /\ (at # 0 => h[at - 1] = g[at - 1])
          BY <3>2, <4>1
        <4>3. g[at] = V(g, at)
          <5> HIDE DEF V
          <5> QED
            BY <2>1, <4>1
        <4> HIDE DEF h
        <4> QED
          BY <4>2, <4>3
      <3> QED
        BY <3>1, <3>2
    <2>3. h = [at \in 0 .. d + 1 |-> V(h, at)]
      <3>1. h = [at \in 0 .. d + 1 |-> h[at]]
        OBVIOUS
      <3> HIDE DEF h, V
      <3> QED
        BY <2>2, <3>1
    <2> HIDE DEF h, V
    <2>4. d + 1 \in Nat
      OBVIOUS
    <2> QED
      BY <2>3, <2>4
  <1> HIDE DEF S
  <1>3. top \in S
    BY <1>1, <1>2, SetInduction
  <1> QED
    BY <1>3, Zenon DEF S

(* The function of the network, layer by layer.                            *)
LEMMA ComputedValues ==
  ASSUME NetworkGiven
  PROVE  /\ Forward!Function = Computed[Forward!N]
         /\ Computed[0] = [fits |-> TRUE, x |-> input]
         /\ \A at \in 1 .. Forward!N : Computed[at] = LayerResult(Computed[at - 1], at)
  <1> DEFINE V(h, at) == IF at = 0 THEN [fits |-> TRUE, x |-> input]
                                   ELSE LayerResult(h[at - 1], at)
  <1>1. Forward!N \in Nat
    BY DEF NetworkGiven
  <1>2. Computed = [at \in 0 .. Forward!N |-> V(Computed, at)]
    BY <1>1, ComputedExists, Zenon DEF Computed
  <1>3. Forward!Function = Computed[Forward!N]
    BY DEF Forward!Function, Computed, LayerResult
  <1>4. \A at \in 0 .. Forward!N : Computed[at] = V(Computed, at)
    <2> HIDE DEF V
    <2> QED
      BY <1>2
  <1>5. Computed[0] = [fits |-> TRUE, x |-> input]
    <2>1. 0 \in 0 .. Forward!N
      BY <1>1
    <2>2. Computed[0] = V(Computed, 0)
      <3> HIDE DEF V
      <3> QED
        BY <1>4, <2>1
    <2> QED
      BY <2>2
  <1>6. ASSUME NEW at \in 1 .. Forward!N PROVE Computed[at] = LayerResult(Computed[at - 1], at)
    BY <1>1, <1>4
  <1> QED
    BY <1>3, <1>5, <1>6

(* A vector of raw numbers lies in a buffer.                               *)
Holds(u, from, y, len) ==
    from \in Int /\ \A x \in 0 .. len - 1 : u[from + x] = y[x] /\ y[x] \in Forward!Raw

(* A row of a layer is a neuron of the function.                           *)
LEMMA RowIsNeuron ==
  ASSUME NEW l \in Layers, l.weights # None, NEW e \in 0 .. l.out - 1,
         NEW u, NEW from, NEW y, Holds(u, from, y, l.in)
  PROVE  /\ Forward!DenseRow(l.weights, l.bias, u, from, e, l.in, l.activation) \in Forward!Raw
         /\ Forward!Neuron(l, y, e).fits =>
                Forward!DenseRow(l.weights, l.bias, u, from, e, l.in, l.activation)
                    = Forward!Neuron(l, y, e).v
  <1> DEFINE w == l.weights
             d == l.in
             p == e * d
             total == Sum([x \in 0 .. d - 1 |-> w[p + x] * u[from + x]], 0, d)
             scaled == IF total < 0 THEN -((-total) \div One) ELSE total \div One
             offset == IF l.bias = None THEN 0 ELSE l.bias[e]
             v == scaled + offset
  <1>0. from \in Int /\ \A x \in 0 .. d - 1 : u[from + x] = y[x] /\ y[x] \in Forward!Raw
    BY DEF Holds
  <1>1. d \in Nat /\ l.out \in Nat /\ p \in Nat
    BY LayerParts
  <1>2. \A x \in 0 .. d - 1 : p + x \in 0 .. d * l.out - 1
    <2>1. e \in 0 .. l.out - 1 /\ d * l.out = l.out * d
      BY <1>1
    <2> HIDE DEF d
    <2> QED
      BY <1>1, <2>1, CellInMatrix
  <1>3. \A x \in Forward!Raw : x \in Int
    BY KernelNumbers DEF Forward!Raw
  <1>4. \A x \in 0 .. d - 1 : w[p + x] \in Int /\ u[from + x] \in Int
    BY <1>0, <1>2, <1>3, LayerParts
  <1>5. Forward!DotRaw(w, p, u, from, d) = total /\ total \in Int
    <2> DEFINE f == [x \in 0 .. d - 1 |-> w[p + x] * u[from + x]]
    <2>1. p \in Int
      BY <1>1
    <2>2. \A x \in 0 .. d - 1 : f[x] = w[p + x] * u[from + x]
      OBVIOUS
    <2> HIDE DEF w, d, p, f
    <2>3. AreProducts(f, w, p, u, from, d)
      BY <1>0, <1>1, <1>4, <2>1, <2>2 DEF AreProducts
    <2>4. Forward!DotRaw(w, p, u, from, d) = Sum(f, 0, d) /\ Sum(f, 0, d) \in Int
      BY <2>3, DotIsSum
    <2> QED
      BY <2>4 DEF f
  <1>6. Forward!Total([x \in 0 .. l.in - 1 |-> l.weights[e * l.in + x] * y[x]], 0, l.in) = total
    <2> DEFINE f == [x \in 0 .. d - 1 |-> w[p + x] * y[x]]
               g == [x \in 0 .. d - 1 |-> w[p + x] * u[from + x]]
    <2>1. \A x \in 0 .. d - 1 : f[x] = g[x]
      BY <1>0
    <2>2. Sum(f, 0, d) = Sum(g, 0, d)
      <3>1. d \in Int /\ 0 \in Int
        BY <1>1
      <3> HIDE DEF f, g, d
      <3> QED
        BY <2>1, <3>1, SumSame, Zenon
    <2>3. Forward!Total(f, 0, d) = Sum(f, 0, d)
      BY <1>1, KernelSums
    <2> QED
      BY <2>2, <2>3
  <1>7. Forward!DenseRow(w, l.bias, u, from, e, d, l.activation)
            = Forward!FinishAcc(total, l.bias, e, l.activation)
    <2> HIDE DEF total
    <2> QED
      BY <1>5 DEF Forward!DenseRow
  <1>8. Forward!DenseRow(w, l.bias, u, from, e, d, l.activation) \in Forward!Raw
    <2> HIDE DEF total
    <2>1. l.bias # None => l.bias[e] \in Forward!Raw
      BY LayerParts
    <2> QED
      BY <1>5, <1>7, <2>1, FinishIsRaw
  <1> HIDE DEF total
  <1>9. Forward!Downscale(total) = scaled /\ scaled \in Int
    BY <1>5, KernelNumbers DEF Forward!Downscale
  <1>10. Forward!Neuron(l, y, e) =
            IF l.activation = "relu" /\ v < 0
            THEN [fits |-> scaled \in Forward!Raw /\ v \in Forward!Raw, v |-> 0]
            ELSE [fits |-> scaled \in Forward!Raw /\ v \in Forward!Raw, v |-> v]
    BY <1>6, Zenon DEF Forward!Neuron
  <1> HIDE DEF scaled
  <1>11. ASSUME Forward!Neuron(l, y, e).fits
         PROVE  /\ Forward!Wrapped(scaled) = scaled
                /\ IF l.bias = None THEN v = scaled
                                    ELSE v = scaled + l.bias[e] /\ Forward!Wrapped(v) = v
                /\ v \in Int
    <2>1. scaled \in Forward!Raw /\ v \in Forward!Raw
      <3> HIDE DEF v
      <3>1. Forward!Neuron(l, y, e).fits = (scaled \in Forward!Raw /\ v \in Forward!Raw)
        BY <1>10
      <3> QED
        BY <1>11, <3>1, Zenon
    <2>2. v \in Int
      <3> HIDE DEF v
      <3> QED
        BY <1>3, <2>1
    <2>3. Forward!Wrapped(scaled) = scaled /\ Forward!Wrapped(v) = v
      <3> HIDE DEF v
      <3> QED
        BY <1>9, <2>1, <2>2, WrappedIsRaw
    <2>4. IF l.bias = None THEN v = scaled ELSE v = scaled + l.bias[e]
      BY <1>9
    <2> QED
      BY <2>2, <2>3, <2>4
  <1>12. ASSUME Forward!Neuron(l, y, e).fits
         PROVE  Forward!FinishAcc(total, l.bias, e, l.activation) = Forward!Neuron(l, y, e).v
    <2>1. Forward!FinishAcc(total, l.bias, e, l.activation)
              = IF l.activation = "relu" THEN Forward!ReluRaw(v) ELSE v
      <3> HIDE DEF v
      <3> QED
        BY <1>9, <1>11, <1>12 DEF Forward!FinishAcc
    <2>2. v \in Int
      BY <1>11, <1>12
    <2> HIDE DEF v
    <2> QED
      BY <1>10, <2>1, <2>2 DEF Forward!ReluRaw
  <1> QED
    BY <1>7, <1>8, <1>12

(* What has been computed is the network's function, if that is defined.   *)
FunctionReached ==
    /\ status = "running" =>
           /\ Computed[i].fits =>
                  \A x \in 0 .. layers[i + 1].in - 1 :
                      Held(Forward!Source(i), x) = Computed[i].x[x]
           /\ Computed[i + 1].fits =>
                  \A x \in 0 .. r - 1 : Held(Forward!Destination(i), x) = Computed[i + 1].x[x]
    /\ status = "OK" /\ Computed[Forward!N].fits =>
           \A x \in 0 .. layers[Forward!N].out - 1 : output[x] = Computed[Forward!N].x[x]

(* The inductive invariant of a call of mlp_fxp_forward.                   *)
ForwardInv ==
    NetworkGiven /\ BuffersTyped /\ Progress /\ CellsWritten /\ FunctionReached

(* What the arguments of the call determine stays.                         *)
LEMMA CallUnchanged ==
  ASSUME UNCHANGED <<layers, input, workLen>>
  PROVE  /\ UNCHANGED <<Forward!N, Forward!Widest, Forward!RequiredWorkLen, Computed, NetworkGiven>>
         /\ \A x : Forward!LayerError(x)' = Forward!LayerError(x)
         /\ \A x : Forward!Destination(x)' = Forward!Destination(x)
         /\ \A x : Forward!Source(x)' = Forward!Source(x)
         /\ \A x : Accepted(x)' = Accepted(x)
  <1>1. UNCHANGED <<Forward!N, Forward!Widest, Forward!RequiredWorkLen, NetworkGiven>>
    BY DEF Forward!N, Forward!Widest, Forward!RequiredWorkLen, NetworkGiven
  <1>2. Computed' = Computed
    BY <1>1 DEF Computed, LayerResult
  <1>3. \A x : Forward!LayerError(x)' = Forward!LayerError(x)
    BY DEF Forward!LayerError
  <1>4. \A x : Forward!Destination(x)' = Forward!Destination(x)
    BY <1>1 DEF Forward!Destination
  <1>5. \A x : Forward!Source(x)' = Forward!Source(x)
    BY <1>4 DEF Forward!Source
  <1>6. \A x : Accepted(x)' = Accepted(x)
    BY <1>3 DEF Accepted
  <1> QED
    BY <1>1, <1>2, <1>3, <1>4, <1>5, <1>6

(* A call begins with its checks, before anything is written.              *)
LEMMA ForwardStarts == Forward!Init => ForwardInv
  <1> SUFFICES ASSUME Forward!Init PROVE ForwardInv
    OBVIOUS
  <1>1. NetworkGiven
    <2>1. PICK top \in 0 .. MaxLayers : layers \in [1 .. top -> Layers]
      BY DEF Forward!Init
    <2>2. top \in Nat /\ Len(layers) = top
      BY <2>1, LayerParts
    <2> QED
      BY <2>1, <2>2 DEF NetworkGiven, Forward!N, Forward!Init
  <1>2. /\ Forward!Widest \in Nat /\ Forward!Widest <= Forward!MaxOut
        /\ Forward!RequiredWorkLen = 2 * Forward!Widest
    BY <1>1, WidestIsLargest
  <1>3. workLen \in 0 .. 2 * Forward!MaxOut + 3
    BY <1>2, LayerParts DEF Forward!Init
  <1>4. BuffersTyped /\ output = Blank
    BY <1>3 DEF BuffersTyped, Blank, Forward!Init
  <1>5. Accepted(0)
    BY DEF Accepted
  <1> QED
    BY <1>1, <1>4, <1>5 DEF ForwardInv, Forward!Init, Progress, CellsWritten, FunctionReached,
       NetworkGiven

(* An empty network is refused, any other is checked layer by layer.       *)
LEMMA ForwardCheckNetwork == ForwardInv /\ Forward!CheckNetwork => ForwardInv'
  <1> SUFFICES ASSUME ForwardInv, Forward!CheckNetwork PROVE ForwardInv'
    OBVIOUS
  <1>1. /\ UNCHANGED <<layers, input, workLen>>
        /\ UNCHANGED <<work, output, i, r>>
        /\ status = "checking" /\ status' = "ARG" /\ Forward!N = 0
    BY DEF Forward!CheckNetwork, Forward!call
  <1> USE <1>1, CallUnchanged
  <1>2. BuffersTyped' /\ NetworkGiven'
    BY DEF ForwardInv, BuffersTyped
  <1>3. Progress'
    BY DEF ForwardInv, Progress, Blank
  <1> QED
    BY <1>2, <1>3 DEF ForwardInv, CellsWritten, FunctionReached

(* A layer that fits its predecessor extends the accepted ones.            *)
LEMMA ForwardCheckLayer == ForwardInv /\ Forward!CheckLayer => ForwardInv'
  <1> SUFFICES ASSUME ForwardInv, Forward!CheckLayer PROVE ForwardInv'
    OBVIOUS
  <1>1. /\ UNCHANGED <<layers, input, workLen>>
        /\ UNCHANGED <<work, output, r>>
        /\ status = "checking" /\ i < Forward!N
        /\ \/ Forward!LayerError(i + 1) = "OK" /\ i' = i + 1 /\ status' = status
           \/ /\ Forward!LayerError(i + 1) # "OK"
              /\ status' = Forward!LayerError(i + 1) /\ i' = i
    BY DEF Forward!CheckLayer, Forward!call
  <1>2. /\ UNCHANGED <<Forward!N, NetworkGiven>>
        /\ \A x : Accepted(x)' = Accepted(x)
    BY <1>1, CallUnchanged
  <1>3. BuffersTyped' /\ NetworkGiven'
    BY <1>1, <1>2 DEF ForwardInv, BuffersTyped
  <1>4. Forward!N \in Nat /\ i \in 0 .. Forward!N /\ r = 0 /\ output = Blank /\ Accepted(i)
    BY <1>1 DEF ForwardInv, NetworkGiven, Progress
  <1>5. CASE Forward!LayerError(i + 1) = "OK" /\ i' = i + 1 /\ status' = status
    <2>1. Accepted(i + 1) /\ i + 1 \in 0 .. Forward!N
      BY <1>1, <1>4, <1>5 DEF Accepted
    <2>2. Progress'
      BY <1>1, <1>2, <1>4, <1>5, <2>1 DEF Progress, Blank
    <2> QED
      BY <1>1, <1>3, <1>5, <2>2 DEF ForwardInv, CellsWritten, FunctionReached
  <1>6. CASE Forward!LayerError(i + 1) # "OK" /\ status' = Forward!LayerError(i + 1) /\ i' = i
    <2>1. Forward!LayerError(i + 1) \in {"ARG", "SHAPE"}
      BY <1>6 DEF Forward!LayerError
    <2>2. ~Accepted(Forward!N)
      BY <1>1, <1>4, <1>6 DEF Accepted
    <2>3. Progress'
      BY <1>1, <1>2, <1>4, <1>6, <2>1, <2>2 DEF Progress, Blank
    <2> QED
      BY <1>3, <1>6, <2>1, <2>3 DEF ForwardInv, CellsWritten, FunctionReached
  <1> QED
    BY <1>1, <1>5, <1>6

(* The first layer begins when all are accepted and the work space is      *)
(* there.                                                                  *)
LEMMA ForwardCheckWork == ForwardInv /\ Forward!CheckWork => ForwardInv'
  <1> SUFFICES ASSUME ForwardInv, Forward!CheckWork PROVE ForwardInv'
    OBVIOUS
  <1>1. /\ UNCHANGED <<layers, input, workLen>>
        /\ UNCHANGED <<work, output>>
        /\ status = "checking" /\ Forward!N > 0 /\ i = Forward!N
        /\ status' = IF workLen < Forward!RequiredWorkLen
                        \/ (Forward!RequiredWorkLen # 0 /\ work = None)
                     THEN "WORK" ELSE "running"
        /\ i' = 0 /\ r' = 0
    BY DEF Forward!CheckWork, Forward!call
  <1>2. /\ UNCHANGED <<Forward!N, NetworkGiven, Forward!RequiredWorkLen, Computed>>
        /\ \A x : Accepted(x)' = Accepted(x)
        /\ Forward!Source(0)' = Forward!Source(0)
    BY <1>1, CallUnchanged
  <1>3. BuffersTyped' /\ NetworkGiven'
    BY <1>1, <1>2 DEF ForwardInv, BuffersTyped
  <1>4. Forward!N \in Nat /\ Accepted(Forward!N) /\ output = Blank
    BY <1>1 DEF ForwardInv, NetworkGiven, Progress
  <1>5. Forward!RequiredWorkLen \in Nat /\ workLen \in Nat
    BY <1>4, WidestIsLargest, LayerParts DEF ForwardInv, BuffersTyped
  <1>6. 1 \in 1 .. Forward!N /\ layers[1] \in Layers /\ layers[1].out \in Nat
    BY <1>1, <1>4, LayerParts DEF ForwardInv, NetworkGiven
  <1>7. IF Roomy THEN status' = "running" ELSE status' = "WORK"
    BY <1>1, <1>5 DEF Roomy
  <1>8. Roomy' = Roomy
    BY <1>1, <1>2 DEF Roomy
  <1>9. Progress'
    BY <1>1, <1>2, <1>4, <1>6, <1>7, <1>8 DEF Progress, Blank
  <1>10. \A x \in 0 .. layers[1].in - 1 : /\ Held(Forward!Source(0), x)' = input[x]
                                         /\ input[x] \in Forward!Raw
    <2>1. \A x \in Int : 0 + x = x
      OBVIOUS
    <2> QED
      BY <1>1, <1>2, <1>6, <2>1, LayerParts
         DEF Held, Forward!Source, Forward!Contents, ForwardInv, NetworkGiven
  <1>11. Computed[0] = [fits |-> TRUE, x |-> input]
    BY ComputedValues DEF ForwardInv
  <1>12. CellsWritten'
    BY <1>1, <1>10 DEF CellsWritten
  <1>13. FunctionReached'
    BY <1>1, <1>2, <1>7, <1>10, <1>11 DEF FunctionReached
  <1> QED
    BY <1>3, <1>9, <1>12, <1>13 DEF ForwardInv

(* The parts of a layer's result.                                          *)
LEMMA LayerResultParts ==
  ASSUME NEW before, NEW at
  PROVE  /\ LayerResult(before, at).fits
                = (before.fits /\ \A e \in 0 .. layers[at].out - 1 :
                                     Forward!Neuron(layers[at], before.x, e).fits)
         /\ LayerResult(before, at).x
                = [e \in 0 .. layers[at].out - 1 |-> Forward!Neuron(layers[at], before.x, e).v]
  <1> DEFINE l == layers[at]
             y == [e \in 0 .. l.out - 1 |-> Forward!Neuron(l, before.x, e)]
             P == before.fits /\ \A e \in DOMAIN y : y[e].fits
             Q == before.fits /\ \A e \in 0 .. l.out - 1 : Forward!Neuron(l, before.x, e).fits
             g == [e \in DOMAIN y |-> y[e].v]
  <1>1. LayerResult(before, at) = [fits |-> P, x |-> g]
    BY DEF LayerResult
  <1>2. DOMAIN y = 0 .. l.out - 1 /\ \A e \in 0 .. l.out - 1 : y[e] = Forward!Neuron(l, before.x, e)
    OBVIOUS
  <1>3. P = Q
    <2> HIDE DEF y, l
    <2> QED
      BY <1>2, Zenon
  <1>4. g = [e \in 0 .. l.out - 1 |-> Forward!Neuron(l, before.x, e).v]
    <2> HIDE DEF y, l
    <2> QED
      BY <1>2
  <1> HIDE DEF P, g
  <1>5. LayerResult(before, at).fits = P /\ LayerResult(before, at).x = g
    BY <1>1
  <1> QED
    BY <1>3, <1>4, <1>5, Zenon

(* The number that ComputeRow writes.                                      *)
RowValue ==
    LET l == layers[i + 1]
        src == Forward!Source(i)
    IN  Forward!DenseRow(l.weights, l.bias, Forward!Contents(src.buffer), src.from, r, l.in,
                         l.activation)

(* It is the neuron of the network's function, as long as that is defined. *)
LEMMA RowValueIsNeuron ==
  ASSUME ForwardInv, status = "running", r < layers[i + 1].out
  PROVE  /\ RowValue \in Forward!Raw
         /\ Computed[i + 1].fits =>
                /\ Computed[i].fits
                /\ Computed[i + 1].x[r] = RowValue
  <1> DEFINE l == layers[i + 1]
             src == Forward!Source(i)
             u == Forward!Contents(src.buffer)
             y == [x \in 0 .. l.in - 1 |-> u[src.from + x]]
  <1>1. /\ Forward!N \in Nat /\ i \in 0 .. Forward!N - 1 /\ i + 1 \in 1 .. Forward!N
        /\ Accepted(Forward!N) /\ Roomy
    BY DEF ForwardInv, NetworkGiven, Progress
  <1>2. /\ l \in Layers /\ l.weights # None /\ l.in \in Nat /\ l.out \in Nat
    BY <1>1, AcceptedLayers, LayerParts DEF ForwardInv
  <1>3. r \in 0 .. l.out - 1
    BY <1>2 DEF ForwardInv, Progress
  <1>4. src.from \in Int
    BY <1>1, Places DEF ForwardInv
  <1>5. \A x \in 0 .. l.in - 1 : u[src.from + x] \in Forward!Raw
    BY DEF ForwardInv, CellsWritten, Held
  <1>6. RowValue = Forward!DenseRow(l.weights, l.bias, u, src.from, r, l.in, l.activation)
    BY DEF RowValue
  <1>7. Holds(u, src.from, y, l.in)
    <2> HIDE DEF u, src, l
    <2> QED
      BY <1>4, <1>5 DEF Holds
  <1>8. RowValue \in Forward!Raw
    <2> HIDE DEF l, src, u, y
    <2> QED
      BY <1>2, <1>3, <1>6, <1>7, RowIsNeuron
  <1>9. ASSUME Computed[i + 1].fits
        PROVE  Computed[i].fits /\ Computed[i + 1].x[r] = RowValue
    <2> DEFINE before == Computed[i]
    <2>1. Computed[i + 1] = LayerResult(before, i + 1)
      <3>1. (i + 1) - 1 = i
        BY <1>1
      <3> QED
        BY <1>1, <3>1, ComputedValues DEF ForwardInv
    <2> HIDE DEF before
    <2>2. /\ Computed[i + 1].fits
                = (before.fits /\ \A e \in 0 .. l.out - 1 : Forward!Neuron(l, before.x, e).fits)
          /\ Computed[i + 1].x = [e \in 0 .. l.out - 1 |-> Forward!Neuron(l, before.x, e).v]
      BY <2>1, LayerResultParts
    <2>3. before.fits /\ Forward!Neuron(l, before.x, r).fits
      <3> HIDE DEF l
      <3> QED
        BY <1>3, <1>9, <2>2, Zenon
    <2>4. Computed[i + 1].x[r] = Forward!Neuron(l, before.x, r).v
      BY <1>3, <2>2
    <2>5. Holds(u, src.from, before.x, l.in)
      <3>1. \A x \in 0 .. l.in - 1 : u[src.from + x] = before.x[x]
        BY <2>3 DEF ForwardInv, FunctionReached, Held, before
      <3> HIDE DEF u, src, l
      <3> QED
        BY <1>4, <1>5, <3>1 DEF Holds
    <2>6. RowValue = Forward!Neuron(l, before.x, r).v
      <3> HIDE DEF l, src, u, y
      <3> QED
        BY <1>2, <1>3, <1>6, <2>3, <2>5, RowIsNeuron
    <2> QED
      BY <2>3, <2>4, <2>6 DEF before
  <1> QED
    BY <1>8, <1>9

(* It writes it at its place, and leaves the layer's input alone.          *)
LEMMA RowIsWritten ==
  ASSUME ForwardInv, Forward!ComputeRow
  PROVE  /\ \A x \in 0 .. layers[i + 1].in - 1 :
                Held(Forward!Source(i), x)' = Held(Forward!Source(i), x)
         /\ \A x \in 0 .. r : Held(Forward!Destination(i), x)'
                                = IF x = r THEN RowValue ELSE Held(Forward!Destination(i), x)
         /\ BuffersTyped'
  <1> DEFINE dst == Forward!Destination(i)
             src == Forward!Source(i)
  <1>1. /\ status = "running" /\ i < Forward!N /\ r < layers[i + 1].out
        /\ IF dst.buffer = "work"
           THEN work' = [work EXCEPT ![dst.from + r] = RowValue] /\ UNCHANGED output
           ELSE output' = [output EXCEPT ![dst.from + r] = RowValue] /\ UNCHANGED work
        /\ UNCHANGED <<layers, input, workLen>> /\ UNCHANGED <<i, status>>
    BY DEF Forward!ComputeRow, RowValue, Forward!call
  <1>2. /\ Forward!N \in Nat /\ i \in 0 .. Forward!N - 1
        /\ Accepted(Forward!N) /\ Roomy /\ NetworkGiven /\ BuffersTyped
    BY <1>1 DEF ForwardInv, NetworkGiven, Progress
  <1>3. layers[i + 1].in \in Nat /\ layers[i + 1].out \in Nat /\ r \in 0 .. layers[i + 1].out - 1
    BY <1>1, <1>2, Places DEF ForwardInv, Progress
  <1>4. /\ src' = src /\ dst' = dst
    BY <1>1, CallUnchanged
  <1>5. RowValue \in Forward!Raw
    BY <1>1, RowValueIsNeuron
  <1>6. workLen \in Nat
    BY <1>2, LayerParts DEF BuffersTyped
  <1>7. CASE i + 1 = Forward!N
    <2>1. dst = [buffer |-> "output", from |-> 0] /\ layers[i + 1].out <= Forward!MaxOut
      BY <1>2, <1>7, Places
    <2>2. output' = [output EXCEPT ![r] = RowValue] /\ work' = work
      BY <1>1, <1>3, <2>1
    <2>3. src.buffer \in {"input", "work"}
      BY <1>2, Places
    <2>4. \A x \in 0 .. layers[i + 1].in - 1 : Held(src, x)' = Held(src, x)
      BY <1>1, <1>4, <2>2, <2>3 DEF Held, Forward!Contents
    <2>5. \A x \in 0 .. r : 0 + x = x /\ x \in 0 .. Forward!MaxOut - 1
      BY <1>3, <2>1, LayerParts
    <2>6. DOMAIN output = 0 .. Forward!MaxOut - 1
      BY <1>2 DEF BuffersTyped
    <2>7. \A x \in 0 .. r : output'[x] = IF x = r THEN RowValue ELSE output[x]
      BY <2>2, <2>5, <2>6
    <2>8. \A x \in 0 .. r : Held(dst, x)' = IF x = r THEN RowValue ELSE Held(dst, x)
      BY <1>4, <2>1, <2>5, <2>7 DEF Held, Forward!Contents
    <2>9. BuffersTyped'
      BY <1>1, <1>2, <1>5, <2>2 DEF BuffersTyped
    <2> HIDE DEF dst, src
    <2> QED
      BY <2>4, <2>8, <2>9 DEF dst, src
  <1>8. CASE i + 1 # Forward!N
    <2>1. /\ dst.buffer = "work" /\ work # None
          /\ dst.from = IF i % 2 = 1 THEN Forward!Widest ELSE 0
          /\ layers[i + 1].out <= Forward!Widest
          /\ 2 * Forward!Widest <= workLen /\ Forward!Widest \in Nat
      BY <1>2, <1>8, Places
    <2>2. /\ work' = [work EXCEPT ![dst.from + r] = RowValue] /\ output' = output
          /\ work \in [0 .. workLen - 1 -> Forward!Raw \cup {Junk}]
      BY <1>1, <1>2, <2>1 DEF BuffersTyped
    <2>3. \/ src.buffer = "input"
          \/ /\ src.buffer = "work"
             /\ src.from = IF i % 2 = 0 THEN Forward!Widest ELSE 0
             /\ layers[i + 1].in <= Forward!Widest
      BY <1>2, Places
    <2> HIDE DEF dst, src
    <2>4. ASSUME NEW x \in 0 .. layers[i + 1].in - 1 PROVE Held(src, x)' = Held(src, x)
      <3>1. CASE src.buffer = "input"
        BY <1>1, <1>4, <3>1 DEF Held, Forward!Contents
      <3>2. CASE src.buffer # "input"
        <4>1. src.from + x # dst.from + r /\ src.from + x \in 0 .. workLen - 1
          BY <1>2, <1>3, <1>6, <2>1, <2>3, <3>2
        <4>2. work'[src.from + x] = work[src.from + x]
          BY <2>2, <4>1
        <4> QED
          BY <1>4, <2>3, <3>2, <4>2 DEF Held, Forward!Contents
      <3> QED
        BY <3>1, <3>2
    <2>5. ASSUME NEW x \in 0 .. r
          PROVE  Held(dst, x)' = IF x = r THEN RowValue ELSE Held(dst, x)
      <3>1. /\ dst.from + x \in 0 .. workLen - 1 /\ x \in Int /\ r \in Int
            /\ dst.from + x = dst.from + r <=> x = r
        BY <1>3, <1>6, <2>1
      <3>2. work'[dst.from + x] = IF x = r THEN RowValue ELSE work[dst.from + x]
        BY <2>2, <3>1
      <3> QED
        BY <1>4, <2>1, <3>2 DEF Held, Forward!Contents
    <2>6. BuffersTyped'
      <3>1. work' \in [0 .. workLen - 1 -> Forward!Raw \cup {Junk}]
        BY <1>5, <2>2
      <3> QED
        BY <1>1, <1>2, <2>2, <3>1 DEF BuffersTyped
    <2> QED
      BY <2>4, <2>5, <2>6 DEF dst, src
  <1> QED
    BY <1>7, <1>8

(* A row more of the layer is written.                                     *)
LEMMA ForwardComputeRow == ForwardInv /\ Forward!ComputeRow => ForwardInv'
  <1> SUFFICES ASSUME ForwardInv, Forward!ComputeRow PROVE ForwardInv'
    OBVIOUS
  <1>1. /\ status = "running" /\ i < Forward!N /\ r < layers[i + 1].out
        /\ UNCHANGED <<layers, input, workLen>> /\ UNCHANGED <<i, status>> /\ r' = r + 1
    BY DEF Forward!ComputeRow, Forward!call
  <1>2. /\ UNCHANGED <<Forward!N, NetworkGiven, Forward!RequiredWorkLen, Computed>>
        /\ \A x : Accepted(x)' = Accepted(x)
        /\ Forward!Source(i)' = Forward!Source(i)
        /\ Forward!Destination(i)' = Forward!Destination(i)
    BY <1>1, CallUnchanged
  <1>3. /\ \A x \in 0 .. layers[i + 1].in - 1 :
               Held(Forward!Source(i), x)' = Held(Forward!Source(i), x)
        /\ \A x \in 0 .. r : Held(Forward!Destination(i), x)'
                               = IF x = r THEN RowValue ELSE Held(Forward!Destination(i), x)
        /\ BuffersTyped'
    BY RowIsWritten
  <1>4. /\ RowValue \in Forward!Raw
        /\ Computed[i + 1].fits => Computed[i].fits /\ Computed[i + 1].x[r] = RowValue
    BY <1>1, RowValueIsNeuron
  <1>5. Roomy /\ NetworkGiven /\ Accepted(Forward!N) /\ i \in 0 .. Forward!N - 1 /\ Forward!N > 0
    BY <1>1 DEF ForwardInv, Progress, NetworkGiven
  <1>6. layers[i + 1].out \in Nat /\ r \in 0 .. layers[i + 1].out
    BY <1>1, <1>5, Places DEF ForwardInv, Progress
  <1>7. Roomy'
    <2>1. i + 1 # Forward!N => work # None
      <3>1. i + 1 # Forward!N => i + 1 < Forward!N
        BY <1>5 DEF NetworkGiven
      <3> QED
        BY <1>5, <3>1, Places DEF ForwardInv
    <2>2. work' # None \/ work' = work
      <3>1. workLen \in 0 .. 2 * Forward!MaxOut + 3
        BY DEF ForwardInv, BuffersTyped
      <3>2. CASE work = None
        BY <1>1, <1>5, <2>1, <3>2, Places DEF Forward!ComputeRow, ForwardInv
      <3>3. CASE work # None
        <4>1. work \in [0 .. workLen - 1 -> Forward!Raw \cup {Junk}]
          BY <3>3 DEF ForwardInv, BuffersTyped
        <4>2. work' \in [0 .. workLen - 1 -> Forward!Raw \cup {Junk}]
          BY <1>4, <4>1 DEF Forward!ComputeRow, RowValue
        <4> QED
          BY <3>1, <4>2, LayerParts
      <3> QED
        BY <3>2, <3>3
    <2> QED
      BY <1>1, <1>2, <1>5, <2>2 DEF Roomy
  <1>8. Progress'
    BY <1>1, <1>2, <1>5, <1>6, <1>7 DEF ForwardInv, Progress
  <1>9. CellsWritten'
    <2>1. \A x \in 0 .. layers[i + 1].in - 1 : Held(Forward!Source(i), x) \in Forward!Raw
      BY <1>1 DEF ForwardInv, CellsWritten
    <2>2. \A x \in 0 .. r - 1 : Held(Forward!Destination(i), x) \in Forward!Raw
      BY <1>1 DEF ForwardInv, CellsWritten
    <2>3. \A x \in 0 .. r' - 1 : x \in 0 .. r /\ (x # r => x \in 0 .. r - 1)
      BY <1>1, <1>6
    <2> QED
      BY <1>1, <1>2, <1>3, <1>4, <2>1, <2>2, <2>3 DEF CellsWritten
  <1>10. FunctionReached'
    <2>1. Computed[i].fits =>
              \A x \in 0 .. layers[i + 1].in - 1 : Held(Forward!Source(i), x) = Computed[i].x[x]
      BY <1>1 DEF ForwardInv, FunctionReached
    <2>2. Computed[i + 1].fits =>
              \A x \in 0 .. r - 1 : Held(Forward!Destination(i), x) = Computed[i + 1].x[x]
      BY <1>1 DEF ForwardInv, FunctionReached
    <2>3. \A x \in 0 .. r' - 1 : x \in 0 .. r /\ (x # r => x \in 0 .. r - 1)
      BY <1>1, <1>6
    <2> QED
      BY <1>1, <1>2, <1>3, <1>4, <2>1, <2>2, <2>3 DEF FunctionReached
  <1> QED
    BY <1>2, <1>3, <1>8, <1>9, <1>10 DEF ForwardInv

(* What a layer wrote is what the next one reads.                          *)
LEMMA ForwardNextLayer == ForwardInv /\ Forward!NextLayer => ForwardInv'
  <1> SUFFICES ASSUME ForwardInv, Forward!NextLayer PROVE ForwardInv'
    OBVIOUS
  <1>1. /\ status = "running" /\ i < Forward!N /\ r = layers[i + 1].out
        /\ UNCHANGED <<layers, input, workLen>> /\ UNCHANGED <<work, output>>
        /\ i' = i + 1 /\ r' = 0
        /\ status' = IF i + 1 = Forward!N THEN "OK" ELSE "running"
    BY DEF Forward!NextLayer, Forward!call
  <1>2. /\ UNCHANGED <<Forward!N, NetworkGiven, Forward!RequiredWorkLen, Computed>>
        /\ \A x : Accepted(x)' = Accepted(x)
        /\ \A x : Forward!Source(x)' = Forward!Source(x)
        /\ \A x : Forward!Destination(x)' = Forward!Destination(x)
    BY <1>1, CallUnchanged
  <1>3. /\ Roomy /\ NetworkGiven /\ Accepted(Forward!N) /\ i \in 0 .. Forward!N - 1
        /\ Forward!N \in Nat /\ Forward!N > 0 /\ BuffersTyped
    BY <1>1 DEF ForwardInv, Progress, NetworkGiven
  <1>4. layers[i + 1].out \in Nat
    BY <1>3, Places
  <1>5. BuffersTyped' /\ Roomy'
    BY <1>1, <1>2, <1>3 DEF BuffersTyped, Roomy
  <1>6. /\ \A x \in 0 .. layers[i + 1].out - 1 : Held(Forward!Destination(i), x) \in Forward!Raw
        /\ Computed[i + 1].fits => \A x \in 0 .. layers[i + 1].out - 1 :
               Held(Forward!Destination(i), x) = Computed[i + 1].x[x]
    BY <1>1 DEF ForwardInv, CellsWritten, FunctionReached
  <1>7. CASE i + 1 = Forward!N
    <2>1. Forward!Destination(i) = [buffer |-> "output", from |-> 0]
      BY <1>3, <1>7, Places
    <2>2. \A x \in Int : Held(Forward!Destination(i), x) = output[x]
      <3>1. \A x \in Int : 0 + x = x
        OBVIOUS
      <3> QED
        BY <2>1, <3>1 DEF Held, Forward!Contents
    <2>3. FunctionReached'
      BY <1>1, <1>2, <1>6, <1>7, <2>2 DEF FunctionReached
    <2>4. Progress'
      BY <1>1, <1>2, <1>3, <1>5, <1>7 DEF Progress
    <2>5. CellsWritten'
      BY <1>1, <1>7 DEF CellsWritten
    <2> QED
      BY <1>2, <1>3, <1>5, <2>3, <2>4, <2>5 DEF ForwardInv
  <1>8. CASE i + 1 # Forward!N
    <2>1. /\ i + 1 \in 0 .. Forward!N - 1 /\ i + 1 > 0 /\ (i + 1) - 1 = i
          /\ (i + 1) + 1 \in 1 .. Forward!N /\ ((i + 1) + 1) - 1 = i + 1 /\ (i + 1) + 1 > 1
      BY <1>3, <1>8
    <2>2. /\ Forward!Source(i + 1) = Forward!Destination(i)
          /\ layers[(i + 1) + 1].out \in Nat
      BY <1>3, <2>1, Places
    <2>3. layers[(i + 1) + 1].in = layers[i + 1].out
      BY <1>3, <2>1, AcceptedLayers
    <2>4. Progress'
      BY <1>1, <1>2, <1>3, <1>5, <1>8, <2>1, <2>2 DEF Progress
    <2>5. \A x : (Held(Forward!Source(i), x))' = Held(Forward!Destination(i), x)
      BY <1>1, <1>2, <2>2 DEF Held, Forward!Contents
    <2>6. CellsWritten'
      BY <1>1, <1>6, <2>3, <2>5 DEF CellsWritten
    <2>7. FunctionReached'
      BY <1>1, <1>2, <1>6, <1>8, <2>3, <2>5 DEF FunctionReached
    <2> QED
      BY <1>2, <1>3, <1>5, <2>4, <2>6, <2>7 DEF ForwardInv
  <1> QED
    BY <1>7, <1>8

(* The invariant is kept by every step of the call.                        *)
LEMMA ForwardStep == ForwardInv /\ Forward!Next => ForwardInv'
  BY ForwardCheckNetwork, ForwardCheckLayer, ForwardCheckWork, ForwardComputeRow,
     ForwardNextLayer DEF Forward!Next

(* What the invariant says at a running layer.                             *)
LEMMA RunningLayer ==
  ASSUME ForwardInv, status = "running"
  PROVE  /\ NetworkGiven /\ BuffersTyped /\ Roomy /\ Accepted(Forward!N)
         /\ Forward!N \in Nat /\ i \in 0 .. Forward!N - 1
         /\ \A x \in 0 .. layers[i + 1].in - 1 : Held(Forward!Source(i), x) \in Forward!Raw
  BY DEF ForwardInv, Progress, CellsWritten, NetworkGiven

(* The rows stay within the widest layer.                                  *)
LEMMA ForwardTyped == ForwardInv => Forward!TypeOK
  <1> SUFFICES ASSUME ForwardInv PROVE Forward!TypeOK
    OBVIOUS
  <1>1. r \in 0 .. Forward!MaxOut
    <2>1. CASE status = "running"
      <3>1. layers[i + 1].out <= Forward!MaxOut /\ layers[i + 1].out \in Nat
        BY <2>1, RunningLayer, Places
      <3> QED
        BY <2>1, <3>1, LayerParts DEF ForwardInv, Progress
    <2>2. CASE status # "running"
      BY <2>2, LayerParts DEF ForwardInv, Progress
    <2> QED
      BY <2>1, <2>2
  <1> QED
    BY <1>1 DEF ForwardInv, Progress, BuffersTyped, Forward!TypeOK

(* A layer reads from one half of the work buffer and writes into the      *)
(* other.                                                                  *)
LEMMA ForwardDisjoint == ForwardInv => Forward!BuffersAreDisjoint
  <1> SUFFICES ASSUME ForwardInv, status = "running",
                      NEW cell \in Forward!Cells(Forward!Source(i), layers[i + 1].in),
                      cell \in Forward!Cells(Forward!Destination(i), layers[i + 1].out)
               PROVE  FALSE
    BY DEF Forward!BuffersAreDisjoint
  <1> DEFINE src == Forward!Source(i)
             dst == Forward!Destination(i)
  <1>1. /\ cell.buffer = src.buffer /\ cell.buffer = dst.buffer
        /\ cell.at \in src.from .. src.from + layers[i + 1].in - 1
        /\ cell.at \in dst.from .. dst.from + layers[i + 1].out - 1
    BY DEF Forward!Cells
  <1>2. /\ Forward!N \in Nat /\ i \in 0 .. Forward!N - 1
        /\ layers[i + 1].in \in Nat \ {0} /\ layers[i + 1].out \in Nat \ {0}
        /\ Forward!Widest \in Nat
        /\ i = 0 => src.buffer = "input"
        /\ i > 0 => /\ src.buffer = "work"
                    /\ src.from = IF i % 2 = 0 THEN Forward!Widest ELSE 0
                    /\ layers[i + 1].in <= Forward!Widest
        /\ i + 1 = Forward!N => dst.buffer = "output"
        /\ i + 1 < Forward!N => /\ dst.buffer = "work"
                                /\ dst.from = IF i % 2 = 1 THEN Forward!Widest ELSE 0
                                /\ layers[i + 1].out <= Forward!Widest
    BY RunningLayer, Places
  <1>3. i > 0 /\ i + 1 < Forward!N
    BY <1>1, <1>2
  <1>4. i % 2 = 0 \/ i % 2 = 1
    BY <1>2
  <1> HIDE DEF src, dst
  <1> QED
    BY <1>1, <1>2, <1>3, <1>4

(* A hidden layer fits into its half, and what it reads was written        *)
(* before.                                                                 *)
LEMMA ForwardInside == ForwardInv => Forward!StaysInsideWork
  <1> SUFFICES ASSUME ForwardInv, status = "running", i < Forward!N
               PROVE  /\ Forward!Destination(i).buffer = "work" =>
                             Forward!Destination(i).from + layers[i + 1].out <= workLen
                      /\ Forward!Source(i).buffer = "work" =>
                             \A x \in 0 .. layers[i + 1].in - 1 :
                                 work[Forward!Source(i).from + x] # Junk
    BY DEF Forward!StaysInsideWork
  <1>1. /\ Forward!N \in Nat /\ i \in 0 .. Forward!N - 1
        /\ layers[i + 1].out \in Nat
        /\ Forward!Widest \in Nat /\ 2 * Forward!Widest <= workLen
        /\ i + 1 = Forward!N => Forward!Destination(i).buffer = "output"
        /\ i + 1 < Forward!N =>
               /\ Forward!Destination(i).from = IF i % 2 = 1 THEN Forward!Widest ELSE 0
               /\ layers[i + 1].out <= Forward!Widest
    BY RunningLayer, Places
  <1>2. workLen \in Nat
    BY LayerParts DEF ForwardInv, BuffersTyped
  <1>3. Forward!Destination(i).buffer = "work" =>
            Forward!Destination(i).from + layers[i + 1].out <= workLen
    <2>1. i + 1 = Forward!N \/ i + 1 < Forward!N
      BY <1>1
    <2> QED
      BY <1>1, <1>2, <2>1
  <1>4. \A x \in 0 .. layers[i + 1].in - 1 : Held(Forward!Source(i), x) # Junk
    BY RunningLayer, KernelNumbers
  <1> QED
    BY <1>3, <1>4 DEF Held, Forward!Contents

(* The checks accept the networks that fit together ...                    *)
Fitting ==
    /\ Forward!N > 0
    /\ \A x \in 1 .. Forward!N : /\ layers[x].weights # None
                                 /\ layers[x].in > 0 /\ layers[x].out > 0
                                 /\ layers[x].activation \in {"none", "relu"}
    /\ \A x \in 2 .. Forward!N : layers[x].in = layers[x - 1].out

(* It is those that the checks accept.                                     *)
LEMMA FittingIsAccepted ==
  ASSUME NetworkGiven
  PROVE  Fitting <=> Forward!N > 0 /\ Accepted(Forward!N)
  <1>1. Forward!N \in Nat /\ \A x \in 1 .. Forward!N : layers[x].in \in Nat /\ layers[x].out \in Nat
    BY LayerParts DEF NetworkGiven
  <1>2. ASSUME Fitting PROVE Accepted(Forward!N)
    <2>1. SUFFICES ASSUME NEW x \in 1 .. Forward!N PROVE Forward!LayerError(x) = "OK"
      BY DEF Accepted
    <2>2. x > 1 => x \in 2 .. Forward!N
      BY <1>1
    <2> QED
      BY <1>1, <1>2, <2>2 DEF Fitting, Forward!LayerError
  <1>3. ASSUME Forward!N > 0, Accepted(Forward!N) PROVE Fitting
    <2>1. ASSUME NEW x \in 2 .. Forward!N PROVE layers[x].in = layers[x - 1].out
      <3>1. x \in 1 .. Forward!N /\ x > 1
        BY <1>1
      <3> QED
        BY <1>1, <1>3, <3>1, AcceptedLayers
    <2>2. ASSUME NEW x \in 1 .. Forward!N
          PROVE  /\ layers[x].weights # None
                 /\ layers[x].in > 0 /\ layers[x].out > 0
                 /\ layers[x].activation \in {"none", "relu"}
      BY <1>1, <1>3, AcceptedLayers
    <2> QED
      BY <1>3, <2>1, <2>2 DEF Fitting
  <1> QED
    BY <1>2, <1>3 DEF Fitting

(* ... and have the work space that their hidden layers need.              *)
LEMMA RoomyIsRoom ==
  ASSUME NetworkGiven, BuffersTyped, Forward!N > 0, Accepted(Forward!N)
  PROVE  Roomy <=> \A x \in 1 .. Forward!N - 1 : work # None /\ workLen >= 2 * layers[x].out
  <1>1. /\ Forward!Widest \in Nat
        /\ \A x \in 1 .. Forward!N - 1 : layers[x].out <= Forward!Widest
        /\ Forward!Widest = 0 \/ \E x \in 1 .. Forward!N - 1 : layers[x].out = Forward!Widest
        /\ Forward!RequiredWorkLen = 2 * Forward!Widest
    BY WidestIsLargest
  <1>2. workLen \in Nat /\ Forward!N \in Nat
    BY LayerParts DEF BuffersTyped, NetworkGiven
  <1>3. \A x \in 1 .. Forward!N - 1 : layers[x].out \in Nat \ {0}
    <2>1. SUFFICES ASSUME NEW x \in 1 .. Forward!N - 1 PROVE layers[x].out \in Nat \ {0}
      OBVIOUS
    <2>2. x \in 1 .. Forward!N
      BY <1>2
    <2> QED
      BY <1>2, <2>2, AcceptedLayers, LayerParts
  <1>4. ASSUME Roomy, NEW x \in 1 .. Forward!N - 1
        PROVE  work # None /\ workLen >= 2 * layers[x].out
    BY <1>1, <1>2, <1>3, <1>4 DEF Roomy
  <1>5. ASSUME \A x \in 1 .. Forward!N - 1 : work # None /\ workLen >= 2 * layers[x].out
        PROVE  Roomy
    BY <1>1, <1>2, <1>5 DEF Roomy
  <1> QED
    BY <1>4, <1>5

(* A status other than success is given exactly to a network that does not *)
(* fit together, or not into the work buffer, and nothing was written      *)
(* then.                                                                   *)
LEMMA ForwardRefuses == ForwardInv => Forward!RefusedForAReason
  <1> SUFFICES ASSUME ForwardInv PROVE Forward!RefusedForAReason
    OBVIOUS
  <1> DEFINE room == \A x \in 1 .. Forward!N - 1 : work # None /\ workLen >= 2 * layers[x].out
  <1>1. Fitting <=> Forward!N > 0 /\ Accepted(Forward!N)
    BY FittingIsAccepted DEF ForwardInv
  <1>2. Forward!N > 0 /\ Accepted(Forward!N) => (Roomy <=> room)
    BY RoomyIsRoom DEF ForwardInv
  <1>3. /\ status = "OK" => Fitting /\ room
        /\ status = "WORK" => Fitting /\ ~room
    <2> HIDE DEF room
    <2> QED
      BY <1>1, <1>2 DEF ForwardInv, Progress
  <1>4. status \in {"ARG", "SHAPE"} => ~Fitting
    BY <1>1 DEF ForwardInv, Progress, NetworkGiven
  <1>5. status \in {"ARG", "SHAPE", "WORK"} => \A x \in DOMAIN output : output[x] = Junk
    BY DEF ForwardInv, Progress, Blank
  <1> QED
    BY <1>3, <1>4, <1>5, Zenon DEF Forward!RefusedForAReason, Fitting

(* The output of a successful call is the function of the network.         *)
LEMMA ForwardComputes == ForwardInv => Forward!OutputIsFunction
  BY ComputedValues DEF ForwardInv, FunctionReached, Forward!OutputIsFunction

(* The invariant is kept by every step of the data path.                   *)
LEMMA ForwardKept ==
  (part = "forward" => ForwardInv) /\ [Next]_vars => (part = "forward" => ForwardInv)'
  <1> SUFFICES ASSUME part = "forward" => ForwardInv, [Next]_vars, part' = "forward"
               PROVE  ForwardInv'
    OBVIOUS
  <1>1. CASE part = "forward" /\ Forward!Next
    BY <1>1, ForwardStep
  <1>2. CASE UNCHANGED vars
    <2>1. part = "forward" /\ UNCHANGED <<layers, input, workLen, work, output, i, r, status>>
      BY <1>2 DEF vars, ForwardOnly
    <2>2. /\ UNCHANGED <<Forward!N, NetworkGiven, Forward!RequiredWorkLen, Computed>>
          /\ Accepted(i)' = Accepted(i)
          /\ Accepted(Forward!N)' = Accepted(Forward!N)
          /\ Forward!Source(i)' = Forward!Source(i)
          /\ Forward!Destination(i)' = Forward!Destination(i)
      BY <2>1, CallUnchanged
    <2> QED
      BY <2>1, <2>2 DEF ForwardInv, BuffersTyped, Progress, CellsWritten, FunctionReached,
         Roomy, Blank, Held, Forward!Contents
  <1> QED
    BY <1>1, <1>2 DEF Next

(* mlp_fxp_forward never lets a layer write over what it still reads,      *)
(* stays inside the work buffer of the length it was told, and reads       *)
(* nothing there that was not written before: for every network, input and *)
(* work buffer.                                                            *)
THEOREM WorkBufferSafe == Spec => []WorkBufferIsSafe
  <1> DEFINE IInv == part = "forward" => ForwardInv
  <1>1. Init => IInv
    BY ForwardStarts DEF Init
  <1>2. IInv /\ [Next]_vars => IInv'
    BY ForwardKept
  <1>3. IInv => WorkBufferIsSafe
    BY ForwardTyped, ForwardDisjoint, ForwardInside DEF WorkBufferIsSafe
  <1> HIDE DEF IInv
  <1> QED
    BY <1>1, <1>2, <1>3, PTL DEF Spec

(* mlp_fxp_forward refuses exactly the calls that it should, with the      *)
(* status of the first reason, and computes the function of the network    *)
(* otherwise, its dot products taken four lanes at a time.                 *)
THEOREM ForwardComputesFunction == Spec => []ForwardIsFunction
  <1> DEFINE IInv == part = "forward" => ForwardInv
  <1>1. Init => IInv
    BY ForwardStarts DEF Init
  <1>2. IInv /\ [Next]_vars => IInv'
    BY ForwardKept
  <1>3. IInv => ForwardIsFunction
    BY ForwardRefuses, ForwardComputes DEF ForwardIsFunction
  <1> HIDE DEF IInv
  <1> QED
    BY <1>1, <1>2, <1>3, PTL DEF Spec

(***************************************************************************)
(* mlp_fxp_matmul_bias_act                                                 *)
(***************************************************************************)

(* Both routines use the same kernels.                                     *)
LEMMA KernelsAreOne ==
  /\ MatMul!Raw = Forward!Raw
  /\ \A x, offsets, at, how :
         MatMul!FinishAcc(x, offsets, at, how) = Forward!FinishAcc(x, offsets, at, how)
  /\ \A u, p, v, q, len : MatMul!DotRaw(u, p, v, q, len) = Forward!DotRaw(u, p, v, q, len)
  <1>1. \A x : MatMul!Wrapped(x) = Forward!Wrapped(x) /\ MatMul!Downscale(x) = Forward!Downscale(x)
               /\ MatMul!ReluRaw(x) = Forward!ReluRaw(x)
    BY DEF MatMul!Wrapped, Forward!Wrapped, MatMul!Downscale, Forward!Downscale,
           MatMul!ReluRaw, Forward!ReluRaw
  <1>2. \A x, offsets, at, how :
            MatMul!FinishAcc(x, offsets, at, how) = Forward!FinishAcc(x, offsets, at, how)
    BY <1>1, ZenonT(60) DEF MatMul!FinishAcc, Forward!FinishAcc
  <1>3. \A u, p, v, q, len : MatMul!DotRaw(u, p, v, q, len) = Forward!DotRaw(u, p, v, q, len)
    BY DEF MatMul!DotRaw, Forward!DotRaw, MatMul!Products, Forward!Products, MatMul!Total,
           Forward!Total
  <1> QED
    BY <1>2, <1>3 DEF MatMul!Raw, Forward!Raw

(* The product's cells, as mathematics has them.                           *)
CellProducts(p, q) == [x \in 0 .. k - 1 |-> a[p * k + x] * b[x * n + q]]
CellValue(p, q) == Forward!FinishAcc(Sum(CellProducts(p, q), 0, k), bias, q, activation)

(* The operands of a product hold raw numbers.                             *)
MatricesTyped ==
    /\ m \in Nat /\ n \in Nat /\ k \in Nat
    /\ \A x \in 0 .. m * k - 1 : a[x] \in Forward!Raw
    /\ \A x \in 0 .. k * n - 1 : b[x] \in Forward!Raw
    /\ bias # None => \A x \in 0 .. n - 1 : bias[x] \in Forward!Raw

(* The cells up to the place reached are there, and no others.             *)
ProductSoFar ==
    \A p \in 0 .. m - 1, q \in 0 .. n - 1 :
        c[p * n + q] = IF p < i \/ (p = i /\ q < j) THEN CellValue(p, q) ELSE Junk

(* The inductive invariant of a call of mlp_fxp_matmul_bias_act.           *)
MatMulInv ==
    /\ MatricesTyped
    /\ i \in 0 .. m /\ j \in 0 .. n
    /\ i = m => j = 0
    /\ DOMAIN c = 0 .. m * n - 1
    /\ ProductSoFar

(* A matrix filled with a pattern of raw numbers holds raw numbers.        *)
LEMMA FilledIsRaw ==
  ASSUME NEW s \in Patterns, NEW len \in Nat
  PROVE  \A x \in 0 .. len - 1 : MatMul!Filled(s, len)[x] \in Forward!Raw
  <1>1. s \in Seq(Forward!Raw) /\ s # << >>
    BY KernelsAreOne, DataPathConstants DEF MatMul!MatMulConstants
  <1>2. Len(s) \in Nat /\ Len(s) > 0
    BY <1>1
  <1>3. ASSUME NEW x \in 0 .. len - 1 PROVE MatMul!Filled(s, len)[x] \in Forward!Raw
    <2>1. MatMul!Filled(s, len)[x] = s[(x % Len(s)) + 1]
      BY DEF MatMul!Filled
    <2>2. x % Len(s) \in 0 .. Len(s) - 1
      BY <1>2, Remainder
    <2>3. (x % Len(s)) + 1 \in 1 .. Len(s)
      BY <1>2, <2>2
    <2> QED
      BY <1>1, <2>1, <2>3
  <1> QED
    BY <1>3

(* A cell of the product is a raw number.                                  *)
LEMMA CellValueIsRaw ==
  ASSUME MatricesTyped, NEW p \in 0 .. m - 1, NEW q \in 0 .. n - 1
  PROVE  CellValue(p, q) \in Forward!Raw
  <1>1. \A x \in 0 .. k - 1 : p * k + x \in 0 .. m * k - 1 /\ x * n + q \in 0 .. k * n - 1
    BY CellInMatrix DEF MatricesTyped
  <1>2. \A x \in Forward!Raw : x \in Int
    BY KernelNumbers DEF Forward!Raw
  <1>3. \A x \in 0 .. k - 1 : a[p * k + x] \in Int /\ b[x * n + q] \in Int
    BY <1>1, <1>2 DEF MatricesTyped
  <1>4. \A x \in 0 .. k - 1 : CellProducts(p, q)[x] \in Int
    <2>1. \A x \in 0 .. k - 1 : CellProducts(p, q)[x] = a[p * k + x] * b[x * n + q]
      BY DEF CellProducts
    <2>2. \A y, z \in Int : y * z \in Int
      OBVIOUS
    <2> QED
      BY <1>3, <2>1, <2>2
  <1>5. Sum(CellProducts(p, q), 0, k) \in Int
    <2>1. k \in Int
      BY DEF MatricesTyped
    <2> QED
      BY <1>4, <2>1, SumType
  <1> QED
    BY <1>5, FinishIsRaw DEF CellValue, MatricesTyped

(* No cell is written at first.                                            *)
LEMMA MatMulStarts == MatMul!Init => MatMulInv
  <1> SUFFICES ASSUME MatMul!Init PROVE MatMulInv
    OBVIOUS
  <1>1. m \in Nat /\ n \in Nat /\ k \in Nat
    BY DataPathConstants DEF MatMul!Init, MatMul!MatMulConstants
  <1>2. \A x, y \in Nat : x * y \in Nat
    OBVIOUS
  <1>3. m * k \in Nat /\ k * n \in Nat
    BY <1>1, <1>2
  <1>4. MatricesTyped
    <2>1. PICK s \in Patterns, t \in Patterns :
              a = MatMul!Filled(s, m * k) /\ b = MatMul!Filled(t, k * n)
      BY DEF MatMul!Init
    <2>2. bias # None => \E u \in Patterns : bias = MatMul!Filled(u, n)
      BY DEF MatMul!Init
    <2> QED
      BY <1>1, <1>3, <2>1, <2>2, FilledIsRaw DEF MatricesTyped
  <1>5. ProductSoFar
    <2>1. \A p \in 0 .. m - 1, q \in 0 .. n - 1 : p * n + q \in 0 .. m * n - 1
      BY <1>1, CellInMatrix
    <2>2. c = [x \in 0 .. m * n - 1 |-> Junk] /\ i = 0 /\ j = 0
      BY DEF MatMul!Init
    <2>3. ASSUME NEW p \in 0 .. m - 1, NEW q \in 0 .. n - 1
          PROVE  c[p * n + q] = Junk /\ ~(p < i \/ (p = i /\ q < j))
      <3>1. c[p * n + q] = Junk
        BY <2>1, <2>2, Zenon
      <3>2. ~(p < i \/ (p = i /\ q < j))
        BY <1>1, <2>2
      <3> QED
        BY <3>1, <3>2
    <2> QED
      BY <2>3, Zenon DEF ProductSoFar
  <1> QED
    BY <1>1, <1>4, <1>5 DEF MatMulInv, MatMul!Init

(* What a step writes are cells of the product.                            *)
LEMMA CellIsValue ==
  ASSUME MatricesTyped, NEW q \in 0 .. n - 1
  PROVE  MatMul!Cell(q) = CellValue(i, q)
  <1>1. MatMul!ColumnProducts(q) = CellProducts(i, q)
    BY DEF MatMul!ColumnProducts, CellProducts
  <1>2. MatMul!Total(CellProducts(i, q), 0, k) = Sum(CellProducts(i, q), 0, k)
    BY KernelSums DEF MatricesTyped
  <1> QED
    BY <1>1, <1>2, KernelsAreOne DEF MatMul!Cell, CellValue

(* Operands that stay make the same product.                               *)
LEMMA InputsUnchanged ==
  ASSUME UNCHANGED MatMul!inputs
  PROVE  /\ UNCHANGED <<m, n, k, a, b, bias, activation, MatricesTyped>>
         /\ \A p, q : CellValue(p, q)' = CellValue(p, q)
  BY DEF MatMul!inputs, MatricesTyped, CellValue, CellProducts

(* A step of four columns, or of the one left over, writes the next cells  *)
(* and no other.                                                           *)
LEMMA MatMulStep == MatMulInv /\ MatMul!Next => MatMulInv'
  <1> SUFFICES ASSUME MatMulInv, MatMul!Next PROVE MatMulInv'
    OBVIOUS
  <1>1. UNCHANGED MatMul!inputs
    BY DEF MatMul!Next, MatMul!ColumnGroup, MatMul!Column, MatMul!NextRow
  <1>2. /\ UNCHANGED <<m, n, k, a, b, bias, activation, MatricesTyped>>
        /\ \A p, q : CellValue(p, q)' = CellValue(p, q)
    BY <1>1, InputsUnchanged
  <1>3. /\ MatricesTyped /\ m \in Nat /\ n \in Nat /\ i \in 0 .. m /\ j \in 0 .. n
        /\ i = m => j = 0
        /\ DOMAIN c = 0 .. m * n - 1
    BY DEF MatMulInv, MatricesTyped
  <1>4. ASSUME NEW p \in 0 .. m - 1, NEW q \in 0 .. n - 1
        PROVE  c[p * n + q] = IF p < i \/ (p = i /\ q < j) THEN CellValue(p, q) ELSE Junk
    BY DEF MatMulInv, ProductSoFar
  <1>5. ASSUME NEW p \in 0 .. m - 1, NEW q \in 0 .. n - 1 PROVE p * n + q \in 0 .. m * n - 1
    BY <1>3, CellInMatrix
  <1>6. CASE MatMul!ColumnGroup
    <2>1. /\ i < m /\ j + 4 <= n /\ i' = i /\ j' = j + 4
          /\ c' = [x \in DOMAIN c |-> IF x \in i * n + j .. i * n + j + 3
                                      THEN MatMul!Cell(x - i * n) ELSE c[x]]
      BY <1>6 DEF MatMul!ColumnGroup
    <2>2. ASSUME NEW p \in 0 .. m - 1, NEW q \in 0 .. n - 1
          PROVE  c'[p * n + q] = IF p < i' \/ (p = i' /\ q < j') THEN CellValue(p, q) ELSE Junk
      <3> DEFINE x == p * n + q
      <3>1. x \in DOMAIN c
        BY <1>3, <1>5
      <3>2. /\ x < i * n + j <=> p < i \/ (p = i /\ q < j)
            /\ x < i * n + (j + 4) <=> p < i \/ (p = i /\ q < j + 4)
        BY <1>3, <2>1, CellOrder
      <3>3. i * n \in Int /\ x \in Int
        BY <1>3, <1>5
      <3>4. x \in i * n + j .. i * n + j + 3 <=> p = i /\ ~(q < j) /\ q < j + 4
        <4> HIDE DEF x
        <4> QED
          BY <1>3, <3>2, <3>3
      <3>5. p = i => x - i * n = q
        BY <3>3
      <3>6. c'[x] = IF x \in i * n + j .. i * n + j + 3 THEN MatMul!Cell(x - i * n) ELSE c[x]
        <4> HIDE DEF x
        <4> QED
          BY <2>1, <3>1
      <3>7. MatMul!Cell(q) = CellValue(i, q)
        BY <1>3, CellIsValue
      <3>8. c[x] = IF p < i \/ (p = i /\ q < j) THEN CellValue(p, q) ELSE Junk
        BY <1>4
      <3> HIDE DEF x
      <3>9. c'[x] = IF p < i \/ (p = i /\ q < j + 4) THEN CellValue(p, q) ELSE Junk
        BY <1>3, <3>4, <3>5, <3>6, <3>7, <3>8
      <3> QED
        BY <2>1, <3>9 DEF x
    <2>3. DOMAIN c' = DOMAIN c
      BY <2>1
    <2>4. ProductSoFar'
      BY <1>2, <2>2 DEF ProductSoFar
    <2> QED
      BY <1>2, <1>3, <2>1, <2>3, <2>4 DEF MatMulInv
  <1>7. CASE MatMul!Column
    <2>1. /\ i < m /\ j < n /\ i' = i /\ j' = j + 1
          /\ c' = [c EXCEPT ![i * n + j] = MatMul!Cell(j)]
      BY <1>7 DEF MatMul!Column
    <2>2. i \in 0 .. m - 1 /\ j \in 0 .. n - 1
      BY <1>3, <2>1
    <2>3. ASSUME NEW p \in 0 .. m - 1, NEW q \in 0 .. n - 1
          PROVE  c'[p * n + q] = IF p < i' \/ (p = i' /\ q < j') THEN CellValue(p, q) ELSE Junk
      <3> DEFINE x == p * n + q
                 y == i * n + j
      <3>1. x \in DOMAIN c
        BY <1>3, <1>5
      <3>2. x < y <=> p < i \/ (p = i /\ q < j)
        BY <1>3, CellOrder
      <3>3. y < x <=> i < p \/ (p = i /\ j < q)
        BY <1>3, <2>2, CellOrder
      <3>4. x \in Int /\ y \in Int
        BY <1>3, <1>5
      <3>5. x = y <=> p = i /\ q = j
        <4> HIDE DEF x, y
        <4> QED
          BY <1>3, <3>2, <3>3, <3>4
      <3>6. c'[x] = IF x = y THEN MatMul!Cell(j) ELSE c[x]
        <4> HIDE DEF x
        <4> QED
          BY <2>1, <3>1
      <3>7. MatMul!Cell(j) = CellValue(i, j)
        BY <1>3, <2>2, CellIsValue
      <3>8. c[x] = IF p < i \/ (p = i /\ q < j) THEN CellValue(p, q) ELSE Junk
        BY <1>4
      <3> HIDE DEF x, y
      <3>9. c'[x] = IF p < i \/ (p = i /\ q < j + 1) THEN CellValue(p, q) ELSE Junk
        BY <1>3, <3>5, <3>6, <3>7, <3>8
      <3> QED
        BY <2>1, <3>9 DEF x
    <2>4. DOMAIN c' = DOMAIN c
      BY <2>1
    <2>5. ProductSoFar'
      BY <1>2, <2>3 DEF ProductSoFar
    <2> QED
      BY <1>2, <1>3, <2>1, <2>4, <2>5 DEF MatMulInv
  <1>8. CASE MatMul!NextRow
    <2>1. i < m /\ j = n /\ i' = i + 1 /\ j' = 0 /\ c' = c
      BY <1>8 DEF MatMul!NextRow, MatMul!RowDone
    <2>2. ASSUME NEW p \in 0 .. m - 1, NEW q \in 0 .. n - 1
          PROVE  c'[p * n + q] = IF p < i' \/ (p = i' /\ q < j') THEN CellValue(p, q) ELSE Junk
      <3>1. (p < i \/ (p = i /\ q < j)) <=> (p < i + 1 \/ (p = i + 1 /\ q < 0))
        BY <1>3, <2>1
      <3> QED
        BY <1>4, <2>1, <3>1
    <2>3. ProductSoFar'
      BY <1>2, <2>2 DEF ProductSoFar
    <2> QED
      BY <1>2, <1>3, <2>1, <2>3 DEF MatMulInv
  <1> QED
    BY <1>6, <1>7, <1>8 DEF MatMul!Next

(* The cells written are those before the place reached.                   *)
LEMMA MatMulInOrder == MatMulInv => MatMul!WrittenInOrder
  <1> SUFFICES ASSUME MatMulInv, NEW x \in DOMAIN c PROVE c[x] # Junk <=> x < i * n + j
    BY DEF MatMul!WrittenInOrder
  <1>1. /\ MatricesTyped /\ m \in Nat /\ n \in Nat /\ i \in 0 .. m /\ j \in 0 .. n
        /\ x \in 0 .. m * n - 1
    BY DEF MatMulInv, MatricesTyped
  <1>2. n > 0
    BY <1>1
  <1> DEFINE p == x \div n
             q == x % n
  <1>3. p \in Int /\ q \in 0 .. n - 1 /\ x = p * n + q
    <2>1. x \in Int /\ x = n * (x \div n) + (x % n) /\ x \div n \in Int /\ x % n \in 0 .. n - 1
      BY <1>1, <1>2, Remainder
    <2> QED
      BY <1>1, <2>1
  <1> HIDE DEF p, q
  <1>4. p \in 0 .. m - 1
    <2>1. p * n + q < m * n + 0 <=> p < m \/ (p = m /\ q < 0)
      BY <1>1, <1>3, CellOrder
    <2>2. (-1) * n + (n - 1) < p * n + q <=> -1 < p \/ (-1 = p /\ n - 1 < q)
      BY <1>1, <1>2, <1>3, CellOrder
    <2>3. m * n \in Int
      BY <1>1
    <2> QED
      BY <1>1, <1>2, <1>3, <2>1, <2>2, <2>3
  <1>5. c[x] = IF p < i \/ (p = i /\ q < j) THEN CellValue(p, q) ELSE Junk
    BY <1>3, <1>4 DEF MatMulInv, ProductSoFar
  <1>6. x < i * n + j <=> p < i \/ (p = i /\ q < j)
    BY <1>1, <1>3, CellOrder
  <1>7. CellValue(p, q) # Junk
    BY <1>1, <1>3, <1>4, CellValueIsRaw, KernelNumbers
  <1> QED
    BY <1>5, <1>6, <1>7

(* A dense layer on the transposed matrix has the same cells.              *)
LEMMA DenseRowIsCell ==
  ASSUME MatricesTyped, NEW p \in 0 .. m - 1, NEW q \in 0 .. n - 1
  PROVE  MatMul!DenseRow(MatMul!Transpose(b, k, n), bias, a, p * k, q, k, activation)
             = CellValue(p, q)
  <1> DEFINE w == MatMul!Transpose(b, k, n)
  <1>1. m \in Nat /\ n \in Nat /\ k \in Nat
    BY DEF MatricesTyped
  <1>2. ASSUME NEW x \in 0 .. k - 1
        PROVE  /\ w[q * k + x] = b[x * n + q]
               /\ w[q * k + x] \in Int /\ a[p * k + x] \in Int
               /\ CellProducts(p, q)[x] = w[q * k + x] * a[p * k + x]
    <2>1. q * k + x \in 0 .. n * k - 1 /\ n * k = k * n
      BY <1>1, CellInMatrix
    <2>2. (q * k + x) \div k = q /\ (q * k + x) % k = x
      BY <1>1, RowAndColumn
    <2>3. w[q * k + x] = b[x * n + q]
      BY <2>1, <2>2 DEF MatMul!Transpose
    <2>4. p * k + x \in 0 .. m * k - 1 /\ x * n + q \in 0 .. k * n - 1
      BY <1>1, CellInMatrix
    <2>5. \A y \in Forward!Raw : y \in Int
      BY KernelNumbers DEF Forward!Raw
    <2>6. a[p * k + x] \in Int /\ b[x * n + q] \in Int
      BY <2>4, <2>5 DEF MatricesTyped
    <2>7. CellProducts(p, q)[x] = a[p * k + x] * b[x * n + q]
      BY DEF CellProducts
    <2>8. \A y, z \in Int : y * z = z * y
      OBVIOUS
    <2> HIDE DEF w
    <2> QED
      BY <2>3, <2>6, <2>7, <2>8
  <1>3. q * k \in Int /\ p * k \in Int
    BY <1>1
  <1> HIDE DEF w
  <1>4. AreProducts(CellProducts(p, q), w, q * k, a, p * k, k)
    BY <1>1, <1>2, <1>3 DEF AreProducts
  <1>5. Forward!DotRaw(w, q * k, a, p * k, k) = Sum(CellProducts(p, q), 0, k)
    BY <1>4, DotIsSum
  <1>6. MatMul!DenseRow(w, bias, a, p * k, q, k, activation)
            = MatMul!FinishAcc(MatMul!DotRaw(w, q * k, a, p * k, k), bias, q, activation)
    BY DEF MatMul!DenseRow
  <1> QED
    BY <1>5, <1>6, KernelsAreOne DEF CellValue, w

(* When all rows are done, the product is that of the dense layer.         *)
LEMMA MatMulIsBatch == MatMulInv => MatMul!MatMulIsDenseBatch
  <1> SUFFICES ASSUME MatMulInv, i = m, NEW p \in 0 .. m - 1, NEW q \in 0 .. n - 1
               PROVE  c[p * n + q] = MatMul!DenseRow(MatMul!Transpose(b, k, n), bias, a, p * k, q,
                                                     k, activation)
    BY DEF MatMul!MatMulIsDenseBatch
  <1>1. MatricesTyped /\ p < i
    BY DEF MatMulInv, MatricesTyped
  <1>2. c[p * n + q] = CellValue(p, q)
    BY <1>1 DEF MatMulInv, ProductSoFar
  <1> QED
    BY <1>1, <1>2, DenseRowIsCell

(* mlp_fxp_matmul_bias_act writes every cell of the product once, in       *)
(* order, whether its column is one of a block of four or left over, and   *)
(* agrees with mlp_fxp_dense_batch on the transposed weights: for matrices *)
(* of every shape.                                                         *)
THEOREM MatMulIsRight == Spec => []MatMulAgrees
  <1> DEFINE IInv == part = "matmul" => MatMulInv
  <1>1. Init => IInv
    BY MatMulStarts DEF Init
  <1>2. IInv /\ [Next]_vars => IInv'
    <2> SUFFICES ASSUME IInv, [Next]_vars, part' = "matmul" PROVE MatMulInv'
      OBVIOUS
    <2>1. CASE part = "matmul" /\ MatMul!Next
      BY <2>1, MatMulStep
    <2>2. CASE UNCHANGED vars
      <3>1. UNCHANGED <<part, c, i, j>> /\ UNCHANGED MatMul!inputs
        BY <2>2 DEF vars, MatMulOnly, MatMul!inputs
      <3> QED
        BY <3>1, InputsUnchanged DEF MatMulInv, ProductSoFar
    <2> QED
      BY <2>1, <2>2 DEF Next
  <1>3. IInv => MatMulAgrees
    BY MatMulInOrder, MatMulIsBatch DEF MatMulAgrees
  <1> HIDE DEF IInv
  <1> QED
    BY <1>1, <1>2, <1>3, PTL DEF Spec

(***************************************************************************)
(* The objective and the averages                                          *)
(***************************************************************************)

(* The counters and scales of the objective are natural numbers.           *)
LEMMA ObjectiveNumbers ==
  /\ One \in Nat /\ One > 0 /\ DecScale \in Nat /\ EnergyScale \in Nat
  /\ MissCost \in Nat /\ MissUnit \in Nat /\ MissUnit > 0
  /\ \A x \in Cycles : x \in Nat
  /\ \A x \in Misses : x \in Nat
  /\ \A x \in Energies : x \in Nat /\ x > 0
  /\ \A x \in Freqs : x \in Nat
  BY DataPathConstants DEF Objective!ObjectiveConstants

(* The metric without penalties is never negative.                         *)
LEMMA MetricIsNatural ==
  ASSUME NEW cycles \in Cycles, NEW energy \in Energies
  PROVE  Objective!PeNoPenalty(cycles, energy) \in Nat
  <1>1. cycles * One \in Nat
    BY ObjectiveNumbers, ProductIsNatural
  <1>2. Objective!PeNoPenalty(cycles, energy) = (cycles * One) \div energy
    BY <1>1 DEF Objective!PeNoPenalty, Objective!Quot
  <1> QED
    BY <1>1, <1>2, ObjectiveNumbers, QuotientGrows

(* Neither are the cycles lost to cache misses.                            *)
LEMMA LostIsNatural ==
  ASSUME NEW misses \in Misses, NEW khz \in Freqs
  PROVE  Objective!LostCycles(misses, khz) \in Nat
  <1>1. misses * MissCost * khz \in Nat
    <2>1. misses * MissCost \in Nat
      BY ObjectiveNumbers, ProductIsNatural
    <2> QED
      BY <2>1, ObjectiveNumbers, ProductIsNatural
  <1> QED
    BY <1>1, ObjectiveNumbers, QuotientGrows DEF Objective!LostCycles

(* What is lost is lost.                                                   *)
LEMMA ObjectiveBelowMetric ==
  ASSUME NEW cycles \in Cycles, NEW lost \in Nat, NEW energy \in Energies
  PROVE  Objective!CalcObjective(cycles, lost, energy) \in Int
         /\ Objective!CalcObjective(cycles, lost, energy) <= Objective!PeNoPenalty(cycles, energy)
  <1>1. cycles \in Nat /\ energy \in Nat /\ energy > 0 /\ One \in Nat /\ EnergyScale \in Nat
    BY ObjectiveNumbers
  <1>2. cycles * One \in Nat
    BY <1>1, ProductIsNatural
  <1>3. Objective!Performance(cycles, lost) \in Nat
        /\ Objective!Performance(cycles, lost) <= cycles * One
    <2>1. CASE lost >= cycles
      <3>1. 0 * EnergyScale = 0
        BY <1>1
      <3>2. Objective!Performance(cycles, lost) = 0
        BY <2>1, <3>1 DEF Objective!Performance
      <3> QED
        BY <1>2, <3>2
    <2>2. CASE lost < cycles
      <3> DEFINE p == (cycles - lost) * One
      <3>1. cycles - lost \in Nat /\ cycles - lost <= cycles
        BY <1>1, <2>2
      <3>2. p \in Nat
        BY <1>1, <3>1, ProductIsNatural
      <3>3. p <= cycles * One
        BY <1>1, <3>1
      <3>4. 0 * EnergyScale = 0
        BY <1>1
      <3>5. Objective!Performance(cycles, lost) = IF p = 0 THEN p * EnergyScale ELSE p
        BY <1>1, <2>2 DEF Objective!Performance
      <3>6. Objective!Performance(cycles, lost) = p
        BY <3>4, <3>5
      <3> QED
        BY <3>2, <3>3, <3>6
    <2> QED
      BY <1>1, <2>1, <2>2
  <1> DEFINE w == Objective!Performance(cycles, lost)
  <1>4. Objective!CalcObjective(cycles, lost, energy) = w \div energy
    BY <1>3 DEF Objective!CalcObjective, Objective!Quot
  <1>5. Objective!PeNoPenalty(cycles, energy) = (cycles * One) \div energy
    BY <1>2 DEF Objective!PeNoPenalty, Objective!Quot
  <1>6. w \in Nat /\ w <= cycles * One
    BY <1>3
  <1> HIDE DEF w
  <1> QED
    BY <1>1, <1>2, <1>4, <1>5, <1>6, QuotientGrows

(* A total is a sum, and grows by what is appended.                        *)
LEMMA TotalIsSum ==
  ASSUME NEW s, Len(s) \in Nat
  PROVE  Objective!Total(s) = Sum([x \in 0 .. Len(s) - 1 |-> s[x + 1]], 0, Len(s))
  <1> DEFINE len == Len(s)
             f == [x \in 0 .. len - 1 |-> s[x + 1]]
             Up(g) == [x \in 0 .. len |-> IF x = 0 THEN 0 ELSE g[x - 1] + s[x]]
             Run(g) == [x \in 0 .. len |-> IF x = 0 THEN 0 ELSE g[x - 1] + f[x - 1]]
             upTo == CHOOSE g : g = Up(g)
  <1>1. len \in Nat
    OBVIOUS
  <1>2. \A x \in 1 .. len : f[x - 1] = s[x]
    BY <1>1
  <1>3. \A g : Up(g) = Run(g)
    BY <1>1, <1>2
  <1>4. Objective!Total(s) = upTo[len]
    BY DEF Objective!Total
  <1> HIDE DEF len, f
  <1>5. PICK h : Running(h, f, 0, 0 + len)
    BY <1>1, RunningExists
  <1>6. 0 + len = len
    BY <1>1
  <1>7. h = Run(h)
    BY <1>5, <1>6, Zenon DEF Running
  <1> HIDE DEF Up, Run
  <1>8. \E g : g = Up(g)
    BY <1>3, <1>7
  <1>9. upTo = Up(upTo)
    BY <1>8, Zenon
  <1> HIDE DEF upTo
  <1>10. upTo = Run(upTo)
    BY <1>3, <1>9
  <1>11. Running(upTo, f, 0, len)
    BY <1>10, Zenon DEF Running, Run
  <1>12. Sum(f, 0, len) = upTo[len]
    BY <1>1, <1>11, SumIsRunning
  <1> QED
    BY <1>4, <1>12 DEF f, len

(* A total grows by the sample that is appended.                           *)
LEMMA TotalGrows ==
  ASSUME NEW s \in Seq(Nat), NEW v \in Nat
  PROVE  Objective!Total(Append(s, v)) = Objective!Total(s) + v
  <1> DEFINE len == Len(s)
             t == Append(s, v)
             F1(u, l) == [x \in 0 .. l - 1 |-> u[x + 1]]
  <1>1. len \in Nat /\ Len(t) = len + 1 /\ t[len + 1] = v
        /\ \A x \in 1 .. len : t[x] = s[x]
    OBVIOUS
  <1>2. Objective!Total(s) = Sum(F1(s, len), 0, len)
    BY <1>1, TotalIsSum
  <1>3. Objective!Total(t) = Sum(F1(t, len + 1), 0, len + 1)
    <2>1. Len(t) \in Nat
      BY <1>1
    <2>2. Objective!Total(t) = Sum(F1(t, Len(t)), 0, Len(t))
      BY <2>1, TotalIsSum
    <2> QED
      BY <1>1, <2>2
  <1>4. \A x \in 0 .. len - 1 : F1(t, len + 1)[x] = F1(s, len)[x]
    BY <1>1
  <1>5. F1(t, len + 1)[len] = v
    BY <1>1
  <1> HIDE DEF t, len, F1
  <1>6. Sum(F1(t, len + 1), 0, len + 1) = Sum(F1(t, len + 1), 0, len) + F1(t, len + 1)[len]
    BY <1>1, SumOneMore
  <1>7. Sum(F1(t, len + 1), 0, len) = Sum(F1(s, len), 0, len)
    BY <1>1, <1>4, SumSame
  <1> QED
    BY <1>2, <1>3, <1>5, <1>6, <1>7 DEF t

(* No sample makes no total.                                               *)
LEMMA TotalOfNone == Objective!Total(<< >>) = 0
  <1> DEFINE s == << >>
  <1>1. Len(s) = 0 /\ Len(s) \in Nat
    OBVIOUS
  <1> HIDE DEF s
  <1>2. Objective!Total(s) = Sum([x \in 0 .. Len(s) - 1 |-> s[x + 1]], 0, Len(s))
    BY <1>1, TotalIsSum
  <1>3. Objective!Total(s) = Sum([x \in 0 .. Len(s) - 1 |-> s[x + 1]], 0, 0)
    BY <1>1, <1>2
  <1> QED
    BY <1>3, SumEmpty DEF s

(* Both columns show one number, rounded down.                             *)
LEMMA DecimalShows ==
  ASSUME NEW avg \in Nat
  PROVE  LET shown == Objective!Decimal(avg).whole * DecScale + Objective!Decimal(avg).frac
         IN  avg * DecScale - shown * One \in 0 .. One - 1
  <1> DEFINE u == avg \div One
             g == avg % One
             v == (g * DecScale) \div One
             h == (g * DecScale) % One
  <1>1. One \in Nat /\ One > 0 /\ DecScale \in Nat
    BY ObjectiveNumbers
  <1>2. g \in 0 .. One - 1 /\ u \in Int /\ avg = One * u + g
    BY <1>1, Remainder
  <1>3. g * DecScale \in Nat
    BY <1>1, <1>2, ProductIsNatural
  <1>4. h \in 0 .. One - 1 /\ v \in Int /\ g * DecScale = One * v + h
    BY <1>1, <1>3, Remainder
  <1>5. Objective!Quot(avg, One) = u
    BY DEF Objective!Quot
  <1>6. avg - u * One = g
    BY <1>1, <1>2
  <1>7. Objective!Decimal(avg).whole = u /\ Objective!Decimal(avg).frac = v
    BY <1>2, <1>5, <1>6 DEF Objective!Decimal
  <1> HIDE DEF u, g, v, h
  <1>8. avg * DecScale = One * u * DecScale + g * DecScale
    BY <1>1, <1>2
  <1>9. (u * DecScale + v) * One = One * u * DecScale + One * v
    BY <1>1, <1>2, <1>4
  <1>10. One * u * DecScale \in Int /\ One * v \in Int
    BY <1>1, <1>2, <1>4
  <1> QED
    BY <1>1, <1>3, <1>4, <1>7, <1>8, <1>9, <1>10

(* The samples of this evaluation, and what their sum makes.               *)
SumIsOfMetrics ==
    /\ metrics \in Seq(Nat) /\ count = Len(metrics)
    /\ sum \in Nat /\ sum = Objective!Total(metrics)

(* The limits are in order, and a clamped prediction lies between them.    *)
LimitsTyped ==
    /\ min \in Nat /\ max \in Nat /\ min <= max /\ predicted \in Nat
    /\ clamped => min <= predicted /\ predicted <= max

(* The inductive invariant of the objective and its averages.              *)
ObjectiveInv ==
    /\ LimitsTyped
    /\ SumIsOfMetrics
    /\ Objective!PenaltiesOnlyLower
    /\ Objective!ExcessIsOfMovedLimits
    /\ Objective!RowIsAverage

(* Nothing was told or averaged at first.                                  *)
LEMMA ObjectiveStarts == Objective!Init => ObjectiveInv
  <1> SUFFICES ASSUME Objective!Init PROVE ObjectiveInv
    OBVIOUS
  <1>1. LimitsTyped
    BY ObjectiveNumbers DEF LimitsTyped, Objective!Init
  <1>2. SumIsOfMetrics
    BY TotalOfNone DEF SumIsOfMetrics, Objective!Init
  <1> QED
    BY <1>1, <1>2 DEF ObjectiveInv, Objective!Init, Objective!PenaltiesOnlyLower,
                      Objective!ExcessIsOfMovedLimits, Objective!RowIsAverage

(* A benchmark begins its evaluation with no sample.                       *)
LEMMA EvaluationStarts ==
  ASSUME NEW id, Objective!StartBenchmark(id)
  PROVE  SumIsOfMetrics'
  BY TotalOfNone DEF SumIsOfMetrics, Objective!StartBenchmark

(* A prediction lies within limits that do not change with it.             *)
LEMMA PredictionIsLimited ==
  ASSUME LimitsTyped, Objective!Predict, UNCHANGED Objective!limits
  PROVE  LimitsTyped'
  BY ObjectiveNumbers DEF LimitsTyped, Objective!Predict, Objective!limits, Objective!Clamped

(* What a training sample tells the optimizer is at most the metric, and   *)
(* less the excess of moved limits only.                                   *)
LEMMA ToldIsFair ==
  ASSUME LimitsTyped, Objective!TrainSample
  PROVE  Objective!PenaltiesOnlyLower' /\ Objective!ExcessIsOfMovedLimits'
  <1>1. PICK cycles \in Cycles, misses \in Misses, khz \in Freqs, energy \in Energies :
            told' = [objective |-> Objective!Objective(cycles, Objective!LostCycles(misses, khz),
                                                       energy),
                     pe        |-> Objective!PeNoPenalty(cycles, energy),
                     excess    |-> Objective!Excess,
                     clamped   |-> clamped]
    BY DEF Objective!TrainSample
  <1> DEFINE lost == Objective!LostCycles(misses, khz)
             calc == Objective!CalcObjective(cycles, lost, energy)
             pe == Objective!PeNoPenalty(cycles, energy)
  <1>2. lost \in Nat
    BY LostIsNatural
  <1>3. calc \in Int /\ calc <= pe
    BY <1>2, ObjectiveBelowMetric
  <1>4. pe \in Nat
    BY MetricIsNatural
  <1>5. Objective!Excess \in Nat /\ (clamped => Objective!Excess = 0)
    BY DEF LimitsTyped, Objective!Excess
  <1>6. Objective!Excess * One \in Nat
    BY <1>5, ObjectiveNumbers, ProductIsNatural
  <1>7. Objective!Objective(cycles, lost, energy) = calc - Objective!Excess * One
    BY DEF Objective!Objective
  <1>8. told'.objective = calc - Objective!Excess * One /\ told'.pe = pe
    BY <1>1, <1>7
  <1>9. told'.excess = Objective!Excess /\ told'.clamped = clamped
    BY <1>1, Zenon
  <1> HIDE DEF lost, calc, pe
  <1>10. told'.objective <= told'.pe
    BY <1>3, <1>4, <1>6, <1>8
  <1>11. told'.clamped => told'.excess = 0
    BY <1>5, <1>9
  <1> QED
    BY <1>10, <1>11 DEF Objective!PenaltiesOnlyLower, Objective!ExcessIsOfMovedLimits

(* A sample of an evaluation adds its metric to the sum.                   *)
LEMMA SampleIsAdded ==
  ASSUME SumIsOfMetrics, Objective!EvalSample
  PROVE  SumIsOfMetrics'
  <1>1. PICK cycles \in Cycles, energy \in Energies :
            /\ sum' = sum + Objective!PeNoPenalty(cycles, energy)
            /\ metrics' = Append(metrics, Objective!PeNoPenalty(cycles, energy))
    BY DEF Objective!EvalSample
  <1> DEFINE metric == Objective!PeNoPenalty(cycles, energy)
  <1>2. metric \in Nat
    BY MetricIsNatural
  <1>3. count' = count + 1
    BY DEF Objective!EvalSample
  <1>4. sum' = sum + metric /\ metrics' = Append(metrics, metric)
    BY <1>1
  <1> HIDE DEF metric
  <1>5. Objective!Total(metrics') = Objective!Total(metrics) + metric
    BY <1>2, <1>4, TotalGrows DEF SumIsOfMetrics
  <1> QED
    BY <1>2, <1>3, <1>4, <1>5 DEF SumIsOfMetrics

(* The row is written from the samples of its benchmark, the last one      *)
(* included.                                                               *)
LEMMA RowIsComplete ==
  ASSUME SumIsOfMetrics, Objective!FinishEvalBenchmark
  PROVE  Objective!RowIsAverage'
  <1>1. PICK cycles \in Cycles, energy \in Energies :
            row' = [samples |-> count + 1,
                    avg     |-> Objective!Average(sum + Objective!PeNoPenalty(cycles, energy)),
                    decimal |-> Objective!Decimal(
                                    Objective!Average(sum + Objective!PeNoPenalty(cycles, energy))),
                    metrics |-> Append(metrics, Objective!PeNoPenalty(cycles, energy))]
    BY DEF Objective!FinishEvalBenchmark
  <1> DEFINE metric == Objective!PeNoPenalty(cycles, energy)
             avg == Objective!Average(sum + metric)
  <1>2. metric \in Nat
    BY MetricIsNatural
  <1>3. /\ row'.samples = count + 1 /\ row'.avg = avg
        /\ row'.decimal = Objective!Decimal(avg) /\ row'.metrics = Append(metrics, metric)
    BY <1>1
  <1> HIDE DEF metric
  <1>4. metrics \in Seq(Nat) /\ count = Len(metrics) /\ count \in Nat /\ sum \in Nat
    BY DEF SumIsOfMetrics
  <1>5. Objective!Total(row'.metrics) = sum + metric
    BY <1>2, <1>3, <1>4, TotalGrows DEF SumIsOfMetrics
  <1>6. Len(row'.metrics) = count + 1
    BY <1>2, <1>3, <1>4
  <1>7. avg = (sum + metric) \div (count + 1)
    BY <1>2, <1>4 DEF Objective!Average, Objective!Quot
  <1>8. avg \in Nat
    <2>1. sum + metric \in Nat /\ count + 1 \in Nat /\ count + 1 > 0
      BY <1>2, <1>4
    <2>2. (sum + metric) \div (count + 1) \in Nat
      BY <2>1, QuotientGrows
    <2> QED
      BY <1>7, <2>2
  <1> HIDE DEF avg
  <1>9. (sum + metric) - (count + 1) * avg \in 0 .. count
    <2>1. count + 1 \in Nat /\ count + 1 > 0 /\ sum + metric \in Int
      BY <1>2, <1>4
    <2>2. /\ (sum + metric) % (count + 1) \in 0 .. (count + 1) - 1
          /\ sum + metric = (count + 1) * avg + ((sum + metric) % (count + 1))
      BY <1>7, <2>1, Remainder
    <2>3. (count + 1) * avg \in Int
      BY <1>4, <1>8
    <2> QED
      BY <1>4, <2>1, <2>2, <2>3
  <1>10. avg * DecScale - (row'.decimal.whole * DecScale + row'.decimal.frac) * One
             \in 0 .. One - 1
    BY <1>3, <1>8, DecimalShows
  <1>11. row'.samples = Len(row'.metrics)
    BY <1>3, <1>6
  <1>12. Objective!Total(row'.metrics) - row'.samples * row'.avg \in 0 .. row'.samples - 1
    BY <1>3, <1>4, <1>5, <1>9
  <1>13. row'.avg * DecScale - (row'.decimal.whole * DecScale + row'.decimal.frac) * One
             \in 0 .. One - 1
    BY <1>3, <1>10
  <1> QED
    BY <1>11, <1>12, <1>13 DEF Objective!RowIsAverage

(* The invariant is kept by every step.                                    *)
LEMMA ObjectiveStep == ObjectiveInv /\ Objective!Next => ObjectiveInv'
  <1> SUFFICES ASSUME ObjectiveInv, Objective!Next PROVE ObjectiveInv'
    OBVIOUS
  <1>1. LimitsTyped /\ SumIsOfMetrics
    BY DEF ObjectiveInv
  <1>2. CASE Objective!ChangeLimits
    <2>1. LimitsTyped'
      BY <1>1, <1>2, ObjectiveNumbers DEF LimitsTyped, Objective!ChangeLimits
    <2>2. UNCHANGED <<metrics, count, sum, told, row>>
      BY <1>2 DEF Objective!ChangeLimits, Objective!evaluation
    <2> QED
      BY <2>1, <2>2 DEF ObjectiveInv, SumIsOfMetrics, Objective!PenaltiesOnlyLower,
                        Objective!ExcessIsOfMovedLimits, Objective!RowIsAverage
  <1>3. CASE Objective!TrainSample
    <2>1. LimitsTyped'
      BY <1>1, <1>3, PredictionIsLimited DEF Objective!TrainSample
    <2>2. SumIsOfMetrics'
      BY <1>1, <1>3, EvaluationStarts DEF Objective!TrainSample, Objective!evaluation,
                                         SumIsOfMetrics
    <2>3. Objective!RowIsAverage'
      BY <1>3 DEF ObjectiveInv, Objective!TrainSample, Objective!RowIsAverage
    <2> QED
      BY <1>1, <1>3, <2>1, <2>2, <2>3, ToldIsFair DEF ObjectiveInv
  <1>4. CASE Objective!EvalSample
    <2>1. LimitsTyped'
      BY <1>1, <1>4, PredictionIsLimited DEF Objective!EvalSample
    <2>2. UNCHANGED <<told, row>>
      BY <1>4 DEF Objective!EvalSample
    <2> QED
      BY <1>1, <1>4, <2>1, <2>2, SampleIsAdded
         DEF ObjectiveInv, Objective!PenaltiesOnlyLower, Objective!ExcessIsOfMovedLimits,
             Objective!RowIsAverage
  <1>5. CASE Objective!FinishEvalBenchmark
    <2>1. LimitsTyped'
      BY <1>1, <1>5, PredictionIsLimited DEF Objective!FinishEvalBenchmark
    <2>2. SumIsOfMetrics'
      BY <1>5, EvaluationStarts DEF Objective!FinishEvalBenchmark, Objective!NextEvaluation
    <2>3. UNCHANGED told
      BY <1>5 DEF Objective!FinishEvalBenchmark
    <2> QED
      BY <1>1, <1>5, <2>1, <2>2, <2>3, RowIsComplete
         DEF ObjectiveInv, Objective!PenaltiesOnlyLower, Objective!ExcessIsOfMovedLimits
  <1>6. CASE Objective!Restart
    <2>1. SumIsOfMetrics'
      BY <1>6, EvaluationStarts DEF Objective!Restart
    <2>2. UNCHANGED <<min, max, predicted, clamped, told, row>>
      BY <1>6 DEF Objective!Restart, Objective!limits
    <2> QED
      BY <1>1, <2>1, <2>2 DEF ObjectiveInv, LimitsTyped, Objective!PenaltiesOnlyLower,
                              Objective!ExcessIsOfMovedLimits, Objective!RowIsAverage
  <1> QED
    BY <1>2, <1>3, <1>4, <1>5, <1>6 DEF Objective!Next

(* The objective told to the optimizer never exceeds the metric without    *)
(* penalties, a candidate is charged for excess only when its limits were  *)
(* moved by clamping, and a row of an evaluation is the average of all     *)
(* samples of its benchmark and of no other.                               *)
THEOREM ObjectiveFair == Spec => []ObjectiveIsFair
  <1> DEFINE IInv == part = "objective" => ObjectiveInv
  <1>1. Init => IInv
    BY ObjectiveStarts DEF Init
  <1>2. IInv /\ [Next]_vars => IInv'
    <2> SUFFICES ASSUME IInv, [Next]_vars, part' = "objective" PROVE ObjectiveInv'
      OBVIOUS
    <2>1. CASE part = "objective" /\ Objective!Next
      BY <2>1, ObjectiveStep
    <2>2. CASE UNCHANGED vars
      BY <2>2 DEF vars, ObjectiveVars, ObjectiveInv, LimitsTyped, SumIsOfMetrics,
                  Objective!PenaltiesOnlyLower, Objective!ExcessIsOfMovedLimits,
                  Objective!RowIsAverage
    <2> QED
      BY <2>1, <2>2 DEF Next
  <1>3. IInv => ObjectiveIsFair
    BY DEF ObjectiveInv, ObjectiveIsFair
  <1> HIDE DEF IInv
  <1> QED
    BY <1>1, <1>2, <1>3, PTL DEF Spec

(***************************************************************************)
(* Products and quotients of fixed-point numbers                           *)
(***************************************************************************)

(* The power of two by which the code shifts.                              *)
Pow(x) == Arithmetic!Pow2[x]

(* The magnitudes that the loops work on, and the dividend.                *)
MagA == Arithmetic!Mag(a)
MagB == Arithmetic!Mag(b)
ScaledA == MagA * Pow(F)

(* A word has 2 * H bits, and F of them are behind the point.              *)
LEMMA Widths == H \in Nat /\ F \in Nat /\ 0 < F /\ F < H
  BY DataPathConstants DEF Arithmetic!WidthConstants

(* The powers of two, from their recursive definition.                     *)
LEMMA Powers ==
  /\ Pow(0) = 1
  /\ \A x \in Nat : Pow(x) \in Nat /\ Pow(x) > 0 /\ Pow(x + 1) = 2 * Pow(x)
  /\ \A x, y \in Nat : Pow(x + y) = Pow(x) * Pow(y)
  <1> DEFINE g == Arithmetic!Pow2
  <1>1. g = CHOOSE h : h = [x \in Nat |-> IF x = 0 THEN 1 ELSE 2 * h[x - 1]]
    BY DEF Arithmetic!Pow2
  <1>2. \A x : Pow(x) = g[x]
    BY DEF Pow
  <1> HIDE DEF g
  <1>3. /\ g[0] = 1
        /\ \A x \in Nat : g[x] \in Nat \ {0} /\ g[x + 1] = 2 * g[x]
        /\ \A x, y \in Nat : g[x + y] = g[x] * g[y]
    BY <1>1, PowersOfTwo
  <1>4. \A x \in Nat : Pow(x) \in Nat /\ Pow(x) > 0 /\ Pow(x + 1) = 2 * Pow(x)
    <2> SUFFICES ASSUME NEW x \in Nat PROVE Pow(x) \in Nat /\ Pow(x) > 0 /\ Pow(x + 1) = 2 * Pow(x)
      OBVIOUS
    <2>1. g[x] \in Nat \ {0} /\ g[x + 1] = 2 * g[x]
      BY <1>3
    <2> QED
      BY <1>2, <2>1
  <1>5. \A x, y \in Nat : Pow(x + y) = Pow(x) * Pow(y)
    BY <1>2, <1>3
  <1>6. Pow(0) = 1
    BY <1>2, <1>3
  <1> QED
    BY <1>4, <1>5, <1>6

(* The shifts of the code are by no negative number.                       *)
LEMMA WidthPowers ==
  \A x \in {H, F, H - F, 2 * H - F, 2 * H, 2 * H - 1} : x \in Nat /\ Pow(x) \in Nat /\ Pow(x) > 0
  <1>1. \A x \in {H, F, H - F, 2 * H - F, 2 * H, 2 * H - 1} : x \in Nat
    BY Widths
  <1> QED
    BY <1>1, Powers

(* SMax and SMin are the ends of a signed word, UMax that of an unsigned.  *)
LEMMA Words ==
  /\ Arithmetic!SMax \in Nat /\ Arithmetic!SMax + 1 = Pow(2 * H - 1)
  /\ Arithmetic!SMin = -Arithmetic!SMax - 1
  /\ Arithmetic!UMax = 2 * Arithmetic!SMax + 1
  /\ Arithmetic!UMax + 1 = Pow(2 * H)
  <1>1. 2 * H - 1 \in Nat /\ (2 * H - 1) + 1 = 2 * H
    BY Widths
  <1>2. Pow(2 * H - 1) \in Nat /\ Pow(2 * H - 1) > 0 /\ Pow(2 * H) = 2 * Pow(2 * H - 1)
    BY <1>1, Powers
  <1>3. Arithmetic!SMax = Pow(2 * H - 1) - 1 /\ Arithmetic!UMax = Pow(2 * H) - 1
    BY DEF Arithmetic!SMax, Arithmetic!UMax, Pow
  <1> QED
    BY <1>2, <1>3 DEF Arithmetic!SMin

(* The operands are signed words.                                          *)
OperandsTyped ==
    /\ a \in Arithmetic!SMin .. Arithmetic!SMax
    /\ b \in Arithmetic!SMin .. Arithmetic!SMax
    /\ op \in {"mul", "div"}

(* Magnitudes are at most that of the least word.                          *)
LEMMA Magnitudes ==
  ASSUME OperandsTyped
  PROVE  /\ MagA \in 0 .. Pow(2 * H - 1) /\ MagB \in 0 .. Pow(2 * H - 1)
         /\ b # 0 => MagB > 0
         /\ ScaledA \in Nat
  <1>1. /\ MagA \in 0 .. Pow(2 * H - 1) /\ MagB \in 0 .. Pow(2 * H - 1)
        /\ b # 0 => MagB > 0
    BY Words DEF OperandsTyped, MagA, MagB, Arithmetic!Mag
  <1>2. Pow(F) \in Nat
    BY Widths, Powers
  <1> QED
    BY <1>1, <1>2, ProductIsNatural DEF ScaledA

(* Sums and shifts that saturate give the least of the exact value and the *)
(* largest word.                                                           *)
Capped(x) == IF x > Arithmetic!UMax THEN Arithmetic!UMax ELSE x

(* A saturated sum of capped numbers is the capped sum.                    *)
LEMMA AddIsCapped ==
  ASSUME NEW x \in Nat, NEW y \in Nat
  PROVE  Arithmetic!AddSat(Capped(x), Capped(y)) = Capped(x + y)
  BY Words DEF Arithmetic!AddSat, Capped

(* A saturated shift is the capped product.                                *)
LEMMA ShiftIsCapped ==
  ASSUME NEW v \in Nat, NEW shift \in Nat
  PROVE  Arithmetic!ShlSat(v, shift) = Capped(v * Pow(shift))
  <1> DEFINE d == Pow(shift)
             u == Arithmetic!UMax
  <1>1. d \in Nat /\ d > 0
    BY Powers
  <1>2. u \in Nat
    BY Words
  <1>3. Arithmetic!ShlSat(v, shift) = IF v > u \div d THEN u ELSE v * d
    BY DEF Arithmetic!ShlSat, Pow
  <1>4. Capped(v * d) = IF v * d > u THEN u ELSE v * d
    BY DEF Capped
  <1> HIDE DEF d, u
  <1>5. u \div d >= v <=> u >= d * v
    BY <1>1, <1>2, QuotientAtLeast
  <1>6. d * v = v * d /\ v * d \in Nat /\ u \div d \in Int
    BY <1>1, <1>2
  <1>7. v > u \div d <=> v * d > u
    BY <1>2, <1>5, <1>6
  <1> QED
    BY <1>3, <1>4, <1>7 DEF d

(* The result of a magnitude saturates like a signed number, whether the   *)
(* magnitude was capped or not.                                            *)
LEMMA SignedIsSaturated ==
  ASSUME NEW x \in Nat, NEW mag \in {x, Capped(x)}
  PROVE  Arithmetic!FromMag(mag) = Arithmetic!Saturated(IF Arithmetic!Negative THEN -x ELSE x)
  BY Words DEF Arithmetic!FromMag, Arithmetic!Saturated, Capped

-----------------------------------------------------------------------------
(* The product                                                             *)

(* The halves of a word.                                                   *)
High(x) == x \div Pow(H)
Low(x) == x % Pow(H)

(* The partial products of the halves, without saturation.                 *)
ExactPart(x) ==
    CASE x = 1 -> (Low(MagA) * Low(MagB)) \div Pow(F)
      [] x = 2 -> (High(MagA) * Low(MagB)) * Pow(H - F)
      [] x = 3 -> (Low(MagA) * High(MagB)) * Pow(H - F)
      [] x = 4 -> (High(MagA) * High(MagB)) * Pow(2 * H - F)

(* What has been added up before a step.                                   *)
PartsBefore(x) ==
    CASE x = 1 -> 0
      [] x = 2 -> ExactPart(1)
      [] x = 3 -> ExactPart(1) + ExactPart(2)
      [] x = 4 -> ExactPart(1) + ExactPart(2) + ExactPart(3)
      [] x = 5 -> ExactPart(1) + ExactPart(2) + ExactPart(3) + ExactPart(4)

(* The halves make the magnitude.                                          *)
LEMMA Halves ==
  ASSUME OperandsTyped
  PROVE  /\ High(MagA) \in Nat /\ Low(MagA) \in 0 .. Pow(H) - 1
         /\ MagA = Pow(H) * High(MagA) + Low(MagA)
         /\ High(MagB) \in Nat /\ Low(MagB) \in 0 .. Pow(H) - 1
         /\ MagB = Pow(H) * High(MagB) + Low(MagB)
  <1>1. Pow(H) \in Nat /\ Pow(H) > 0 /\ MagA \in Nat /\ MagB \in Nat
    BY WidthPowers, Magnitudes, Words
  <1>2. High(MagA) \in Nat /\ High(MagB) \in Nat
    BY <1>1, QuotientGrows DEF High
  <1> DEFINE w == Pow(H)
  <1>3. \A x \in Nat : x % w \in 0 .. w - 1 /\ x = w * (x \div w) + (x % w)
    <2>1. w \in Nat /\ w > 0
      BY <1>1
    <2> HIDE DEF w
    <2> QED
      BY <2>1, Remainder
  <1> QED
    BY <1>1, <1>2, <1>3 DEF High, Low

(* Partial products are never negative.                                    *)
LEMMA PartsAreNatural ==
  ASSUME OperandsTyped
  PROVE  /\ \A x \in 1 .. 4 : ExactPart(x) \in Nat
         /\ \A x \in 1 .. 5 : PartsBefore(x) \in Nat
         /\ PartsBefore(1) = 0
         /\ \A x \in 1 .. 4 : PartsBefore(x + 1) = PartsBefore(x) + ExactPart(x)
  <1>1. Pow(F) \in Nat /\ Pow(F) > 0 /\ Pow(H - F) \in Nat /\ Pow(2 * H - F) \in Nat
    BY WidthPowers
  <1>2. High(MagA) \in Nat /\ Low(MagA) \in Nat /\ High(MagB) \in Nat /\ Low(MagB) \in Nat
    <2>1. Pow(H) \in Nat
      BY Widths, Powers
    <2> QED
      BY <2>1, Halves
  <1>3. ExactPart(1) \in Nat
    <2>1. Low(MagA) * Low(MagB) \in Nat
      BY <1>2, ProductIsNatural
    <2>2. (Low(MagA) * Low(MagB)) \div Pow(F) \in Nat
      BY <1>1, <2>1, QuotientGrows
    <2> QED
      BY <2>2 DEF ExactPart
  <1>4. ExactPart(2) \in Nat
    BY <1>1, <1>2, ProductIsNatural DEF ExactPart
  <1>5. ExactPart(3) \in Nat
    BY <1>1, <1>2, ProductIsNatural DEF ExactPart
  <1>6. ExactPart(4) \in Nat
    BY <1>1, <1>2, ProductIsNatural DEF ExactPart
  <1>7. PartsBefore(1) = 0 /\ PartsBefore(2) = ExactPart(1)
        /\ PartsBefore(3) = ExactPart(1) + ExactPart(2)
        /\ PartsBefore(4) = ExactPart(1) + ExactPart(2) + ExactPart(3)
        /\ PartsBefore(5) = ExactPart(1) + ExactPart(2) + ExactPart(3) + ExactPart(4)
    BY DEF PartsBefore
  <1>8. \A x \in 1 .. 4 : x = 1 \/ x = 2 \/ x = 3 \/ x = 4
    OBVIOUS
  <1>9. \A x \in 1 .. 5 : x = 1 \/ x = 2 \/ x = 3 \/ x = 4 \/ x = 5
    OBVIOUS
  <1>10. \A x \in 1 .. 4 : ExactPart(x) \in Nat
    BY <1>3, <1>4, <1>5, <1>6, <1>8
  <1>11. \A x \in 1 .. 5 : PartsBefore(x) \in Nat
    BY <1>3, <1>4, <1>5, <1>6, <1>7, <1>9
  <1>12. \A x \in 1 .. 4 : PartsBefore(x + 1) = PartsBefore(x) + ExactPart(x)
    BY <1>3, <1>7, <1>8
  <1> QED
    BY <1>7, <1>10, <1>11, <1>12

(* The four parts make the product.                                        *)
LEMMA PartsMakeProduct ==
  ASSUME OperandsTyped
  PROVE  PartsBefore(5) = (MagA * MagB) \div Pow(F)
  <1> DEFINE ah == High(MagA)
             al == Low(MagA)
             bh == High(MagB)
             bl == Low(MagB)
             w == Pow(F)
             s == Pow(H - F)
             t == Pow(2 * H - F)
             upper == (ah * bl) * s + (al * bh) * s + (ah * bh) * t
  <1>1. w \in Nat /\ w > 0 /\ s \in Nat /\ t \in Nat
    BY WidthPowers
  <1>2. Pow(H) = w * s /\ Pow(H) * Pow(H) = w * t
    <2>1. F \in Nat /\ H - F \in Nat /\ 2 * H - F \in Nat /\ H \in Nat
          /\ F + (H - F) = H /\ F + (2 * H - F) = H + H
      BY Widths
    <2>2. Pow(F + (H - F)) = Pow(F) * Pow(H - F) /\ Pow(F + (2 * H - F)) = Pow(F) * Pow(2 * H - F)
          /\ Pow(H + H) = Pow(H) * Pow(H)
      BY <2>1, Powers
    <2> QED
      BY <2>1, <2>2
  <1>3. ah \in Nat /\ al \in Nat /\ bh \in Nat /\ bl \in Nat
    <2>1. Pow(H) \in Nat
      BY Widths, Powers
    <2> QED
      BY <2>1, Halves
  <1>4. MagA = Pow(H) * ah + al /\ MagB = Pow(H) * bh + bl
    BY Halves
  <1>5. Pow(H) \in Nat
    BY Widths, Powers
  <1>6. PartsBefore(5) = (al * bl) \div w + (ah * bl) * s + (al * bh) * s + (ah * bh) * t
    BY DEF PartsBefore, ExactPart
  <1> DEFINE z == Pow(H)
  <1>7. z \in Nat /\ z = w * s /\ z * z = w * t /\ MagA = z * ah + al /\ MagB = z * bh + bl
    BY <1>2, <1>4, <1>5
  <1> HIDE DEF ah, al, bh, bl, w, s, t, z
  <1>8. MagA * MagB = (ah * bh) * (z * z) + (ah * bl) * z + (al * bh) * z + al * bl
    BY <1>3, <1>7
  <1>9. w * upper = (ah * bl) * (w * s) + (al * bh) * (w * s) + (ah * bh) * (w * t)
    BY <1>1, <1>3
  <1>10. upper \in Int /\ al * bl \in Nat
    BY <1>1, <1>3
  <1>11. MagA * MagB = w * upper + al * bl
    <2>1. MagA * MagB = (ah * bh) * (w * t) + (ah * bl) * (w * s) + (al * bh) * (w * s) + al * bl
      BY <1>7, <1>8
    <2> DEFINE u1 == (ah * bl) * (w * s)
               u2 == (al * bh) * (w * s)
               u3 == (ah * bh) * (w * t)
               u4 == al * bl
    <2>2. u1 \in Int /\ u2 \in Int /\ u3 \in Int /\ u4 \in Int
      BY <1>1, <1>3
    <2>3. MagA * MagB = u3 + u1 + u2 + u4 /\ w * upper = u1 + u2 + u3
      BY <1>9, <2>1
    <2> HIDE DEF u1, u2, u3, upper
    <2>4. u4 = al * bl
      OBVIOUS
    <2> HIDE DEF u4
    <2>5. MagA * MagB = w * upper + u4
      BY <2>2, <2>3
    <2> QED
      BY <2>4, <2>5
  <1>12. (w * upper + al * bl) \div w = upper + ((al * bl) \div w)
    <2>1. al * bl \in Int
      BY <1>10
    <2> HIDE DEF upper
    <2> QED
      BY <1>1, <1>10, <2>1, QuotientPlus
  <1>13. (al * bl) \div w \in Nat
    BY <1>1, <1>10, QuotientGrows
  <1>14. PartsBefore(5) = upper + ((al * bl) \div w)
    <2> DEFINE u1 == (ah * bl) * s
               u2 == (al * bh) * s
               u3 == (ah * bh) * t
               u4 == (al * bl) \div w
    <2>1. u1 \in Int /\ u2 \in Int /\ u3 \in Int /\ u4 \in Int
      BY <1>1, <1>3, <1>13
    <2>2. PartsBefore(5) = u4 + u1 + u2 + u3 /\ upper = u1 + u2 + u3
      BY <1>6
    <2> HIDE DEF u1, u2, u3, upper
    <2>3. u4 = (al * bl) \div w
      OBVIOUS
    <2> HIDE DEF u4
    <2> QED
      BY <2>1, <2>2, <2>3
  <1> QED
    BY <1>11, <1>12, <1>14 DEF w

(* A partial product as the code computes it is the exact one, capped.     *)
LEMMA PartIsCapped ==
  ASSUME OperandsTyped, NEW x \in 1 .. 4
  PROVE  Arithmetic!Part(x) = Capped(ExactPart(x))
  <1>1. x = 1 \/ x = 2 \/ x = 3 \/ x = 4
    OBVIOUS
  <1>2. /\ High(MagA) \in Nat /\ Low(MagA) \in 0 .. Pow(H) - 1
        /\ High(MagB) \in Nat /\ Low(MagB) \in 0 .. Pow(H) - 1
    BY Halves
  <1>3. Pow(H) \in Nat
    BY Widths, Powers
  <1>4. H - F \in Nat /\ 2 * H - F \in Nat
    BY Widths
  <1>5. CASE x = 1
    <2>1. Arithmetic!Part(x) = (Low(MagA) * Low(MagB)) \div Pow(F)
      BY <1>5 DEF Arithmetic!Part, Low, MagA, MagB, Pow, Arithmetic!HalfWord
    <2>2. Low(MagA) * Low(MagB) \in Nat
      BY <1>2, <1>3, ProductIsNatural
    <2>3. Low(MagA) * Low(MagB) <= Arithmetic!UMax
      <3>1. Low(MagA) * Low(MagB) <= (Pow(H) - 1) * (Pow(H) - 1)
        BY <1>2, <1>3
      <3>2. (Pow(H) - 1) * (Pow(H) - 1) = Pow(H) * Pow(H) - 2 * Pow(H) + 1
        BY <1>3
      <3>3. Pow(H) * Pow(H) = Pow(2 * H)
        <4>1. H + H = 2 * H
          BY Widths
        <4>2. Pow(H + H) = Pow(H) * Pow(H)
          BY Widths, Powers
        <4> QED
          BY <4>1, <4>2
      <3>4. Pow(H) > 0 /\ Pow(2 * H) \in Nat
        BY WidthPowers
      <3> QED
        BY <1>3, <2>2, <3>1, <3>2, <3>3, <3>4, Words
    <2>4. (Low(MagA) * Low(MagB)) \div Pow(F) <= Low(MagA) * Low(MagB)
          /\ (Low(MagA) * Low(MagB)) \div Pow(F) \in Nat
      <3> DEFINE y == Low(MagA) * Low(MagB)
                 w == Pow(F)
      <3>1. w \in Nat /\ w > 0 /\ y \in Nat
        BY <2>2, Widths, Powers
      <3> HIDE DEF y, w
      <3>2. y \div w <= y /\ y \div w \in Nat
        BY <3>1
      <3> QED
        BY <3>2 DEF y, w
    <2> QED
      BY <1>5, <2>1, <2>2, <2>3, <2>4, Words DEF Capped, ExactPart
  <1>6. CASE x = 2
    <2>1. Arithmetic!Part(x) = Arithmetic!ShlSat(High(MagA) * Low(MagB), H - F)
      BY <1>6 DEF Arithmetic!Part, High, Low, MagA, MagB, Pow, Arithmetic!HalfWord
    <2>2. High(MagA) * Low(MagB) \in Nat
      BY <1>2, <1>3, ProductIsNatural
    <2>3. ExactPart(x) = (High(MagA) * Low(MagB)) * Pow(H - F)
      BY <1>6 DEF ExactPart
    <2> QED
      BY <1>4, <2>1, <2>2, <2>3, ShiftIsCapped
  <1>7. CASE x = 3
    <2>1. Arithmetic!Part(x) = Arithmetic!ShlSat(Low(MagA) * High(MagB), H - F)
      BY <1>7 DEF Arithmetic!Part, High, Low, MagA, MagB, Pow, Arithmetic!HalfWord
    <2>2. Low(MagA) * High(MagB) \in Nat
      BY <1>2, <1>3, ProductIsNatural
    <2>3. ExactPart(x) = (Low(MagA) * High(MagB)) * Pow(H - F)
      BY <1>7 DEF ExactPart
    <2> QED
      BY <1>4, <2>1, <2>2, <2>3, ShiftIsCapped
  <1>8. CASE x = 4
    <2>1. Arithmetic!Part(x) = Arithmetic!ShlSat(High(MagA) * High(MagB), 2 * H - F)
      BY <1>8 DEF Arithmetic!Part, High, MagA, MagB, Pow, Arithmetic!HalfWord
    <2>2. High(MagA) * High(MagB) \in Nat
      BY <1>2, ProductIsNatural
    <2>3. ExactPart(x) = (High(MagA) * High(MagB)) * Pow(2 * H - F)
      BY <1>8 DEF ExactPart
    <2> QED
      BY <1>4, <2>1, <2>2, <2>3, ShiftIsCapped
  <1> QED
    BY <1>1, <1>5, <1>6, <1>7, <1>8

(* The product so far, capped at every step, is that of the parts so far.  *)
ProductInv ==
    /\ step \in 1 .. 5
    /\ status = "returned" => step = 5
    /\ acc = Capped(PartsBefore(step))

(* Adding the next part, saturated, keeps that.                            *)
LEMMA MulPartAdds ==
  ASSUME OperandsTyped, ProductInv, Arithmetic!MulPart
  PROVE  step' \in 1 .. 5 /\ acc' = Capped(PartsBefore(step'))
  <1>1. step \in 1 .. 4 /\ step' = step + 1 /\ acc' = Arithmetic!AddSat(acc, Arithmetic!Part(step))
    BY DEF Arithmetic!MulPart
  <1>2. /\ ExactPart(step) \in Nat /\ PartsBefore(step) \in Nat
        /\ PartsBefore(step + 1) = PartsBefore(step) + ExactPart(step)
    BY <1>1, PartsAreNatural
  <1>3. acc' = Arithmetic!AddSat(Capped(PartsBefore(step)), Capped(ExactPart(step)))
    BY <1>1, PartIsCapped DEF ProductInv
  <1>4. acc' = Capped(PartsBefore(step) + ExactPart(step))
    BY <1>2, <1>3, AddIsCapped
  <1> QED
    BY <1>1, <1>2, <1>4

(* The product returned is the exact one, rounded towards zero and         *)
(* saturated.                                                              *)
LEMMA MulReturnIsExact ==
  ASSUME OperandsTyped, ProductInv, Arithmetic!MulReturn
  PROVE  Arithmetic!ResultIsExact'
  <1>1. step = 5 /\ op = "mul" /\ result' = Arithmetic!FromMag(acc) /\ UNCHANGED <<a, b, op>>
    BY DEF Arithmetic!MulReturn, Arithmetic!operands
  <1>2. PartsBefore(5) \in Nat
    BY PartsAreNatural
  <1>3. acc = Capped(PartsBefore(5))
    BY <1>1 DEF ProductInv
  <1>4. result' = Arithmetic!Saturated(IF Arithmetic!Negative THEN -PartsBefore(5)
                                                             ELSE PartsBefore(5))
    BY <1>1, <1>2, <1>3, SignedIsSaturated
  <1>5. Arithmetic!Exact = PartsBefore(5)
    BY <1>1, PartsMakeProduct DEF Arithmetic!Exact, MagA, MagB, Pow
  <1>6. Arithmetic!Exact' = Arithmetic!Exact /\ Arithmetic!Negative' = Arithmetic!Negative
    BY <1>1 DEF Arithmetic!Exact, Arithmetic!Negative, Arithmetic!Mag
  <1> QED
    BY <1>4, <1>5, <1>6 DEF Arithmetic!ResultIsExact

-----------------------------------------------------------------------------
(* The quotient                                                            *)

(* q is the quotient of the bits consumed so far.                          *)
DividedInto(q) ==
    /\ q \in Nat
    /\ acc = q * Pow(step + 1)
    /\ ScaledA \div Pow(step + 1) = q * MagB + rem

(* The inductive invariant of the long division: the quotient of the bits  *)
(* brought down so far and its remainder; what would be shifted out of the *)
(* accumulator is still zero.                                              *)
DivisionInv ==
    /\ step \in -1 .. 2 * H + F - 1
    /\ acc \in Nat /\ rem \in Nat
    /\ b = 0 => step >= 0 /\ status # "returned"
    /\ b # 0 => rem < MagB
    /\ b # 0 /\ status = "computing" =>
           /\ \E q : DividedInto(q)
           /\ step >= 2 * H - 1 => acc = 0

(* No bit is brought down at first.                                        *)
LEMMA DivisionStarts ==
  ASSUME OperandsTyped, acc = 0, rem = 0, step = 2 * H + F - 1, status = "computing"
  PROVE  DivisionInv
  <1>1. step + 1 = 2 * H + F /\ step \in -1 .. 2 * H + F - 1 /\ step >= 0
        /\ step + 1 \in Nat
    BY Widths
  <1>2. Pow(2 * H + F) = Pow(2 * H) * Pow(F)
    BY Widths, WidthPowers, Powers
  <1>3. MagA \in Nat /\ MagA < Pow(2 * H)
    BY Magnitudes, Words
  <1>4. Pow(F) \in Nat /\ Pow(F) > 0 /\ Pow(2 * H) \in Nat
    BY WidthPowers
  <1>5. ScaledA \in Nat /\ ScaledA < Pow(step + 1)
    <2> DEFINE w == Pow(F)
               h == Pow(2 * H)
    <2>1. w \in Nat /\ w > 0 /\ h \in Nat /\ MagA \in Nat /\ MagA < h
      BY <1>3, <1>4
    <2> HIDE DEF w, h
    <2>2. MagA * w \in Nat /\ MagA * w < h * w
      BY <2>1
    <2> QED
      BY <1>1, <1>2, <2>2 DEF ScaledA, w, h
  <1>6. ScaledA \div Pow(step + 1) = 0
    <2> DEFINE w == Pow(step + 1)
    <2>1. w \in Nat
      BY <1>1, Powers
    <2> HIDE DEF w
    <2> QED
      BY <1>5, <2>1 DEF w
  <1>7. b # 0 => MagB > 0 /\ MagB \in Nat
    BY Magnitudes, Words
  <1>8. b # 0 => DividedInto(0)
    <2>1. Pow(step + 1) \in Nat
      BY <1>1, Powers
    <2> QED
      BY <1>6, <1>7, <2>1 DEF DividedInto
  <1> QED
    BY <1>1, <1>7, <1>8 DEF DivisionInv

(* The bit that a step brings down.                                        *)
LEMMA BitIsNext ==
  ASSUME OperandsTyped, NEW x \in Nat
  PROVE  /\ Arithmetic!Bit(x) \in {0, 1}
         /\ ScaledA \div Pow(x) = 2 * (ScaledA \div Pow(x + 1)) + Arithmetic!Bit(x)
  <1> DEFINE w == Pow(x)
             q == ScaledA \div w
  <1>1. w \in Nat /\ w > 0 /\ Pow(x + 1) = 2 * w
    BY Powers
  <1>2. ScaledA \in Nat /\ MagA \in Nat
    BY Magnitudes, Words
  <1>3. q \in Nat
    <2> HIDE DEF w
    <2> QED
      BY <1>1, <1>2, QuotientGrows
  <1>4. ScaledA \div Pow(x + 1) = q \div 2
    <2>1. Pow(x + 1) = w * 2
      BY <1>1
    <2> HIDE DEF w
    <2>2. ScaledA \div (w * 2) = (ScaledA \div w) \div 2
      BY <1>1, <1>2, QuotientOfQuotient
    <2> QED
      BY <2>1, <2>2
  <1>5. Arithmetic!Bit(x) = q % 2
    <2>1. CASE x >= F
      <3>1. x - F \in Nat /\ F + (x - F) = x
        BY <2>1, Widths
      <3>2. w = Pow(F) * Pow(x - F) /\ Pow(x - F) \in Nat /\ Pow(x - F) > 0
        <4>1. F \in Nat /\ Pow(F + (x - F)) = Pow(F) * Pow(x - F)
          BY <3>1, Widths, Powers
        <4>2. Pow(x - F) \in Nat /\ Pow(x - F) > 0
          BY <3>1, Powers
        <4> QED
          BY <3>1, <4>1, <4>2
      <3>3. (MagA * Pow(F)) \div (Pow(F) * Pow(x - F)) = MagA \div Pow(x - F)
        BY <1>2, <3>2, WidthPowers, QuotientOfScaled
      <3>4. q = MagA \div Pow(x - F)
        BY <3>2, <3>3 DEF ScaledA
      <3> HIDE DEF q
      <3> QED
        BY <2>1, <3>4 DEF Arithmetic!Bit, MagA, Pow
    <2>2. CASE x < F
      <3> DEFINE y == F - x - 1
      <3>1. y \in Nat /\ x + (y + 1) = F
        BY <2>2, Widths
      <3> HIDE DEF y
      <3>2. Pow(F) = w * Pow(y + 1) /\ Pow(y + 1) = 2 * Pow(y) /\ Pow(y) \in Nat
        <4>1. y + 1 \in Nat /\ Pow(x + (y + 1)) = Pow(x) * Pow(y + 1)
          BY <3>1, Powers
        <4> QED
          BY <3>1, <4>1, Powers
      <3> HIDE DEF w
      <3>3. ScaledA = w * (2 * (MagA * Pow(y))) + 0 /\ MagA * Pow(y) \in Nat
        <4> DEFINE z == Pow(y)
        <4>1. ScaledA = MagA * (w * (2 * z)) /\ z \in Nat
          BY <3>2 DEF ScaledA
        <4> HIDE DEF z
        <4>2. /\ MagA * (w * (2 * z)) = w * (2 * (MagA * z))
              /\ MagA * z \in Nat /\ w * (2 * (MagA * z)) \in Nat
          BY <1>1, <1>2, <4>1
        <4> QED
          BY <4>1, <4>2 DEF z
      <3>4. q = 2 * (MagA * Pow(y))
        <4> DEFINE z == MagA * Pow(y)
        <4>1. ScaledA = w * (2 * z) + 0 /\ 2 * z \in Int /\ 0 \in 0 .. w - 1
          BY <1>1, <3>3
        <4> HIDE DEF z
        <4>2. ScaledA \div w = 2 * z
          BY <1>1, <1>2, <4>1, QuotientIs
        <4> QED
          BY <4>2 DEF z
      <3> HIDE DEF q
      <3>5. q % 2 = 0
        BY <3>3, <3>4
      <3> QED
        BY <2>2, <3>5, Widths DEF Arithmetic!Bit
    <2> QED
      BY <2>1, <2>2, Widths
  <1> HIDE DEF q
  <1>6. q % 2 \in {0, 1} /\ q = 2 * (q \div 2) + (q % 2)
    BY <1>3
  <1> QED
    BY <1>4, <1>5, <1>6 DEF q

(* A step of the division with quotient q so far.                          *)
LEMMA DivBitDivides ==
  ASSUME OperandsTyped, DivisionInv, Arithmetic!DivBit
  PROVE  DivisionInv' /\ Arithmetic!ResultIsExact'
  <1> DEFINE bit == Arithmetic!Bit(step)
             twice == 2 * rem + bit
             w == Pow(step)
  <1>1. b # 0 /\ status = "computing" /\ op = "div" /\ step >= 0 /\ UNCHANGED <<a, b, op>>
    BY DEF Arithmetic!DivBit, Arithmetic!operands
  <1>2. step \in Nat /\ step <= 2 * H + F - 1 /\ acc \in Nat /\ rem \in Nat /\ rem < MagB
        /\ (step >= 2 * H - 1 => acc = 0)
    BY <1>1, Widths DEF DivisionInv
  <1>3. PICK q : DividedInto(q)
    BY <1>1 DEF DivisionInv
  <1>4. MagB \in Nat /\ MagB > 0 /\ ScaledA \in Nat
    BY <1>1, Magnitudes, Words
  <1>5. bit \in {0, 1} /\ ScaledA \div w = 2 * (ScaledA \div Pow(step + 1)) + bit
    BY <1>2, BitIsNext
  <1>6. w \in Nat /\ w > 0 /\ Pow(step + 1) = 2 * w
    BY <1>2, Powers
  <1>7. q \in Nat /\ acc = q * (2 * w) /\ ScaledA \div Pow(step + 1) = q * MagB + rem
    BY <1>3, <1>6 DEF DividedInto
  <1>8. ScaledA \div w = (2 * q) * MagB + twice
    <2> DEFINE z == q * MagB
    <2>1. z \in Int /\ (2 * q) * MagB = 2 * z
      BY <1>4, <1>7
    <2>2. ScaledA \div Pow(step + 1) = z + rem
      BY <1>7
    <2> HIDE DEF z, bit, w
    <2> QED
      BY <1>2, <1>5, <2>1, <2>2
  <1>9. twice \in Nat /\ twice <= 2 * MagB - 1
    BY <1>2, <1>4, <1>5
  <1>10. MagA' = MagA /\ MagB' = MagB /\ ScaledA' = ScaledA /\ \A x : Pow(x)' = Pow(x)
    BY <1>1 DEF MagA, MagB, ScaledA, Pow, Arithmetic!Mag
  <1>11. Arithmetic!GoesIn(twice) <=> twice >= MagB
    BY DEF Arithmetic!GoesIn, MagB
  <1>12. CASE twice >= MagB /\ step >= 2 * H
    <2>1. status' = "returned" /\ result' = Arithmetic!FromMag(Arithmetic!UMax)
          /\ UNCHANGED <<step, acc, rem>>
      BY <1>11, <1>12 DEF Arithmetic!DivBit
    <2>2. DivisionInv'
      BY <1>1, <1>2, <1>10, <2>1 DEF DivisionInv
    <2> DEFINE u == Arithmetic!UMax
               exact == ScaledA \div MagB
    <2>3. acc = 0
      BY <1>2, <1>12, Widths
    <2>4. q = 0
      BY <1>6, <1>7, <2>3
    <2>5. ScaledA \div w >= MagB
      BY <1>4, <1>8, <1>9, <1>12, <2>4
    <2>6. ScaledA >= w * MagB
      <3> HIDE DEF w
      <3> QED
        BY <1>4, <1>6, <2>5, QuotientAtLeast
    <2>7. w >= Pow(2 * H)
      <3> DEFINE e == step - 2 * H
                 g == Pow(2 * H)
                 h == Pow(e)
      <3>1. e \in Nat /\ 2 * H \in Nat /\ 2 * H + e = step
        BY <1>2, <1>12, Widths
      <3>2. Pow(2 * H + e) = g * h /\ g \in Nat /\ h \in Nat /\ h > 0
        BY <3>1, Powers
      <3> HIDE DEF e
      <3>3. w = g * h
        BY <3>1, <3>2
      <3> HIDE DEF w, g, h
      <3>4. g * h >= g
        BY <3>2
      <3> QED
        BY <3>3, <3>4 DEF g
    <2>8. ScaledA >= MagB * Pow(2 * H)
      <3> DEFINE g == Pow(2 * H)
      <3>1. w >= g /\ g \in Nat
        BY <2>7, WidthPowers
      <3> HIDE DEF g, w
      <3>2. w * MagB >= MagB * g /\ w * MagB \in Nat /\ MagB * g \in Nat
        BY <1>4, <1>6, <3>1
      <3> QED
        BY <1>4, <2>6, <3>2 DEF g
    <2>9. exact >= Pow(2 * H)
      <3>1. Pow(2 * H) \in Int
        BY WidthPowers
      <3> QED
        BY <1>4, <2>8, <3>1, QuotientAtLeast
    <2>10. exact \in Nat
      BY <1>4, QuotientGrows
    <2> HIDE DEF exact
    <2>11. u = Capped(exact)
      BY <2>9, <2>10, Words DEF Capped
    <2>12. result' = Arithmetic!Saturated(IF Arithmetic!Negative THEN -exact ELSE exact)
      BY <2>1, <2>10, <2>11, SignedIsSaturated
    <2>13. Arithmetic!Exact = exact
      BY <1>1 DEF exact, Arithmetic!Exact, ScaledA, MagA, MagB, Pow
    <2>14. Arithmetic!Exact' = Arithmetic!Exact /\ Arithmetic!Negative' = Arithmetic!Negative
      BY <1>1 DEF Arithmetic!Exact, Arithmetic!Negative, Arithmetic!Mag
    <2> QED
      BY <2>2, <2>12, <2>13, <2>14 DEF Arithmetic!ResultIsExact
  <1>13. CASE ~(twice >= MagB /\ step >= 2 * H)
    <2>1. /\ rem' = IF twice >= MagB THEN twice - MagB ELSE twice
          /\ acc' = IF twice >= MagB THEN acc + w ELSE acc
          /\ step' = step - 1 /\ UNCHANGED <<status, result>>
      BY <1>11, <1>13 DEF Arithmetic!DivBit, Pow, MagB
    <2>2. Arithmetic!ResultIsExact'
      BY <1>1, <2>1 DEF Arithmetic!ResultIsExact
    <2>3. step' + 1 = step /\ step' \in -1 .. 2 * H + F - 1
      BY <1>2, <2>1, Widths
    <2>4. rem' \in Nat /\ rem' < MagB
      BY <1>4, <1>9, <2>1
    <2>5. acc' \in Nat
      BY <1>2, <1>6, <2>1
    <2>6. step' >= 2 * H - 1 => acc' = 0
      BY <1>2, <1>13, <2>1, Widths
    <2>7. \E p : p \in Nat /\ acc' = p * w /\ ScaledA \div w = p * MagB + rem'
      <3> HIDE DEF w, twice
      <3>1. CASE twice >= MagB
        <4>1. acc' = (2 * q + 1) * w
          BY <1>6, <1>7, <2>1, <3>1
        <4>2. (2 * q) * MagB + twice = (2 * q + 1) * MagB + rem'
          <5> DEFINE z == (2 * q) * MagB
          <5>1. z \in Int /\ (2 * q + 1) * MagB = z + MagB
            BY <1>4, <1>7
          <5> HIDE DEF z
          <5>2. z + twice = z + MagB + rem'
            BY <1>4, <1>9, <2>1, <3>1, <5>1
          <5> QED
            BY <5>1, <5>2 DEF z
        <4> QED
          BY <1>7, <1>8, <4>1, <4>2
      <3>2. CASE ~(twice >= MagB)
        <4>1. acc' = (2 * q) * w /\ rem' = twice
          BY <1>6, <1>7, <2>1, <3>2
        <4> QED
          BY <1>7, <1>8, <4>1
      <3> QED
        BY <3>1, <3>2
    <2>8. (\E p : DividedInto(p))'
      <3>1. PICK p : p \in Nat /\ acc' = p * w /\ ScaledA \div w = p * MagB + rem'
        BY <2>7
      <3>2. Pow(step' + 1) = w
        BY <2>3
      <3>3. DividedInto(p)'
        BY <1>10, <3>1, <3>2 DEF DividedInto
      <3> QED
        BY <3>3
    <2> QED
      BY <1>1, <1>10, <2>1, <2>2, <2>3, <2>4, <2>5, <2>6, <2>8 DEF DivisionInv
  <1> QED
    BY <1>12, <1>13

(* After the last bit the remainder is that of the quotient found.         *)
LEMMA DivReturnIsExact ==
  ASSUME OperandsTyped, DivisionInv, Arithmetic!DivReturn
  PROVE  DivisionInv' /\ Arithmetic!ResultIsExact'
  <1>1. /\ op = "div" /\ step = -1 /\ status = "computing" /\ status' = "returned"
        /\ result' = Arithmetic!FromMag(acc) /\ UNCHANGED <<a, b, op, step, acc, rem>>
    BY DEF Arithmetic!DivReturn, Arithmetic!operands
  <1>2. b # 0 /\ rem \in Nat /\ rem < MagB
    BY <1>1 DEF DivisionInv
  <1>3. PICK q : DividedInto(q)
    BY <1>1, <1>2 DEF DivisionInv
  <1>4. MagB \in Nat /\ MagB > 0 /\ ScaledA \in Nat
    BY <1>2, Magnitudes, Words
  <1>5. Pow(step + 1) = 1
    BY <1>1, Powers
  <1>6. q \in Nat /\ acc = q /\ ScaledA = q * MagB + rem
    BY <1>3, <1>4, <1>5 DEF DividedInto
  <1>7. ScaledA \div MagB = q
    <2>1. ScaledA = MagB * q + rem /\ rem \in 0 .. MagB - 1 /\ q \in Int
      BY <1>2, <1>4, <1>6
    <2> QED
      BY <1>4, <2>1, QuotientIs
  <1>8. result' = Arithmetic!Saturated(IF Arithmetic!Negative THEN -q ELSE q)
    BY <1>1, <1>6, SignedIsSaturated
  <1>9. Arithmetic!Exact = q
    BY <1>1, <1>7 DEF Arithmetic!Exact, ScaledA, MagA, MagB, Pow
  <1>10. Arithmetic!Exact' = Arithmetic!Exact /\ Arithmetic!Negative' = Arithmetic!Negative
         /\ MagB' = MagB
    BY <1>1 DEF Arithmetic!Exact, Arithmetic!Negative, Arithmetic!Mag, MagB
  <1> QED
    BY <1>1, <1>2, <1>8, <1>9, <1>10 DEF Arithmetic!ResultIsExact, DivisionInv

-----------------------------------------------------------------------------

(* The inductive invariant of the product and the quotient.                *)
ArithmeticInv ==
    /\ OperandsTyped
    /\ op = "mul" => ProductInv
    /\ op = "div" => DivisionInv
    /\ Arithmetic!ResultIsExact

(* Nothing is computed at first.                                           *)
LEMMA ArithmeticStarts == Arithmetic!Init => ArithmeticInv
  <1> SUFFICES ASSUME Arithmetic!Init PROVE ArithmeticInv
    OBVIOUS
  <1>1. OperandsTyped /\ acc = 0 /\ rem = 0 /\ status = "computing"
    BY DEF OperandsTyped, Arithmetic!Init
  <1>2. op = "mul" => ProductInv
    <2>1. Capped(PartsBefore(1)) = 0
      BY <1>1, PartsAreNatural, Words DEF Capped
    <2> QED
      BY <1>1, <2>1 DEF ProductInv, Arithmetic!Init
  <1>3. op = "div" => DivisionInv
    BY <1>1, DivisionStarts DEF Arithmetic!Init
  <1> QED
    BY <1>1, <1>2, <1>3 DEF ArithmeticInv, Arithmetic!ResultIsExact

(* The invariant is kept by every step of either loop.                     *)
LEMMA ArithmeticStep == ArithmeticInv /\ Arithmetic!Next => ArithmeticInv'
  <1> SUFFICES ASSUME ArithmeticInv, Arithmetic!Next PROVE ArithmeticInv'
    OBVIOUS
  <1>1. OperandsTyped /\ (op = "mul" => ProductInv) /\ (op = "div" => DivisionInv)
    BY DEF ArithmeticInv
  <1>2. UNCHANGED <<a, b, op>>
    BY DEF Arithmetic!Next, Arithmetic!MulPart, Arithmetic!MulReturn, Arithmetic!DivByZero,
           Arithmetic!DivBit, Arithmetic!DivReturn, Arithmetic!operands
  <1>3. OperandsTyped'
    BY <1>1, <1>2 DEF OperandsTyped, Arithmetic!SMin, Arithmetic!SMax
  <1>4. /\ MagA' = MagA /\ MagB' = MagB /\ ScaledA' = ScaledA
        /\ \A x : PartsBefore(x)' = PartsBefore(x) /\ Capped(x)' = Capped(x)
    BY <1>2 DEF MagA, MagB, ScaledA, Pow, Arithmetic!Mag, PartsBefore, ExactPart, High, Low, Capped,
                Arithmetic!UMax
  <1>5. CASE Arithmetic!MulPart
    <2>1. op = "mul" /\ step \in 1 .. 4 /\ UNCHANGED <<status, result>>
      BY <1>5 DEF Arithmetic!MulPart
    <2>2. status # "returned"
      BY <1>1, <2>1 DEF ProductInv
    <2>3. step' \in 1 .. 5 /\ acc' = Capped(PartsBefore(step'))
      BY <1>1, <1>5, <2>1, MulPartAdds
    <2>5. ProductInv'
      BY <1>4, <2>1, <2>2, <2>3 DEF ProductInv
    <2> QED
      BY <1>2, <1>3, <2>1, <2>2, <2>5 DEF ArithmeticInv, Arithmetic!ResultIsExact
  <1>6. CASE Arithmetic!MulReturn
    <2>1. op = "mul" /\ step = 5 /\ UNCHANGED <<step, acc>>
      BY <1>6 DEF Arithmetic!MulReturn
    <2> QED
      BY <1>1, <1>2, <1>3, <1>4, <1>6, <2>1, MulReturnIsExact DEF ArithmeticInv, ProductInv
  <1>7. CASE Arithmetic!DivByZero
    BY <1>1, <1>2, <1>3, <1>4, <1>7
       DEF ArithmeticInv, DivisionInv, Arithmetic!DivByZero, Arithmetic!ResultIsExact
  <1>8. CASE Arithmetic!DivBit
    <2>1. op = "div"
      BY <1>8 DEF Arithmetic!DivBit
    <2> QED
      BY <1>1, <1>2, <1>3, <1>8, <2>1, DivBitDivides DEF ArithmeticInv
  <1>9. CASE Arithmetic!DivReturn
    <2>1. op = "div"
      BY <1>9 DEF Arithmetic!DivReturn
    <2> QED
      BY <1>1, <1>2, <1>3, <1>9, <2>1, DivReturnIsExact DEF ArithmeticInv
  <1> QED
    BY <1>5, <1>6, <1>7, <1>8, <1>9 DEF Arithmetic!Next

(* The invariant implies what the division promises at every bit.          *)
LEMMA DivisionIsLong == ArithmeticInv => Arithmetic!LongDivision
  <1> SUFFICES ASSUME ArithmeticInv, op = "div", b # 0
               PROVE  /\ rem < MagB
                      /\ 2 * rem + 1 <= Arithmetic!UMax
                      /\ status = "computing" =>
                             ScaledA \div Pow(step + 1) = (acc \div Pow(step + 1)) * MagB + rem
    BY DEF Arithmetic!LongDivision, ScaledA, MagA, MagB, Pow
  <1>1. DivisionInv /\ OperandsTyped
    BY DEF ArithmeticInv
  <1>2. rem \in Nat /\ rem < MagB
    BY <1>1 DEF DivisionInv
  <1>3. 2 * rem + 1 <= Arithmetic!UMax
    BY <1>1, <1>2, Magnitudes, Words
  <1>4. ASSUME status = "computing"
        PROVE  ScaledA \div Pow(step + 1) = (acc \div Pow(step + 1)) * MagB + rem
    <2>1. PICK q : DividedInto(q)
      BY <1>1, <1>4 DEF DivisionInv
    <2> DEFINE w == Pow(step + 1)
    <2>2. w \in Nat /\ w > 0
      <3>1. step + 1 \in Nat
        BY <1>1, Widths DEF DivisionInv
      <3> QED
        BY <3>1, Powers
    <2>3. q \in Nat /\ acc = q * w /\ ScaledA \div w = q * MagB + rem
      BY <2>1 DEF DividedInto
    <2> HIDE DEF w
    <2>4. acc = w * q + 0 /\ acc \in Int /\ 0 \in 0 .. w - 1
      BY <2>2, <2>3
    <2>5. acc \div w = q
      BY <2>2, <2>3, <2>4, QuotientIs
    <2> QED
      BY <2>3, <2>5 DEF w
  <1> QED
    BY <1>2, <1>3, <1>4

(* The number that fixed_point.h makes of a magnitude.                     *)
LEMMA SignsAgree ==
  ASSUME NEW x \in Nat
  PROVE  LET ours == Arithmetic!Saturated(IF Arithmetic!Negative THEN -x ELSE x)
             other == Arithmetic!FromAbsSign(x)
         IN  ours = other \/ (ours = Arithmetic!SMin /\ other = Arithmetic!SMin + 1)
  BY Words DEF Arithmetic!Saturated, Arithmetic!FromAbsSign

(* The routines of fixed_point.h return the same numbers, but for the      *)
(* least word.                                                             *)
LEMMA ImplementationsAgree == ArithmeticInv => Arithmetic!AgreesWithFxp
  <1> SUFFICES ASSUME ArithmeticInv, status = "returned"
               PROVE  LET other == IF op = "mul" THEN Arithmetic!FxpMul ELSE Arithmetic!FxpDiv
                      IN  result = other \/ (result = Arithmetic!SMin
                                             /\ other = Arithmetic!SMin + 1)
    BY DEF Arithmetic!AgreesWithFxp
  <1>1. OperandsTyped
    BY DEF ArithmeticInv
  <1>2. op = "div" => b # 0
    BY DEF ArithmeticInv, DivisionInv
  <1>3. (IF op = "mul" THEN Arithmetic!FxpMul ELSE Arithmetic!FxpDiv)
            = Arithmetic!FromAbsSign(Arithmetic!Exact)
    BY <1>1, <1>2 DEF OperandsTyped, Arithmetic!FxpMul, Arithmetic!FxpDiv, Arithmetic!MulDiv,
                      Arithmetic!Exact
  <1>4. Arithmetic!Exact \in Nat
    <2>1. MagA \in Nat /\ MagB \in Nat /\ Pow(F) \in Nat /\ Pow(F) > 0
      BY <1>1, Magnitudes, Words, WidthPowers
    <2>2. MagA * MagB \in Nat /\ ScaledA \in Nat
      BY <1>1, <2>1, Magnitudes, ProductIsNatural
    <2>3. op = "mul" => Arithmetic!Exact = (MagA * MagB) \div Pow(F)
      BY DEF Arithmetic!Exact, MagA, MagB, Pow
    <2>4. op = "div" => Arithmetic!Exact = ScaledA \div MagB /\ MagB > 0
      BY <1>1, <1>2, Magnitudes DEF Arithmetic!Exact, ScaledA, MagA, MagB, Pow
    <2>5. (MagA * MagB) \div Pow(F) \in Nat
      BY <2>1, <2>2, QuotientGrows
    <2>6. op = "div" => ScaledA \div MagB \in Nat
      BY <2>1, <2>2, <2>4, QuotientGrows
    <2> QED
      BY <1>1, <2>3, <2>4, <2>5, <2>6 DEF OperandsTyped
  <1>5. result = Arithmetic!Saturated(IF Arithmetic!Negative THEN -Arithmetic!Exact
                                                             ELSE Arithmetic!Exact)
    BY DEF ArithmeticInv, Arithmetic!ResultIsExact
  <1> QED
    BY <1>3, <1>4, <1>5, SignsAgree

(* ga_fp_mul and ga_fp_div of ga.c return the exact product and quotient,  *)
(* rounded towards zero and saturated, for words of every even width; the  *)
(* division is correct at every bit, and fixed_point.h returns the same    *)
(* numbers up to its handling of the least word.                           *)
THEOREM ArithmeticExact == Spec => []ArithmeticIsExact
  <1> DEFINE IInv == part = "arithmetic" => ArithmeticInv
  <1>1. Init => IInv
    BY ArithmeticStarts DEF Init
  <1>2. IInv /\ [Next]_vars => IInv'
    <2> SUFFICES ASSUME IInv, [Next]_vars, part' = "arithmetic" PROVE ArithmeticInv'
      OBVIOUS
    <2>1. CASE part = "arithmetic" /\ Arithmetic!Next
      BY <2>1, ArithmeticStep
    <2>2. CASE UNCHANGED vars
      <3>1. UNCHANGED <<part, a, b, op, step, acc, rem, status, result>>
        BY <2>2 DEF vars, ArithmeticOnly
      <3>2. ArithmeticInv' = ArithmeticInv
        BY <3>1 DEF ArithmeticInv, OperandsTyped, ProductInv, DivisionInv, DividedInto,
                    ScaledA, MagA, MagB, Pow, PartsBefore, ExactPart, High, Low, Capped,
                    Arithmetic!Mag, Arithmetic!UMax, Arithmetic!SMax, Arithmetic!SMin,
                    Arithmetic!ResultIsExact, Arithmetic!Saturated, Arithmetic!Negative,
                    Arithmetic!Exact
      <3> QED
        BY <3>1, <3>2
    <2> QED
      BY <2>1, <2>2 DEF Next
  <1>3. IInv => ArithmeticIsExact
    BY DivisionIsLong, ImplementationsAgree DEF ArithmeticInv, ArithmeticIsExact
  <1> HIDE DEF IInv
  <1> QED
    BY <1>1, <1>2, <1>3, PTL DEF Spec
=============================================================================
