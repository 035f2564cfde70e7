----------------------------- MODULE ObjectsExport -----------------------------
(***************************************************************************)
(* Export of the Objects checkpoints to GGUF                               *)
(* (scripts/objects/convert_sam3d_to_gguf.py and gguf_schema.py).          *)
(*                                                                         *)
(* One process converts one model or all of them, tensor by tensor, under  *)
(* options that decide how each tensor is stored, which ones are           *)
(* calibrated and which get low-rank factors.  Tensors are collected in a  *)
(* writer; the output file is opened, truncated and filled at the end of   *)
(* each model.  The process may raise or be killed anywhere, and is run    *)
(* again into the same directory with other options.                       *)
(*                                                                         *)
(* A tensor is its name, the length of that name, its dimensions and what  *)
(* the code tests of it; values are told apart as those of the checkpoint, *)
(* of an override and of calibration.                                      *)
(***************************************************************************)
EXTENDS Integers, Sequences, FiniteSets

CONSTANTS
    None,
    Checkpoint,  \* model -> its tensors: a sequence of records, see TensorType
    Requests,    \* the command lines tried: a set of records, see OptionsType
    MaxRuns      \* bound: processes started

Generators == {"ss_generator", "slat_generator"}
AllModels  == <<"ss_generator", "ss_decoder", "slat_generator", "slat_decoder_gs",
                "slat_decoder_gs_4", "slat_decoder_mesh">>
Models     == {AllModels[i] : i \in 1..Len(AllModels)} \cup {"moge_vitl"}
Dtypes     == {"f32", "f16", "q4_0", "q4_1", "q4_k", "q8_0"}
Packed     == {"q4_0", "q4_1", "q4_k", "q8_0"}

\* key: what rewrite_key sees; weight: the name ends in .weight; bytes: its length.
TensorType == [name : STRING, key : {"cemb", "dit", "base_models", "plain"},
               role : {"plain", "pos_embed", "sparse_conv"}, weight : BOOLEAN,
               bytes : Nat, dims : Seq(Nat \ {0})]

\* Names in calibrated carry the rows of their sample, those in ranks and
\* factors what the configuration asks for.
OptionsType == [model : Models \cup {"all"}, dtype : Dtypes, keep : SUBSET STRING,
                matrixOnly : BOOLEAN, calibrated : SUBSET [name : STRING, rows : Nat],
                overrides : SUBSET [name : STRING, dims : Seq(Nat)],
                ranks : SUBSET [name : STRING, rank : Int],
                factors : SUBSET [name : STRING, weight : BOOLEAN,
                                  a : Seq(Nat) \cup {None}, b : Seq(Nat) \cup {None}],
                moge : BOOLEAN]

ASSUME ExportAssumption ==
    /\ DOMAIN Checkpoint = Models
    /\ \A model \in Models :
          /\ Checkpoint[model] \in Seq(TensorType)
          /\ \A i \in 1..Len(Checkpoint[model]) :
                LET t == Checkpoint[model][i] IN
                t.role = "pos_embed" => Len(t.dims) # 4 \/ t.dims[1] = 1
    /\ Requests \subseteq OptionsType
    /\ MaxRuns \in Nat

VARIABLES
    run,    \* the process: where it is, its options, the model and the writer
    files,  \* <<model, dtype>> -> None, or the file of that name
    runs,
    cut     \* history: files whose writing was ended by an error or a kill

vars == <<run, files, runs, cut>>

Paths == Models \X Dtypes
Quiet == [pc |-> "idle", opts |-> None, left |-> <<>>, k |-> 0, out |-> {}, done |-> {}]

Opts  == run.opts
Model == Head(run.left)
Path  == <<Model, Opts.dtype>>
Names(set) == {x.name : x \in set}
The(set, name) == CHOOSE x \in set : x.name = name

Init ==
    /\ run = Quiet
    /\ files = [p \in Paths |-> None]
    /\ runs = 0 /\ cut = {}

-----------------------------------------------------------------------------
(* How a tensor is stored                                                  *)

BlockSize(dtype) == IF dtype = "q4_k" THEN 256 ELSE 32
BlockBytes == [q4_0 |-> 18, q4_1 |-> 20, q4_k |-> 144, q8_0 |-> 34]

Row(dims) == dims[Len(dims)]
Fills(dims, dtype) == Row(dims) % BlockSize(dtype) = 0

Product(dims) == LET prod[i \in 0..Len(dims)] == IF i = 0 THEN 1 ELSE dims[i] * prod[i - 1]
                 IN prod[Len(dims)]

\* Mutant: a row that does not fill its blocks is packed all the same.
ConvertUnaligned(dims, dtype) == IF Len(dims) <= 1 THEN "f32" ELSE dtype

\* convert_tensor: vectors stay F32, and a row that does not fill its blocks
\* is stored in F16.
Convert(dims, dtype) ==
    IF Len(dims) <= 1 THEN "f32"
    ELSE IF dtype \in Packed /\ ~Fills(dims, dtype) THEN "f16"
    ELSE dtype

\* write_tensor: the shape in bytes of a packed tensor's rows.
ByteShape(dims, dtype) ==
    [dims EXCEPT ![Len(dims)] = (@ \div BlockSize(dtype)) * BlockBytes[dtype]]

\* What the quantizers return: their blocks one after the other.
PackedBytes(dims, dtype) == (Product(dims) \div BlockSize(dtype)) * BlockBytes[dtype]

\* rewrite_key: unrelated entries of a generator's checkpoint are skipped.
Rewrites(t) == t.key # "base_models"

\* sparse_conv_weight.
SparseRows(dims) == <<dims[1], dims[2] * dims[2] * dims[2] * dims[5]>>

GeneratorDims(t) ==
    IF t.role = "pos_embed" /\ Len(t.dims) = 4 THEN <<t.dims[3] * t.dims[4], t.dims[2]>>
    ELSE IF t.role = "sparse_conv" THEN SparseRows(t.dims)
    ELSE t.dims

SsDecoderDims(t) ==
    IF t.weight /\ Len(t.dims) = 5 THEN <<t.dims[1], t.dims[2] * 27>> ELSE t.dims

MeshDecoderDims(t) ==
    IF ~(t.weight /\ Len(t.dims) = 5) THEN t.dims
    ELSE IF t.dims[2] = 1 THEN <<1, t.dims[1] * t.dims[5]>>
    ELSE <<t.dims[2] * t.dims[2] * t.dims[2], t.dims[1] * t.dims[5]>>

\* Mutant: the policy forgets what the other one has decided.
PolicyOfLast(t, dims) ==
    IF Opts.dtype = "q4_k" THEN ~(t.weight /\ Len(dims) >= 2 /\ Fills(dims, "q4_k"))
    ELSE IF Opts.matrixOnly THEN ~(t.weight /\ Len(dims) >= 2)
    ELSE t.name \in Opts.keep

\* Is a generator's tensor kept out of quantization?
ForceF16(t, dims) ==
    \/ t.name \in Opts.keep
    \/ Opts.matrixOnly /\ ~(t.weight /\ Len(dims) >= 2)
    \/ Opts.dtype = "q4_k" /\ ~(t.weight /\ Len(dims) >= 2 /\ Fills(dims, "q4_k"))

-----------------------------------------------------------------------------
(* The command line                                                        *)

ModelsOf(opts) == IF opts.model = "all" THEN AllModels ELSE <<opts.model>>

\* main: combinations of options that are refused.
Allowed(opts) ==
    LET models == ModelsOf(opts) IN
    /\ opts.model = "moge_vitl" => opts.moge
    /\ opts.overrides # {} => \A i \in 1..Len(models) : models[i] \in Generators
    /\ opts.ranks # {} \/ opts.factors # {} =>
          opts.dtype = "q4_0" /\ models = <<"ss_generator">>
    /\ opts.ranks = {} \/ opts.factors = {}

\* load_q4_low_rank_residuals: a positive rank for each weight.
RanksLoad(opts) == \A r \in opts.ranks : r.rank > 0

\* load_q4_low_rank_residual_overrides: both factors, each time of a weight.
FactorsLoad(opts) == \A f \in opts.factors : f.weight /\ f.a # None /\ f.b # None

Start(opts) ==
    /\ run.pc = "idle" /\ runs < MaxRuns
    /\ Allowed(opts) /\ RanksLoad(opts) /\ FactorsLoad(opts)
    /\ run' = [Quiet EXCEPT !.pc = "begin", !.opts = opts, !.left = ModelsOf(opts)]
    /\ runs' = runs + 1
    /\ UNCHANGED <<files, cut>>

-----------------------------------------------------------------------------
(* One model                                                               *)

\* apply_weight_overrides: each one names a tensor of the same shape.
OverridesApply ==
    \A o \in Opts.overrides : \E i \in 1..Len(Checkpoint[Model]) :
        Checkpoint[Model][i].name = o.name /\ Checkpoint[Model][i].dims = o.dims

Opened == run' = [run EXCEPT !.pc = "tensor", !.k = 1, !.out = {}, !.done = {}]

\* The checkpoint, its overrides, the calibration samples; the metadata.
BeginGenerator ==
    /\ run.pc = "begin" /\ Model \in Generators
    /\ OverridesApply
    /\ Opts.ranks # {} \/ Opts.factors # {} => Model = "ss_generator"
    /\ Opts.calibrated # {} => Opts.dtype = "q4_0"
    /\ Opened
    /\ UNCHANGED <<files, runs, cut>>

\* A decoder or MoGe: none of the policies reaches it.
BeginDecoder ==
    /\ run.pc = "begin" /\ Model \notin Generators
    /\ Opened
    /\ UNCHANGED <<files, runs, cut>>

Tensor == Checkpoint[Model][run.k]
AtTensor == run.pc = "tensor" /\ run.k <= Len(Checkpoint[Model])

Stored(name, bytes, dims, type, value) ==
    [name |-> name, bytes |-> bytes, dims |-> dims, type |-> type, value |-> value]

\* Tensor.reshape refuses another number of elements.
Reshapes(dims) == Product(Tensor.dims) = Product(dims)

\* GGUFWriter.add_tensor refuses a name it has.
Fresh(name) == name \notin Names(run.out)

\* rewrite_key returned None.
SkipTensor ==
    /\ AtTensor /\ Model \in Generators /\ ~Rewrites(Tensor)
    /\ run' = [run EXCEPT !.k = @ + 1]
    /\ UNCHANGED <<files, runs, cut>>

\* One turn of convert_generator's loop, up to its residual.
GeneratorTensor ==
    LET dims  == GeneratorDims(Tensor)
        dtype == IF ForceF16(Tensor, dims) THEN "f16" ELSE Opts.dtype
        calibrated == Tensor.name \in Names(Opts.calibrated)
    IN
    /\ AtTensor /\ Model \in Generators /\ Rewrites(Tensor)
    /\ Tensor.role = "sparse_conv" => Len(Tensor.dims) >= 5
    /\ Reshapes(dims)
    /\ calibrated => /\ dtype = "q4_0"
                     /\ Len(dims) = 2
                     /\ dims[2] = The(Opts.calibrated, Tensor.name).rows
    /\ Fresh(<<Tensor.name, "">>)
    /\ run' = [run EXCEPT
         !.out = @ \cup {Stored(<<Tensor.name, "">>, Tensor.bytes, dims, Convert(dims, dtype),
                          IF calibrated /\ Convert(dims, dtype) = "q4_0" THEN "calibrated"
                          ELSE IF Tensor.name \in Names(Opts.overrides) THEN "override"
                          ELSE "source")},
         !.pc = IF Tensor.name \in Names(Opts.ranks \cup Opts.factors) THEN "factors" ELSE "tensor",
         !.k = IF Tensor.name \in Names(Opts.ranks \cup Opts.factors) THEN @ ELSE @ + 1]
    /\ UNCHANGED <<files, runs, cut>>

\* q4_low_rank_factor_names: the long suffixes when they fit 63 bytes.
SuffixesFor(t) == IF t.bytes + 7 < 64 THEN <<".lora_a", ".lora_b", 7>> ELSE <<".ra", ".rb", 3>>
FactorNamesFit(t) == t.bytes + SuffixesFor(t)[3] < 64

\* q4_0_low_rank_residual_factors: a matrix of whole blocks, a rank within it.
CanFactor(dims, rank) ==
    /\ Len(dims) = 2 /\ dims[2] % 32 = 0
    /\ rank <= (IF dims[1] < dims[2] THEN dims[1] ELSE dims[2])

\* Trained factors must fit the weight and each other.
FactorsFit(dims, a, b) ==
    /\ Len(a) = 2 /\ Len(b) = 2 /\ Len(dims) >= 2
    /\ a[2] = dims[2] /\ b[1] = dims[1] /\ a[1] = b[2]

\* The other half of the turn: both factors are stored in F16.
AddFactors ==
    LET dims   == GeneratorDims(Tensor)
        static == Tensor.name \in Names(Opts.ranks)
        rank   == The(Opts.ranks, Tensor.name).rank
        given  == The(Opts.factors, Tensor.name)
        a      == IF static THEN <<rank, dims[2]>> ELSE given.a
        b      == IF static THEN <<dims[1], rank>> ELSE given.b
        suffix == SuffixesFor(Tensor)
        value  == IF static THEN "computed" ELSE "trained"
    IN
    /\ run.pc = "factors"
    /\ ~ForceF16(Tensor, dims)
    /\ Tensor.name \notin Names(Opts.calibrated)
    /\ IF static THEN CanFactor(dims, rank) ELSE FactorsFit(dims, a, b)
    /\ FactorNamesFit(Tensor)
    /\ Fresh(<<Tensor.name, suffix[1]>>) /\ Fresh(<<Tensor.name, suffix[2]>>)
    /\ run' = [run EXCEPT !.pc = "tensor", !.k = @ + 1,
         !.out = @ \cup {Stored(<<Tensor.name, suffix[1]>>, Tensor.bytes + suffix[3], a,
                          Convert(a, "f16"), value),
                         Stored(<<Tensor.name, suffix[2]>>, Tensor.bytes + suffix[3], b,
                          Convert(b, "f16"), value)},
         !.done = @ \cup {Tensor.name}]
    /\ UNCHANGED <<files, runs, cut>>

\* One turn of a decoder's loop.
DecoderTensor(dims) ==
    /\ Reshapes(dims)
    /\ Fresh(<<Tensor.name, "">>)
    /\ run' = [run EXCEPT !.k = @ + 1,
         !.out = @ \cup {Stored(<<Tensor.name, "">>, Tensor.bytes, dims, Convert(dims, Opts.dtype), "source")}]
    /\ UNCHANGED <<files, runs, cut>>

SsDecoderTensor ==
    AtTensor /\ Model = "ss_decoder" /\ DecoderTensor(SsDecoderDims(Tensor))

GsDecoderTensor ==
    AtTensor /\ Model \in {"slat_decoder_gs", "slat_decoder_gs_4"} /\ DecoderTensor(Tensor.dims)

MeshDecoderTensor ==
    AtTensor /\ Model = "slat_decoder_mesh" /\ DecoderTensor(MeshDecoderDims(Tensor))

MogeTensor == AtTensor /\ Model = "moge_vitl" /\ DecoderTensor(Tensor.dims)

\* Mutant: residuals that met no tensor are only reported.
CheckNothing ==
    /\ run.pc = "tensor" /\ run.k > Len(Checkpoint[Model])
    /\ run' = [run EXCEPT !.pc = "finish"]
    /\ UNCHANGED <<files, runs, cut>>

\* After the last tensor: every residual asked for was exported.
CheckResiduals ==
    /\ run.pc = "tensor" /\ run.k > Len(Checkpoint[Model])
    /\ Model \in Generators => Names(Opts.ranks \cup Opts.factors) \subseteq run.done
    /\ run' = [run EXCEPT !.pc = "finish"]
    /\ UNCHANGED <<files, runs, cut>>

\* finish_gguf: open_output_file truncates what is there ...
OpenOutput ==
    /\ run.pc = "finish"
    /\ files' = [files EXCEPT ![Path] = [whole |-> FALSE, out |-> run.out, opts |-> Opts,
                                         done |-> run.done]]
    /\ run' = [run EXCEPT !.pc = "write"]
    /\ UNCHANGED <<runs, cut>>

\* ... and header, metadata and tensors follow; then main takes the next model.
WriteOutput ==
    /\ run.pc = "write"
    /\ files' = [files EXCEPT ![Path].whole = TRUE]
    /\ cut' = cut \ {Path}
    /\ run' = IF Len(run.left) = 1 THEN Quiet
              ELSE [run EXCEPT !.pc = "begin", !.left = Tail(@), !.k = 0, !.out = {}, !.done = {}]
    /\ UNCHANGED runs

\* An exception of any kind, or a kill.
Stop ==
    /\ run.pc # "idle"
    /\ cut' = IF run.pc = "write" THEN cut \cup {Path} ELSE cut
    /\ run' = Quiet
    /\ UNCHANGED <<files, runs>>

Next ==
    \/ \E opts \in Requests : Start(opts)
    \/ BeginGenerator \/ BeginDecoder \/ SkipTensor \/ GeneratorTensor \/ AddFactors
    \/ SsDecoderTensor \/ GsDecoderTensor \/ MeshDecoderTensor \/ MogeTensor
    \/ CheckResiduals \/ OpenOutput \/ WriteOutput \/ Stop

Spec == Init /\ [][Next]_vars

-----------------------------------------------------------------------------
StoredType == [bytes : Nat, dims : Seq(Nat), type : Dtypes,
               value : {"source", "override", "calibrated", "computed", "trained"}]

TypeOK ==
    /\ run.pc \in {"idle", "begin", "tensor", "factors", "finish", "write"}
    /\ run.pc # "idle" => /\ run.opts \in Requests /\ run.left # <<>>
                          /\ run.k \in 0..Len(Checkpoint[Model]) + 1
    /\ \A t \in run.out : [bytes |-> t.bytes, dims |-> t.dims, type |-> t.type, value |-> t.value]
                          \in StoredType
    /\ runs \in 0..MaxRuns /\ cut \subseteq Paths

Whole(p) == files[p] # None /\ files[p].whole
In(p, name) == The(files[p].out, <<name, "">>)

\* The tensors of a file's checkpoint that belong into it.
Belongs(p) == {Checkpoint[p[1]][i] : i \in
                 {j \in 1..Len(Checkpoint[p[1]]) : p[1] \in Generators => Rewrites(Checkpoint[p[1]][j])}}

\* A residual that was asked for is in the file with both of its factors, which
\* fit its weight, and one that was computed stands beside the Q4_0 encoding it
\* corrects: the runtime adds it to nothing else.
ResidualsExported ==
    \A p \in Paths : Whole(p) /\ p[1] \in Generators =>
        \A want \in files[p].opts.ranks \cup files[p].opts.factors :
            LET factors == {f \in files[p].out : f.value \in {"computed", "trained"}
                                                 /\ f.name[1] = want.name}
                weight  == In(p, want.name)
            IN /\ Cardinality(factors) = 2 /\ want.name \in files[p].done
               /\ \A f \in factors : /\ f.bytes < 64 /\ f.type = "f16"
                                     /\ f.dims[1] = weight.dims[1] \/ f.dims[2] = weight.dims[2]
               /\ want.name \in Names(files[p].opts.ranks) => weight.type = "q4_0"

\* What ggml can compute with and address: vectors in F32, packed rows that
\* fill their blocks, and as many bytes as the shape in the header says.
StoredForGgml ==
    \A p \in Paths : Whole(p) => \A t \in files[p].out :
        /\ Len(t.dims) <= 1 => t.type = "f32"
        /\ t.type \in Packed =>
              /\ Fills(t.dims, t.type)
              /\ PackedBytes(t.dims, t.type) = Product(ByteShape(t.dims, t.type))

\* The policies of generators together: what one of them keeps out of
\* quantization no other one lets in.
PolicyKept ==
    \A p \in Paths : Whole(p) /\ p[1] \in Generators => \A t \in Belongs(p) :
        In(p, t.name).type \in Packed =>
            /\ t.name \notin files[p].opts.keep
            /\ files[p].opts.matrixOnly \/ files[p].opts.dtype = "q4_k" => t.weight

=============================================================================
