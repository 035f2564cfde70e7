------------------------- MODULE ObjectsExportProofs -------------------------
(***************************************************************************)
(* ObjectsExport for any checkpoints, command lines and number of runs:    *)
(* a complete file holds what was asked for, under every policy, in a form *)
(* that ggml can address.                                                  *)
(*                                                                         *)
(* A writer that has every tensor up to one of them in its right form is   *)
(* Filled; the loop of a converter keeps this, and a file that is whole    *)
(* was written from a writer that had them all.                            *)
(***************************************************************************)
EXTENDS ObjectsExport, FiniteSetTheorems, WellFoundedInduction, TLAPS

Values == {"source", "override", "calibrated", "computed", "trained"}
Suffixes == {"", ".lora_a", ".lora_b", ".ra", ".rb"}
Entries == [name : STRING \X Suffixes, bytes : Nat, dims : Seq(Nat), type : Dtypes, value : Values]
Process == [pc : {"idle", "begin", "tensor", "factors", "finish", "write"},
            opts : Requests \cup {None}, left : Seq(Models), k : Nat,
            out : SUBSET Entries, done : SUBSET STRING]
Files == [whole : BOOLEAN, out : SUBSET Entries, opts : Requests, done : SUBSET STRING]

Typed ==
    /\ run \in Process
    /\ files \in [Paths -> Files \cup {None}]
    /\ runs \in 0..MaxRuns /\ cut \subseteq Paths

\* The first k tensors that a converter does not skip.
Handled(model, k) == {i \in 1..k : model \in Generators => Rewrites(Checkpoint[model][i])}

\* ForceF16 under given options.
Kept(opts, t, dims) ==
    \/ t.name \in opts.keep
    \/ opts.matrixOnly /\ ~(t.weight /\ Len(dims) >= 2)
    \/ opts.dtype = "q4_k" /\ ~(t.weight /\ Len(dims) >= 2 /\ Fills(dims, "q4_k"))

\* A name is stored once, and what is stored suits ggml.
Distinct(out) == \A x, y \in out : x.name = y.name => x = y

Suits(dims, type) ==
    /\ Len(dims) <= 1 => type = "f32"
    /\ type \in Packed =>
          /\ Fills(dims, type)
          /\ PackedBytes(dims, type) = Product(ByteShape(dims, type))

\* A generator's tensor stands under its own name, stored as its policy says.
Stands(opts, t, out) ==
    \E x \in out :
        /\ x.name = <<t.name, "">> /\ x.dims = GeneratorDims(t)
        /\ x.type = Convert(x.dims, IF Kept(opts, t, x.dims) THEN "f16" ELSE opts.dtype)

FactorsOf(out, name) == {f \in out : f.value \in {"computed", "trained"} /\ f.name[1] = name}

\* It has both of its factors beside it.
Corrected(opts, t, out) ==
    /\ \E a, b \in out :
          /\ a # b /\ FactorsOf(out, t.name) = {a, b}
          /\ a.bytes < 64 /\ a.type = "f16" /\ a.dims[2] = GeneratorDims(t)[2]
          /\ b.bytes < 64 /\ b.type = "f16" /\ b.dims[1] = GeneratorDims(t)[1]
    /\ t.name \in Names(opts.ranks) =>
          Convert(GeneratorDims(t), IF Kept(opts, t, GeneratorDims(t)) THEN "f16" ELSE opts.dtype)
              = "q4_0"

\* The writer has the first k tensors of a generator.
Filled(model, opts, out, done, k) ==
    /\ \A i, j \in Handled(model, k) :
          Checkpoint[model][i].name = Checkpoint[model][j].name => i = j
    /\ \A i \in Handled(model, k) : Stands(opts, Checkpoint[model][i], out)
    /\ \A name \in done : \E i \in Handled(model, k) : Checkpoint[model][i].name = name
    /\ \A i \in Handled(model, k) : Checkpoint[model][i].name \in done =>
          Corrected(opts, Checkpoint[model][i], out)
    /\ \A x \in out : x.value \in {"computed", "trained"} => x.name[1] \in done
    /\ \A x \in out : x.name[2] = "" => x.value \notin {"computed", "trained"}

Asked(opts) == Names(opts.ranks \cup opts.factors)

\* The tensors the converter is past: the one whose factors follow is stored.
Past == IF run.pc = "factors" THEN run.k ELSE run.k - 1

Working ==
    run.pc # "idle" =>
        /\ run.opts \in Requests /\ Allowed(Opts)
        /\ RanksLoad(Opts) /\ FactorsLoad(Opts)
        /\ run.left # <<>>
        /\ run.k <= Len(Checkpoint[Model]) + 1

Looping ==
    run.pc \in {"tensor", "factors", "finish", "write"} =>
        /\ run.k >= 1 /\ Distinct(run.out)
        /\ \A x \in run.out : Suits(x.dims, x.type)
        /\ Model \in Generators => Filled(Model, Opts, run.out, run.done, Past)

AtFactors ==
    run.pc = "factors" =>
        /\ Model \in Generators /\ run.k <= Len(Checkpoint[Model]) /\ Rewrites(Tensor)
        /\ Tensor.name \notin run.done
        /\ Tensor.name \in Asked(Opts)

AtEnd ==
    run.pc \in {"finish", "write"} =>
        /\ run.k = Len(Checkpoint[Model]) + 1
        /\ Model \in Generators => Asked(Opts) \subseteq run.done

Complete(p, f) ==
    /\ Distinct(f.out) /\ \A x \in f.out : Suits(x.dims, x.type)
    /\ p[1] \in Generators =>
          /\ Filled(p[1], f.opts, f.out, f.done, Len(Checkpoint[p[1]]))
          /\ Asked(f.opts) \subseteq f.done

Written ==
    /\ run.pc = "write" => files[Path] = [whole |-> FALSE, out |-> run.out, opts |-> Opts,
                                          done |-> run.done]
    /\ \A p \in Paths : Whole(p) => Complete(p, files[p])

Inv == Typed /\ Working /\ Looping /\ AtFactors /\ AtEnd /\ Written

-----------------------------------------------------------------------------
(* Products of dimensions                                                  *)

\* A set of numbers has a least one.
LEMMA LeastNumber ==
    ASSUME NEW T \in SUBSET Nat, T # {}
    PROVE  \E m \in T : \A k \in T : m <= k
<1>1. PICK R : IsWellFoundedOn(R, Nat) /\ \A k, m \in Nat : k < m => <<k, m>> \in R
  <2> DEFINE R == OpToRel(<, Nat)
  <2>1. IsWellFoundedOn(R, Nat)
    BY NatLessThanWellFounded
  <2>2. \A k, m \in Nat : k < m => <<k, m>> \in R
    BY DEF OpToRel
  <2> QED BY <2>1, <2>2
<1>2. \E m \in T : \A k \in T : ~ (<<k, m>> \in R)
  <2>1. IsWellFoundedOn(R, Nat)
    BY <1>1
  <2>2. T \subseteq Nat
    OBVIOUS
  <2> QED BY <2>1, <2>2, WFMin, Zenon
<1>3. PICK m \in T : \A k \in T : ~ (<<k, m>> \in R)
  BY <1>2
<1>4. ASSUME NEW k \in T PROVE m <= k
  <2>1. k \in Nat /\ m \in Nat
    OBVIOUS
  <2>2. k < m => <<k, m>> \in R
    BY <1>1, <2>1
  <2> QED BY <1>3, <2>1, <2>2
<1> QED BY <1>4

\* What holds of 0 and passes to the next number up to n holds up to n: if not,
\* there is a least one of which it does not hold.
LEMMA UpTo ==
    ASSUME NEW n \in Nat, NEW S, 0 \in S,
           \A i \in 1..n : i - 1 \in S => i \in S
    PROVE  0..n \subseteq S
<1> SUFFICES ASSUME (0..n) \ S # {} PROVE FALSE
  OBVIOUS
<1>0. (0..n) \ S \in SUBSET Nat
  OBVIOUS
<1>1. PICK m \in (0..n) \ S : \A k \in (0..n) \ S : m <= k
  BY <1>0, LeastNumber
<1>2. m \in 1..n /\ m - 1 \in 0..n
  BY <1>1
<1>3. m - 1 \in S
  BY <1>1, <1>2
<1> QED BY <1>1, <1>2, <1>3

\* The product of two numbers is one.
LEMMA Times == \A a, b \in Nat : a * b \in Nat
  OBVIOUS

\* f[i] is the product of the first i dimensions.
IsProducts(f, dims, n) ==
    /\ f \in [0..n -> Nat] /\ f[0] = 1
    /\ \A i \in 1..n : f[i] = dims[i] * f[i - 1]

\* There is such a function.
LEMMA ProductsExist ==
    ASSUME NEW dims \in Seq(Nat)
    PROVE  \E f : IsProducts(f, dims, Len(dims))
<1> DEFINE S == {n \in 0..Len(dims) : \E f : IsProducts(f, dims, n)}
<1>1. 0 \in S
  <2>1. IsProducts([i \in 0..0 |-> 1], dims, 0)
    BY DEF IsProducts
  <2> QED BY <2>1
<1>2. ASSUME NEW n \in 1..Len(dims), n - 1 \in S PROVE n \in S
  <2>1. PICK f : IsProducts(f, dims, n - 1)
    BY <1>2
  <2> DEFINE g == [i \in 0..n |-> IF i = n THEN dims[n] * f[n - 1] ELSE f[i]]
  <2>2. dims[n] \in Nat /\ f[n - 1] \in Nat
    BY <2>1 DEF IsProducts
  <2>3. dims[n] * f[n - 1] \in Nat
    BY <2>2, Times
  <2>4. \A i \in 0..n - 1 : g[i] = f[i] /\ f[i] \in Nat
    BY <2>1 DEF IsProducts
  <2>5. g[n] = dims[n] * f[n - 1]
    OBVIOUS
  <2>6. g \in [0..n -> Nat]
    <3>1. \A i \in 0..n : i = n \/ i \in 0..n - 1
      OBVIOUS
    <3> QED BY <2>3, <2>4, <3>1
  <2>7. g[0] = 1
    BY <2>1, <2>4 DEF IsProducts
  <2>8. ASSUME NEW i \in 1..n PROVE g[i] = dims[i] * g[i - 1]
    <3>1. i - 1 \in 0..n - 1
      OBVIOUS
    <3> HIDE DEF g
    <3>2. CASE i = n
      BY <2>4, <2>5, <3>1, <3>2
    <3>3. CASE i # n
      <4>1. i \in 0..n - 1 /\ i \in 1..n - 1
        BY <3>3
      <4> QED BY <2>1, <2>4, <3>1, <4>1 DEF IsProducts
    <3> QED BY <3>2, <3>3
  <2> HIDE DEF g
  <2>9. IsProducts(g, dims, n)
    BY <2>6, <2>7, <2>8 DEF IsProducts
  <2> QED BY <2>9
<1> HIDE DEF S
<1>3. Len(dims) \in S
  <2>1. Len(dims) \in Nat
    OBVIOUS
  <2>2. \A n \in 1..Len(dims) : n - 1 \in S => n \in S
    BY <1>2
  <2>3. 0..Len(dims) \subseteq S
    BY <1>1, <2>1, <2>2, UpTo
  <2> QED BY <2>1, <2>3
<1> QED BY <1>3 DEF S

\* Product is its last value.
LEMMA ProductIsLast ==
    ASSUME NEW dims \in Seq(Nat)
    PROVE  \E f : IsProducts(f, dims, Len(dims)) /\ Product(dims) = f[Len(dims)]
<1> DEFINE n == Len(dims)
           Is(g) == g = [i \in 0..n |-> IF i = 0 THEN 1 ELSE dims[i] * g[i - 1]]
<1>1. PICK f : IsProducts(f, dims, n)
  BY ProductsExist
<1>2. Is(f)
  BY <1>1 DEF IsProducts
<1> DEFINE g == CHOOSE g : Is(g)
<1>3. Is(g)
  BY <1>2, Zenon
<1>4. Product(dims) = g[n]
  BY DEF Product
<1> HIDE DEF g
<1>5. \A i \in 0..n : g[i] = f[i]
  <2> DEFINE S == {i \in 0..n : g[i] = f[i]}
  <2>1. 0 \in S
    BY <1>1, <1>3 DEF IsProducts
  <2>2. ASSUME NEW i \in 1..n, i - 1 \in S PROVE i \in S
    <3>1. i \in 0..n /\ i # 0
      OBVIOUS
    <3>2. g[i] = dims[i] * g[i - 1]
      BY <1>3, <3>1
    <3>3. f[i] = dims[i] * f[i - 1]
      BY <1>1 DEF IsProducts
    <3> QED BY <2>2, <3>1, <3>2, <3>3
  <2> HIDE DEF S
  <2>3. 0..n \subseteq S
    <3>1. n \in Nat
      OBVIOUS
    <3> HIDE DEF n
    <3> QED BY <2>1, <2>2, <3>1, UpTo
  <2> QED BY <2>3 DEF S
<1>6. g[n] = f[n]
  BY <1>5
<1> QED BY <1>1, <1>4, <1>6

\* Two lists of dimensions that differ in the last one at most have the same
\* product of the others.
LEMMA ProductSplits ==
    ASSUME NEW dims \in Seq(Nat), dims # <<>>, NEW last \in Nat
    PROVE  \E m \in Nat : /\ Product(dims) = Row(dims) * m
                          /\ Product([dims EXCEPT ![Len(dims)] = last]) = last * m
<1> DEFINE n == Len(dims)
           other == [dims EXCEPT ![n] = last]
<1>1. n \in Nat /\ n >= 1
  OBVIOUS
<1>2. other \in Seq(Nat) /\ Len(other) = n /\ other[n] = last
  BY <1>1
<1> HIDE DEF n
<1>3. \A i \in 1..n - 1 : other[i] = dims[i]
  BY <1>1 DEF n
<1>4. PICK f : IsProducts(f, dims, n) /\ Product(dims) = f[n]
  BY ProductIsLast DEF n
<1> HIDE DEF other
<1>5. PICK g : IsProducts(g, other, n) /\ Product(other) = g[n]
  BY <1>2, ProductIsLast
<1>6. f[n - 1] = g[n - 1]
  <2> DEFINE S == {i \in 0..n - 1 : g[i] = f[i]}
  <2>1. 0 \in S
    BY <1>1, <1>4, <1>5 DEF IsProducts
  <2>2. \A i \in 1..n - 1 : i - 1 \in S => i \in S
    BY <1>1, <1>3, <1>4, <1>5 DEF IsProducts
  <2>3. n - 1 \in Nat
    BY <1>1
  <2> HIDE DEF S
  <2>4. 0..n - 1 \subseteq S
    BY <2>1, <2>2, <2>3, UpTo
  <2> QED BY <2>3, <2>4 DEF S
<1>7. f[n - 1] \in Nat /\ n \in 1..n
  BY <1>1, <1>4 DEF IsProducts
<1>8. Product(dims) = Row(dims) * f[n - 1] /\ Product(other) = last * f[n - 1]
  BY <1>2, <1>4, <1>5, <1>6, <1>7 DEF IsProducts, Row, n
<1> QED BY <1>7, <1>8 DEF other, n

-----------------------------------------------------------------------------
(* How a tensor is stored                                                  *)

\* A packed type has blocks of 32 or 256 values.
LEMMA Blocks ==
    ASSUME NEW type \in Packed
    PROVE  BlockSize(type) \in {32, 256} /\ BlockBytes[type] \in Nat
  BY DEF Packed, BlockSize, BlockBytes

\* Blocks that fill a row fill all rows together.
LEMMA WholeBlocks ==
    ASSUME NEW row \in Nat, NEW m \in Nat, NEW block \in {32, 256}, row % block = 0
    PROVE  (row * m) \div block = (row \div block) * m
<1> DEFINE q == row \div block
<1>1. q \in Nat /\ row = q * block
  <2>1. CASE block = 32
    BY <2>1
  <2>2. CASE block = 256
    BY <2>2
  <2> QED BY <2>1, <2>2
<1> HIDE DEF q
<1>2. q * m \in Nat
  BY <1>1, Times
<1>3. row * m = (q * m) * block
  <2>1. CASE block = 32
    BY <1>1, <2>1
  <2>2. CASE block = 256
    BY <1>1, <2>2
  <2> QED BY <2>1, <2>2
<1>4. ((q * m) * block) \div block = q * m
  <2> DEFINE s == q * m
  <2>1. s \in Nat
    BY <1>2
  <2> HIDE DEF s
  <2>2. (s * block) \div block = s
    <3>1. CASE block = 32
      BY <2>1, <3>1
    <3>2. CASE block = 256
      BY <2>1, <3>2
    <3> QED BY <3>1, <3>2
  <2> QED BY <2>2 DEF s
<1> QED BY <1>3, <1>4 DEF q

\* Every dimension is a number.
LEMMA EachDim ==
    ASSUME NEW dims \in Seq(Nat), NEW i \in 1..Len(dims)
    PROVE  dims[i] \in Nat
OBVIOUS

\* The two dimensions of a matrix.
LEMMA BothDims ==
    ASSUME NEW dims \in Seq(Nat), Len(dims) = 2
    PROVE  dims[1] \in Nat /\ dims[2] \in Nat
<1>1. 1 \in 1..Len(dims)
  OBVIOUS
<1>2. 2 \in 1..Len(dims)
  OBVIOUS
<1> QED BY <1>1, <1>2, EachDim

\* However it is asked to be stored, a tensor is stored as ggml can use it.
LEMMA ConvertSuits ==
    ASSUME NEW dims \in Seq(Nat), NEW dtype \in Dtypes
    PROVE  Suits(dims, Convert(dims, dtype)) /\ Convert(dims, dtype) \in Dtypes
<1> DEFINE type == Convert(dims, dtype)
<1>1. type \in Dtypes /\ (Len(dims) <= 1 => type = "f32")
  BY DEF Convert, Dtypes
<1>2. ASSUME type \in Packed PROVE Fills(dims, type) /\ dims # <<>>
  BY <1>2 DEF Convert, Packed
<1> HIDE DEF type
<1>3. ASSUME type \in Packed PROVE PackedBytes(dims, type) = Product(ByteShape(dims, type))
  <2> DEFINE block == BlockSize(type)
             bytes == BlockBytes[type]
             last  == (Row(dims) \div block) * bytes
  <2>1. block \in {32, 256} /\ bytes \in Nat
    BY <1>3, Blocks
  <2>2. Row(dims) \in Nat /\ Row(dims) % block = 0
    BY <1>2, <1>3 DEF Row, Fills
  <2> HIDE DEF block, bytes
  <2>3. Row(dims) \div block \in Nat
    BY <2>1, <2>2
  <2>4. last \in Nat
    BY <2>1, <2>3, Times
  <2> HIDE DEF last
  <2>5. PICK m \in Nat : /\ Product(dims) = Row(dims) * m
                         /\ Product([dims EXCEPT ![Len(dims)] = last]) = last * m
    <3>1. dims \in Seq(Nat) /\ dims # <<>>
      BY <1>2, <1>3
    <3> QED BY ONLY <2>4, <3>1, ProductSplits
  <2>6. Product(dims) \div block = (Row(dims) \div block) * m
    <3>1. (Row(dims) * m) \div block = (Row(dims) \div block) * m
      BY <2>1, <2>2, <2>5, WholeBlocks
    <3> QED BY <2>5, <3>1
  <2>7. ((Row(dims) \div block) * m) * bytes = last * m
    <3> DEFINE q == Row(dims) \div block
    <3>1. q \in Nat
      BY <2>3
    <3> HIDE DEF q
    <3>2. (q * m) * bytes = (q * bytes) * m
      BY <2>1, <3>1
    <3> QED BY <3>2 DEF q, last
  <2>8. ByteShape(dims, type) = [dims EXCEPT ![Len(dims)] = last]
    BY <1>2, <1>3 DEF ByteShape, Row, block, bytes, last
  <2>9. PackedBytes(dims, type) = (Product(dims) \div block) * bytes
    BY DEF PackedBytes, block, bytes
  <2> QED BY <2>5, <2>6, <2>7, <2>8, <2>9
<1> QED BY <1>1, <1>2, <1>3 DEF Suits, type

-----------------------------------------------------------------------------
(* One tensor more                                                         *)

\* The dimensions under which a tensor is stored are dimensions.
LEMMA DimsTypes ==
    ASSUME NEW t \in TensorType
    PROVE  /\ (t.role = "sparse_conv" => Len(t.dims) >= 5) => GeneratorDims(t) \in Seq(Nat)
           /\ SsDecoderDims(t) \in Seq(Nat)
           /\ MeshDecoderDims(t) \in Seq(Nat)
<1>1. t.dims \in Seq(Nat)
  BY DEF TensorType
<1>2. \A i \in 1..Len(t.dims) : t.dims[i] \in Nat
  BY <1>1
<1>3. ASSUME t.role = "sparse_conv" => Len(t.dims) >= 5 PROVE GeneratorDims(t) \in Seq(Nat)
  <2>1. ASSUME Len(t.dims) = 4 PROVE <<t.dims[3] * t.dims[4], t.dims[2]>> \in Seq(Nat)
    <3>1. t.dims[2] \in Nat /\ t.dims[3] * t.dims[4] \in Nat
      BY <1>2, <2>1, Times
    <3> QED BY <3>1
  <2>2. ASSUME Len(t.dims) >= 5 PROVE SparseRows(t.dims) \in Seq(Nat)
    <3>1. Len(t.dims) \in Nat
      BY <1>1
    <3>2. t.dims[1] \in Nat /\ t.dims[2] \in Nat /\ t.dims[5] \in Nat
      BY <1>2, <2>2, <3>1
    <3>3. t.dims[2] * t.dims[2] * t.dims[2] * t.dims[5] \in Nat
      BY <3>2, Times
    <3> QED BY <3>2, <3>3 DEF SparseRows
  <2> QED BY <1>1, <1>3, <2>1, <2>2 DEF GeneratorDims
<1>4. SsDecoderDims(t) \in Seq(Nat)
  <2>1. ASSUME Len(t.dims) = 5 PROVE <<t.dims[1], t.dims[2] * 27>> \in Seq(Nat)
    BY <1>2, <2>1
  <2> QED BY <1>1, <2>1 DEF SsDecoderDims
<1>5. MeshDecoderDims(t) \in Seq(Nat)
  <2>1. ASSUME Len(t.dims) = 5
        PROVE  /\ <<1, t.dims[1] * t.dims[5]>> \in Seq(Nat)
               /\ <<t.dims[2] * t.dims[2] * t.dims[2], t.dims[1] * t.dims[5]>> \in Seq(Nat)
    <3>1. t.dims[1] \in Nat /\ t.dims[2] \in Nat /\ t.dims[5] \in Nat
      BY <1>2, <2>1
    <3>2. t.dims[1] * t.dims[5] \in Nat /\ t.dims[2] * t.dims[2] * t.dims[2] \in Nat
      BY <3>1, Times
    <3> QED BY <3>2
  <2> QED BY <1>1, <2>1 DEF MeshDecoderDims
<1> QED BY <1>3, <1>4, <1>5

\* A name that is new keeps the names distinct.
LEMMA StillDistinct ==
    ASSUME NEW out, NEW x, Distinct(out), x.name \notin Names(out)
    PROVE  Distinct(out \cup {x})
  BY DEF Distinct, Names

\* The next tensor is handled after those before it.
LEMMA HandledGrows ==
    ASSUME NEW model, NEW k \in Nat \ {0}
    PROVE  /\ Handled(model, k - 1) \subseteq Handled(model, k) \ {k}
           /\ Handled(model, k) \subseteq Handled(model, k - 1) \cup {k}
           /\ k \in Handled(model, k) <=>
                  (model \in Generators => Rewrites(Checkpoint[model][k]))
  BY DEF Handled

\* A tensor that is skipped leaves nothing to be desired.
LEMMA FilledBySkip ==
    ASSUME NEW model \in Generators, NEW opts, NEW out, NEW done, NEW k \in Nat \ {0},
           ~Rewrites(Checkpoint[model][k]), Filled(model, opts, out, done, k - 1)
    PROVE  Filled(model, opts, out, done, k)
<1>1. Handled(model, k) = Handled(model, k - 1)
  <2>1. k \notin Handled(model, k)
    BY HandledGrows
  <2>2. Handled(model, k) \subseteq Handled(model, k - 1) \cup {k}
    BY HandledGrows
  <2>3. Handled(model, k - 1) \subseteq Handled(model, k)
    BY HandledGrows
  <2> QED BY <2>1, <2>2, <2>3, Zenon
<1> QED BY <1>1 DEF Filled

\* A tensor is added under its own name, which must be new.
LEMMA FilledByWeight ==
    ASSUME NEW model \in Generators, NEW opts, NEW out, NEW done, NEW k \in Nat \ {0}, NEW x,
           Filled(model, opts, out, done, k - 1),
           x.name = <<Checkpoint[model][k].name, "">>, x.name \notin Names(out),
           x.dims = GeneratorDims(Checkpoint[model][k]),
           x.type = Convert(x.dims, IF Kept(opts, Checkpoint[model][k], x.dims) THEN "f16"
                                    ELSE opts.dtype),
           x.value \notin {"computed", "trained"}
    PROVE  /\ Filled(model, opts, out \cup {x}, done, k)
           /\ Checkpoint[model][k].name \notin done
<1> DEFINE t == Checkpoint[model][k]
<1>1. \A i \in Handled(model, k) : i = k \/ i \in Handled(model, k - 1)
  BY HandledGrows, Zenon
<1>2. \A i \in Handled(model, k - 1) : i \in Handled(model, k) /\ i # k
  BY HandledGrows, Zenon
<1>3. ASSUME NEW i \in Handled(model, k - 1) PROVE Checkpoint[model][i].name # t.name
  <2>1. PICK y \in out : y.name = <<Checkpoint[model][i].name, "">>
    BY DEF Filled, Stands
  <2>2. y.name # x.name
    BY DEF Names
  <2> QED BY <2>1, <2>2
<1>4. t.name \notin done
  BY <1>3 DEF Filled
<1>5. \A name : FactorsOf(out \cup {x}, name) = FactorsOf(out, name)
  BY DEF FactorsOf
<1>6. Stands(opts, t, out \cup {x})
  BY DEF Stands
<1>7. ASSUME NEW i \in Handled(model, k - 1) PROVE Stands(opts, Checkpoint[model][i], out \cup {x})
  BY DEF Filled, Stands
<1>8. ASSUME NEW i \in Handled(model, k - 1), Checkpoint[model][i].name \in done
      PROVE  Corrected(opts, Checkpoint[model][i], out \cup {x})
  <2>1. Corrected(opts, Checkpoint[model][i], out)
    BY <1>8 DEF Filled
  <2> QED BY <1>5, <2>1 DEF Corrected
<1>9. \A i, j \in Handled(model, k) :
         Checkpoint[model][i].name = Checkpoint[model][j].name => i = j
  BY <1>1, <1>3 DEF Filled
<1>10. \A y \in out \cup {x} : /\ y.value \in {"computed", "trained"} => y.name[1] \in done
                               /\ y.name[2] = "" => y.value \notin {"computed", "trained"}
  BY DEF Filled
<1>11. \A name \in done : \E i \in Handled(model, k) : Checkpoint[model][i].name = name
  BY <1>2 DEF Filled
<1> QED BY <1>1, <1>4, <1>6, <1>7, <1>8, <1>9, <1>10, <1>11 DEF Filled

\* Its factors are added, once.
LEMMA FilledByFactors ==
    ASSUME NEW model \in Generators, NEW opts, NEW out, NEW done, NEW k \in Nat \ {0},
           NEW a, NEW b, NEW t, t = Checkpoint[model][k], Rewrites(t),
           Filled(model, opts, out, done, k), t.name \notin done,
           a.name[1] = t.name, a.name[2] # "", a.value \in {"computed", "trained"},
           b.name[1] = t.name, b.name[2] # "", b.value \in {"computed", "trained"},
           a # b, a.bytes < 64, a.type = "f16", a.dims[2] = GeneratorDims(t)[2],
           b.bytes < 64, b.type = "f16", b.dims[1] = GeneratorDims(t)[1],
           t.name \in Names(opts.ranks) =>
               Convert(GeneratorDims(t), IF Kept(opts, t, GeneratorDims(t)) THEN "f16"
                                         ELSE opts.dtype) = "q4_0"
    PROVE  Filled(model, opts, out \cup {a, b}, done \cup {t.name}, k)
<1>1. k \in Handled(model, k)
  BY HandledGrows, Zenon
<1>2. \A name : name # t.name => FactorsOf(out \cup {a, b}, name) = FactorsOf(out, name)
  BY DEF FactorsOf
<1>3. FactorsOf(out \cup {a, b}, t.name) = {a, b}
  BY DEF FactorsOf, Filled
<1>4. Corrected(opts, t, out \cup {a, b})
  BY <1>3 DEF Corrected
<1>5. ASSUME NEW i \in Handled(model, k), Checkpoint[model][i].name \in done \cup {t.name}
      PROVE  Corrected(opts, Checkpoint[model][i], out \cup {a, b})
  <2>1. CASE Checkpoint[model][i].name = t.name
    <3>1. i = k
      BY <1>1, <2>1 DEF Filled
    <3> QED BY <1>4, <3>1
  <2>2. CASE Checkpoint[model][i].name # t.name
    <3>1. Corrected(opts, Checkpoint[model][i], out)
      BY <1>5, <2>2 DEF Filled
    <3>2. FactorsOf(out \cup {a, b}, Checkpoint[model][i].name) =
              FactorsOf(out, Checkpoint[model][i].name)
      BY <1>2, <2>2
    <3> DEFINE name == Checkpoint[model][i].name
    <3>3. PICK c, d \in out :
              /\ c # d /\ FactorsOf(out, name) = {c, d}
              /\ c.bytes < 64 /\ c.type = "f16"
              /\ c.dims[2] = GeneratorDims(Checkpoint[model][i])[2]
              /\ d.bytes < 64 /\ d.type = "f16"
              /\ d.dims[1] = GeneratorDims(Checkpoint[model][i])[1]
      BY <3>1 DEF Corrected
    <3>4. FactorsOf(out \cup {a, b}, name) = {c, d}
      BY <3>2, <3>3
    <3>5. c \in out \cup {a, b} /\ d \in out \cup {a, b}
      BY <3>3
    <3> QED BY <3>1, <3>3, <3>4, <3>5 DEF Corrected
  <2> QED BY <2>1, <2>2
<1>6. \A i \in Handled(model, k) : Stands(opts, Checkpoint[model][i], out \cup {a, b})
  BY DEF Filled, Stands
<1>7. \A name \in done \cup {t.name} :
         \E i \in Handled(model, k) : Checkpoint[model][i].name = name
  BY <1>1 DEF Filled
<1>8. \A y \in out \cup {a, b} :
         /\ y.value \in {"computed", "trained"} => y.name[1] \in done \cup {t.name}
         /\ y.name[2] = "" => y.value \notin {"computed", "trained"}
  BY DEF Filled
<1> QED BY <1>5, <1>6, <1>7, <1>8 DEF Filled

-----------------------------------------------------------------------------
(* The invariant                                                           *)

\* What a process has in its hands while it works on a model.
LEMMA AtWork ==
    ASSUME Inv, run.pc # "idle"
    PROVE  /\ Model \in Models /\ Opts \in Requests /\ Opts \in OptionsType
           /\ Path \in Paths
           /\ Checkpoint[Model] \in Seq(TensorType) /\ Len(Checkpoint[Model]) \in Nat
           /\ run.left \in Seq(Models) /\ run.left # <<>>
           /\ run.k \in Nat /\ run.k <= Len(Checkpoint[Model]) + 1
<1>1. run.left \in Seq(Models) /\ run.left # <<>> /\ Opts \in Requests
  BY DEF Inv, Typed, Process, Working, Opts
<1>2. Model \in Models
  BY <1>1 DEF Model
<1>3. Opts \in OptionsType
  BY <1>1, ExportAssumption DEF ExportAssumption
<1>4. Checkpoint[Model] \in Seq(TensorType)
  BY <1>2, ExportAssumption DEF ExportAssumption
<1>5. Path \in Paths
  BY <1>2, <1>3 DEF Path, Paths, OptionsType
<1>6. run.k \in Nat /\ run.k <= Len(Checkpoint[Model]) + 1
  BY DEF Inv, Typed, Process, Working
<1> QED BY <1>1, <1>2, <1>3, <1>4, <1>5, <1>6

\* The tensor whose turn it is.
LEMMA AtTurn ==
    ASSUME Inv, run.pc \in {"tensor", "factors"}, run.k <= Len(Checkpoint[Model])
    PROVE  /\ Tensor = Checkpoint[Model][run.k] /\ Tensor \in TensorType
           /\ Tensor.name \in STRING /\ Tensor.bytes \in Nat
           /\ run \in Process /\ run.out \in SUBSET Entries /\ run.done \in SUBSET STRING
           /\ run.k \in Nat \ {0} /\ run.k <= Len(Checkpoint[Model]) + 1
           /\ run.k + 1 \in Nat \ {0} /\ run.k + 1 <= Len(Checkpoint[Model]) + 1
           /\ (run.k + 1) - 1 = run.k
<1>1. run \in Process /\ run.k >= 1
  BY DEF Inv, Typed, Looping
<1>2. run.k \in Nat /\ Len(Checkpoint[Model]) \in Nat /\ Checkpoint[Model] \in Seq(TensorType)
  BY AtWork
<1>3. run.k \in 1..Len(Checkpoint[Model])
  BY <1>1, <1>2
<1>4. Tensor = Checkpoint[Model][run.k]
  BY DEF Tensor
<1>5. Checkpoint[Model][run.k] \in TensorType
  BY <1>2, <1>3
<1>6. Tensor.name \in STRING /\ Tensor.bytes \in Nat
  BY <1>4, <1>5 DEF TensorType
<1>7. run.out \in SUBSET Entries /\ run.done \in SUBSET STRING
  BY <1>1 DEF Process
<1> QED BY <1>1, <1>2, <1>3, <1>4, <1>5, <1>6, <1>7

\* A step of a converter's loop that leaves the writer as it should be.
LEMMA Turns ==
    ASSUME Inv, run.pc # "idle", files' = files, runs' = runs, cut' = cut,
           NEW pc \in {"tensor", "factors", "finish"}, NEW k \in Nat \ {0},
           NEW out \in SUBSET Entries, NEW done \in SUBSET STRING,
           run' = [run EXCEPT !.pc = pc, !.k = k, !.out = out, !.done = done],
           k <= Len(Checkpoint[Model]) + 1,
           Distinct(out), \A x \in out : Suits(x.dims, x.type),
           Model \in Generators =>
               Filled(Model, Opts, out, done, IF pc = "factors" THEN k ELSE k - 1),
           pc = "factors" =>
               /\ Model \in Generators /\ k <= Len(Checkpoint[Model])
               /\ Rewrites(Checkpoint[Model][k])
               /\ Checkpoint[Model][k].name \in Asked(Opts) \ done,
           pc = "finish" => /\ k = Len(Checkpoint[Model]) + 1
                            /\ Model \in Generators => Asked(Opts) \subseteq done
    PROVE  Inv'
<1> USE DEF Inv
<1>1. run \in Process
  BY DEF Typed
<1>2. /\ run'.pc = pc /\ run'.k = k /\ run'.out = out /\ run'.done = done
      /\ run'.opts = run.opts /\ run'.left = run.left /\ run' \in Process
  BY <1>1 DEF Process
<1>3. Model' = Model /\ Opts' = Opts /\ Past' = IF pc = "factors" THEN k ELSE k - 1
  BY <1>2 DEF Model, Opts, Past
<1>4. Tensor' = Checkpoint[Model][k]
  BY <1>2, <1>3 DEF Tensor
<1>5. Typed'
  BY <1>2 DEF Typed
<1>6. Working'
  BY <1>2, <1>3 DEF Working, Opts
<1>7. Looping'
  BY <1>2, <1>3 DEF Looping
<1>8. AtFactors'
  BY <1>2, <1>3, <1>4 DEF AtFactors
<1>9. AtEnd'
  BY <1>2, <1>3 DEF AtEnd
<1>10. Written'
  <2>1. \A p \in Paths : Whole(p)' => Complete(p, files'[p])
    BY DEF Written, Whole
  <2> QED BY <1>2, <2>1 DEF Written
<1> QED BY <1>5, <1>6, <1>7, <1>8, <1>9, <1>10

\* The process begins with a model, or is over.
LEMMA Begins ==
    ASSUME Inv, runs' \in 0..MaxRuns, cut' \subseteq Paths,
           files' \in [Paths -> Files \cup {None}],
           \A p \in Paths : Whole(p)' => Complete(p, files'[p]),
           run' \in Process, run'.pc \in {"idle", "begin"},
           run'.pc = "begin" =>
               /\ run'.opts \in Requests /\ Allowed(run'.opts)
               /\ RanksLoad(run'.opts) /\ FactorsLoad(run'.opts)
               /\ run'.left # <<>> /\ run'.k = 0
    PROVE  Inv'
<1>1. Typed'
  BY DEF Typed
<1>2. Working'
  <2>1. CASE run'.pc = "idle"
    BY <2>1 DEF Working
  <2>2. CASE run'.pc = "begin"
    <3>1. Model' \in Models
      BY <2>2 DEF Model, Process
    <3>2. Len(Checkpoint[Model']) \in Nat
      BY <3>1, ExportAssumption DEF ExportAssumption
    <3> QED BY <2>2, <3>2 DEF Working, Opts
  <2> QED BY <2>1, <2>2
<1>3. Looping' /\ AtFactors' /\ AtEnd'
  BY DEF Looping, AtFactors, AtEnd
<1>4. Written'
  BY DEF Written
<1> QED BY <1>1, <1>2, <1>3, <1>4 DEF Inv

\* A process that begins has nothing yet.
LEMMA InvInit == Init => Inv
<1> SUFFICES ASSUME Init PROVE Inv
  OBVIOUS
<1>1. run \in Process /\ run.pc = "idle"
  BY DEF Init, Quiet, Process
<1>2. \A p \in Paths : ~Whole(p)
  BY DEF Init, Whole
<1>3. Typed
  BY <1>1, ExportAssumption DEF Init, Typed, ExportAssumption
<1>4. Working /\ Looping /\ AtFactors /\ AtEnd
  BY <1>1 DEF Working, Looping, AtFactors, AtEnd
<1>5. Written
  BY <1>1, <1>2 DEF Written
<1> QED BY <1>3, <1>4, <1>5 DEF Inv

\* A list of more than one has a rest.
LEMMA Rest ==
    ASSUME NEW S, NEW s \in Seq(S), s # <<>>, Len(s) # 1
    PROVE  Tail(s) \in Seq(S) /\ Tail(s) # <<>>
<1>1. Len(s) \in Nat /\ Len(s) # 0
  OBVIOUS
<1>2. Tail(s) \in Seq(S) /\ Len(Tail(s)) = Len(s) - 1
  BY <1>1
<1>3. Len(s) - 1 # 0
  BY <1>1
<1>4. Len(Tail(s)) # 0
  BY <1>2, <1>3
<1> QED BY <1>2, <1>4

\* A generator's tensor is stored as its policies say.
LEMMA WeightStep == Inv /\ GeneratorTensor => Inv'
<1> SUFFICES ASSUME Inv, GeneratorTensor PROVE Inv'
  OBVIOUS
<1> DEFINE t     == Tensor
           dims  == GeneratorDims(t)
           dtype == IF Kept(Opts, t, dims) THEN "f16" ELSE Opts.dtype
           calibrated == t.name \in Names(Opts.calibrated)
           value == IF calibrated /\ Convert(dims, dtype) = "q4_0" THEN "calibrated"
                    ELSE IF t.name \in Names(Opts.overrides) THEN "override" ELSE "source"
           x     == Stored(<<t.name, "">>, t.bytes, dims, Convert(dims, dtype), value)
           asked == t.name \in Asked(Opts)
           pc    == IF asked THEN "factors" ELSE "tensor"
           k     == IF asked THEN run.k ELSE run.k + 1
<1>1. /\ run.pc = "tensor" /\ run.k <= Len(Checkpoint[Model]) /\ Model \in Generators
      /\ Rewrites(t) /\ (t.role = "sparse_conv" => Len(t.dims) >= 5)
      /\ <<t.name, "">> \notin Names(run.out)
      /\ run' = [run EXCEPT !.out = run.out \cup {x}, !.pc = pc, !.k = k]
      /\ files' = files /\ runs' = runs /\ cut' = cut
  BY DEF GeneratorTensor, AtTensor, Fresh, ForceF16, Kept, Asked
<1>2. run \in Process /\ run.k \in Nat \ {0} /\ Opts \in OptionsType
  BY <1>1, AtTurn, AtWork
<1>3. t \in TensorType /\ t = Checkpoint[Model][run.k]
  BY <1>1, AtTurn
<1>4. dims \in Seq(Nat)
  BY <1>1, <1>3, DimsTypes
<1>5. dtype \in Dtypes
  BY <1>2 DEF OptionsType, Dtypes
<1> HIDE DEF dtype
<1>6. Suits(dims, Convert(dims, dtype)) /\ Convert(dims, dtype) \in Dtypes
  BY <1>4, <1>5, ConvertSuits
<1>7. value \in {"calibrated", "override", "source"}
  OBVIOUS
<1> HIDE DEF value, dims
<1>8. /\ x.name = <<t.name, "">> /\ x.dims = dims /\ x.type = Convert(dims, dtype)
      /\ x.value = value
  BY DEF Stored
<1>9. x \in Entries
  <2>1. t.name \in STRING /\ t.bytes \in Nat
    BY <1>1, AtTurn
  <2>2. value \in Values /\ "" \in Suffixes
    BY <1>7 DEF Values, Suffixes
  <2>3. x = Stored(<<t.name, "">>, t.bytes, dims, Convert(dims, dtype), value)
    OBVIOUS
  <2> HIDE DEF x, t
  <2> QED BY <1>4, <1>6, <2>1, <2>2, <2>3 DEF Stored, Entries
<1> HIDE DEF x, t
<1>10. Filled(Model, Opts, run.out, run.done, run.k - 1)
  BY <1>1 DEF Inv, Looping, Past
<1>11. x.type = Convert(x.dims, IF Kept(Opts, t, x.dims) THEN "f16" ELSE Opts.dtype)
  BY <1>8 DEF dtype
<1>12. x.value \notin {"computed", "trained"} /\ x.name \notin Names(run.out)
  BY <1>1, <1>7, <1>8
<1>13. Filled(Model, Opts, run.out \cup {x}, run.done, run.k) /\ t.name \notin run.done
  <2>1. /\ x.name = <<Checkpoint[Model][run.k].name, "">>
        /\ x.dims = GeneratorDims(Checkpoint[Model][run.k])
    BY <1>3, <1>8 DEF dims
  <2>2. x.type = Convert(x.dims, IF Kept(Opts, Checkpoint[Model][run.k], x.dims) THEN "f16"
                                 ELSE Opts.dtype)
    BY <1>3, <1>11
  <2> QED BY <1>1, <1>2, <1>3, <1>10, <1>12, <2>1, <2>2, FilledByWeight
<1>14. Distinct(run.out \cup {x})
  BY <1>1, <1>12, StillDistinct DEF Inv, Looping
<1>15. \A y \in run.out \cup {x} : Suits(y.dims, y.type)
  BY <1>1, <1>6, <1>8 DEF Inv, Looping
<1>16. run.out \cup {x} \in SUBSET Entries /\ run.done \in SUBSET STRING
  BY <1>2, <1>9 DEF Process
<1>17. run' = [run EXCEPT !.pc = pc, !.k = k, !.out = run.out \cup {x}, !.done = run.done]
  BY <1>1, <1>2 DEF Process
<1>18. CASE asked
  <2>1. pc = "factors" /\ k = run.k
    BY <1>18
  <2>2. run.k <= Len(Checkpoint[Model]) + 1
    BY <1>1, AtWork
  <2>3. /\ Rewrites(Checkpoint[Model][run.k])
        /\ Checkpoint[Model][run.k].name \in Asked(Opts) \ run.done
    BY <1>1, <1>3, <1>13, <1>18
  <2> HIDE DEF pc, k
  <2> QED BY <1>1, <1>2, <1>13, <1>14, <1>15, <1>16, <1>17, <2>1, <2>2, <2>3, Turns
<1>19. CASE ~asked
  <2>1. pc = "tensor" /\ k = run.k + 1
    BY <1>19
  <2> HIDE DEF pc, k
  <2>2. k \in Nat \ {0} /\ k <= Len(Checkpoint[Model]) + 1 /\ k - 1 = run.k
    BY <1>1, <2>1, AtTurn
  <2>3. Filled(Model, Opts, run.out \cup {x}, run.done, IF pc = "factors" THEN k ELSE k - 1)
    BY <1>13, <2>1, <2>2
  <2> QED BY <1>1, <1>14, <1>15, <1>16, <1>17, <2>1, <2>2, <2>3, Turns
<1> QED BY <1>18, <1>19

\* A decoder's tensor.
LEMMA DecoderStep ==
    ASSUME Inv, AtTensor, Model \notin Generators, NEW dims \in Seq(Nat), DecoderTensor(dims)
    PROVE  Inv'
<1> DEFINE t == Tensor
           x == Stored(<<t.name, "">>, t.bytes, dims, Convert(dims, Opts.dtype), "source")
<1>1. /\ run.pc = "tensor" /\ run.k <= Len(Checkpoint[Model])
      /\ <<t.name, "">> \notin Names(run.out)
      /\ run' = [run EXCEPT !.k = run.k + 1, !.out = run.out \cup {x}]
      /\ files' = files /\ runs' = runs /\ cut' = cut
  BY DEF DecoderTensor, AtTensor, Fresh
<1>2. run \in Process /\ Opts \in OptionsType
  BY <1>1, AtTurn, AtWork
<1>3. t \in TensorType
  BY <1>1, AtTurn
<1>4. Opts.dtype \in Dtypes
  BY <1>2 DEF OptionsType
<1>5. Suits(dims, Convert(dims, Opts.dtype)) /\ Convert(dims, Opts.dtype) \in Dtypes
  BY <1>4, ConvertSuits
<1>6. x.name = <<t.name, "">> /\ x.dims = dims /\ x.type = Convert(dims, Opts.dtype)
  BY DEF Stored
<1>7. x \in Entries
  <2>1. t.name \in STRING /\ t.bytes \in Nat
    BY <1>1, AtTurn
  <2>2. "source" \in Values /\ "" \in Suffixes
    BY DEF Values, Suffixes
  <2> HIDE DEF t
  <2>3. x = Stored(<<t.name, "">>, t.bytes, dims, Convert(dims, Opts.dtype), "source")
    OBVIOUS
  <2> HIDE DEF x
  <2> QED BY <1>5, <2>1, <2>2, <2>3 DEF Stored, Entries
<1> HIDE DEF x, t
<1>8. Distinct(run.out \cup {x})
  BY <1>1, <1>6, StillDistinct DEF Inv, Looping
<1>9. \A y \in run.out \cup {x} : Suits(y.dims, y.type)
  BY <1>1, <1>5, <1>6 DEF Inv, Looping
<1>10. run.out \cup {x} \in SUBSET Entries /\ run.done \in SUBSET STRING
  BY <1>2, <1>7 DEF Process
<1>11. run' = [run EXCEPT !.pc = "tensor", !.k = run.k + 1, !.out = run.out \cup {x},
                          !.done = run.done]
  BY <1>1, <1>2 DEF Process
<1>12. run.k + 1 \in Nat \ {0} /\ run.k + 1 <= Len(Checkpoint[Model]) + 1
  BY <1>1, AtTurn
<1> QED BY <1>1, <1>8, <1>9, <1>10, <1>11, <1>12, Turns

\* The factors of a generator's tensor are stored beside it.
LEMMA FactorsStep == Inv /\ AddFactors => Inv'
<1> SUFFICES ASSUME Inv, AddFactors PROVE Inv'
  OBVIOUS
<1> DEFINE t      == Tensor
           dims   == GeneratorDims(t)
           static == t.name \in Names(Opts.ranks)
           rank   == The(Opts.ranks, t.name).rank
           given  == The(Opts.factors, t.name)
           da     == IF static THEN <<rank, dims[2]>> ELSE given.a
           db     == IF static THEN <<dims[1], rank>> ELSE given.b
           suffix == SuffixesFor(t)
           value  == IF static THEN "computed" ELSE "trained"
           bytes  == t.bytes + suffix[3]
           a      == Stored(<<t.name, suffix[1]>>, bytes, da, Convert(da, "f16"), value)
           b      == Stored(<<t.name, suffix[2]>>, bytes, db, Convert(db, "f16"), value)
<1>1. /\ run.pc = "factors" /\ ~ForceF16(t, dims)
      /\ IF static THEN CanFactor(dims, rank) ELSE FactorsFit(dims, da, db)
      /\ t.bytes + suffix[3] < 64
      /\ <<t.name, suffix[1]>> \notin Names(run.out) /\ <<t.name, suffix[2]>> \notin Names(run.out)
      /\ run' = [run EXCEPT !.pc = "tensor", !.k = run.k + 1, !.out = run.out \cup {a, b},
                            !.done = run.done \cup {t.name}]
      /\ files' = files /\ runs' = runs /\ cut' = cut
  BY DEF AddFactors, FactorNamesFit, Fresh
<1>2. /\ Model \in Generators /\ run.k <= Len(Checkpoint[Model]) /\ Rewrites(t)
      /\ t.name \notin run.done /\ t.name \in Asked(Opts)
  BY <1>1 DEF Inv, AtFactors
<1>3. Opts \in OptionsType /\ Allowed(Opts) /\ RanksLoad(Opts) /\ FactorsLoad(Opts)
  BY <1>1, AtWork DEF Inv, Working, Opts
<1>4. /\ t = Checkpoint[Model][run.k] /\ t \in TensorType /\ t.name \in STRING /\ t.bytes \in Nat
      /\ run.k \in Nat \ {0}
  BY <1>1, <1>2, AtTurn
<1>5. Filled(Model, Opts, run.out, run.done, run.k)
  BY <1>1, <1>2 DEF Inv, Looping, Past
<1>6. PICK x \in run.out : x.name = <<t.name, "">> /\ x.dims = dims
  <2>1. run.k \in Handled(Model, run.k)
    BY <1>2, <1>4, HandledGrows
  <2>2. Stands(Opts, Checkpoint[Model][run.k], run.out)
    BY <1>5, <2>1 DEF Filled
  <2> QED BY <1>4, <2>2 DEF Stands
<1>7. dims \in Seq(Nat)
  <2>1. x \in Entries
    BY <1>1, <1>2, <1>6, AtTurn
  <2> QED BY <1>6, <2>1 DEF Entries
<1>8. /\ suffix[1] \in Suffixes /\ suffix[2] \in Suffixes /\ suffix[3] \in Nat
      /\ suffix[1] # "" /\ suffix[2] # "" /\ suffix[1] # suffix[2]
  BY DEF SuffixesFor, Suffixes
<1> HIDE DEF suffix, t, dims
<1>9. /\ da \in Seq(Nat) /\ Len(da) = 2 /\ da[2] = dims[2]
      /\ db \in Seq(Nat) /\ Len(db) = 2 /\ db[1] = dims[1]
  <2>1. CASE static
    <3>1. Len(dims) = 2
      BY <1>1, <2>1 DEF CanFactor
    <3>2. dims[1] \in Nat /\ dims[2] \in Nat
      BY ONLY <1>7, <3>1, BothDims
    <3>3. The(Opts.ranks, t.name) \in Opts.ranks
      BY <2>1 DEF Names, The
    <3>4. rank \in Nat
      BY <1>3, <3>3 DEF OptionsType, RanksLoad
    <3>5. da = <<rank, dims[2]>> /\ db = <<dims[1], rank>>
      BY <2>1
    <3> HIDE DEF rank, da, db
    <3> QED BY <3>2, <3>4, <3>5
  <2>2. CASE ~static
    <3>1. t.name \in Names(Opts.factors)
      BY <1>2, <2>2 DEF Asked, Names
    <3>2. given \in Opts.factors
      BY <3>1 DEF Names, The
    <3>3. given.a \in Seq(Nat) /\ given.b \in Seq(Nat)
      BY <1>3, <3>2 DEF OptionsType, FactorsLoad
    <3>4. da = given.a /\ db = given.b
      BY <2>2
    <3>5. FactorsFit(dims, da, db)
      BY <1>1, <2>2
    <3> HIDE DEF given, da, db
    <3> QED BY <3>3, <3>4, <3>5 DEF FactorsFit
  <2> QED BY <2>1, <2>2
<1>10. static => Convert(dims, IF Kept(Opts, t, dims) THEN "f16" ELSE Opts.dtype) = "q4_0"
  <2> SUFFICES ASSUME static
               PROVE  Convert(dims, IF Kept(Opts, t, dims) THEN "f16" ELSE Opts.dtype) = "q4_0"
    OBVIOUS
  <2>1. Len(dims) = 2 /\ dims[2] % 32 = 0
    BY <1>1 DEF CanFactor
  <2>2. ~Kept(Opts, t, dims)
    BY <1>1 DEF ForceF16, Kept
  <2>3. Opts.dtype = "q4_0"
    BY <1>3 DEF Allowed, Names
  <2> QED BY <2>1, <2>2, <2>3 DEF Convert, Fills, Row, BlockSize
<1>11. value \in {"computed", "trained"}
  OBVIOUS
<1> HIDE DEF da, db, value, static
<1>12. /\ Convert(da, "f16") = "f16" /\ Suits(da, "f16")
       /\ Convert(db, "f16") = "f16" /\ Suits(db, "f16")
  <2>1. Convert(da, "f16") = "f16" /\ Convert(db, "f16") = "f16"
    BY <1>9 DEF Convert, Packed
  <2>2. "f16" \in Dtypes
    BY DEF Dtypes
  <2> QED BY <1>9, <2>1, <2>2, ConvertSuits
<1>13. /\ a \in Entries
       /\ a.name = <<t.name, suffix[1]>> /\ a.name[1] = t.name /\ a.name[2] = suffix[1]
       /\ a.bytes = t.bytes + suffix[3] /\ a.dims = da /\ a.type = "f16" /\ a.value = value
       /\ b \in Entries
       /\ b.name = <<t.name, suffix[2]>> /\ b.name[1] = t.name /\ b.name[2] = suffix[2]
       /\ b.bytes = t.bytes + suffix[3] /\ b.dims = db /\ b.type = "f16" /\ b.value = value
  <2>1. "f16" \in Dtypes /\ value \in Values
    BY <1>11 DEF Dtypes, Values
  <2>2. t.bytes + suffix[3] \in Nat
    <3>1. t.bytes \in Nat /\ suffix[3] \in Nat
      BY <1>4, <1>8
    <3> QED BY <3>1
  <2>3. /\ a = Stored(<<t.name, suffix[1]>>, t.bytes + suffix[3], da, "f16", value)
        /\ b = Stored(<<t.name, suffix[2]>>, t.bytes + suffix[3], db, "f16", value)
    BY <1>12
  <2> HIDE DEF a, b
  <2>4. /\ a \in Entries /\ a.name = <<t.name, suffix[1]>> /\ a.name[1] = t.name
        /\ a.name[2] = suffix[1] /\ a.bytes = t.bytes + suffix[3] /\ a.dims = da
        /\ a.type = "f16" /\ a.value = value
    BY <1>4, <1>8, <1>9, <2>1, <2>2, <2>3 DEF Stored, Entries
  <2>5. /\ b \in Entries /\ b.name = <<t.name, suffix[2]>> /\ b.name[1] = t.name
        /\ b.name[2] = suffix[2] /\ b.bytes = t.bytes + suffix[3] /\ b.dims = db
        /\ b.type = "f16" /\ b.value = value
    BY <1>4, <1>8, <1>9, <2>1, <2>2, <2>3 DEF Stored, Entries
  <2> QED BY <2>4, <2>5
<1> HIDE DEF a, b
<1>14. a # b /\ a.name # b.name
  BY <1>8, <1>13
<1>15. Filled(Model, Opts, run.out \cup {a, b}, run.done \cup {t.name}, run.k)
  <2>1. /\ a.name[2] # "" /\ b.name[2] # "" /\ a.bytes < 64 /\ b.bytes < 64
        /\ a.dims[2] = GeneratorDims(t)[2] /\ b.dims[1] = GeneratorDims(t)[1]
        /\ a.value \in {"computed", "trained"} /\ b.value \in {"computed", "trained"}
    BY <1>1, <1>8, <1>9, <1>11, <1>13 DEF dims
  <2>2. t.name \in Names(Opts.ranks) =>
            Convert(GeneratorDims(t), IF Kept(Opts, t, GeneratorDims(t)) THEN "f16"
                                      ELSE Opts.dtype) = "q4_0"
    BY <1>10 DEF dims, static
  <2> QED BY <1>2, <1>4, <1>5, <1>13, <1>14, <2>1, <2>2, FilledByFactors
<1>16. Distinct(run.out \cup {a, b})
  BY <1>1, <1>13, <1>14 DEF Inv, Looping, Distinct, Names
<1>17. \A y \in run.out \cup {a, b} : Suits(y.dims, y.type)
  BY <1>1, <1>12, <1>13 DEF Inv, Looping
<1>18. run.out \cup {a, b} \in SUBSET Entries /\ run.done \cup {t.name} \in SUBSET STRING
  BY <1>1, <1>2, <1>4, <1>13, AtTurn
<1>19. /\ run.k + 1 \in Nat \ {0} /\ run.k + 1 <= Len(Checkpoint[Model]) + 1
       /\ (run.k + 1) - 1 = run.k
  BY <1>1, <1>2, AtTurn
<1>20. Filled(Model, Opts, run.out \cup {a, b}, run.done \cup {t.name},
              IF "tensor" = "factors" THEN run.k + 1 ELSE (run.k + 1) - 1)
  BY <1>15, <1>19
<1> QED BY <1>1, <1>16, <1>17, <1>18, <1>19, <1>20, Turns

\* No step of a process, or its end, breaks the invariant.
LEMMA InvStep == Inv /\ [Next]_vars => Inv'
<1> SUFFICES ASSUME Inv, [Next]_vars PROVE Inv'
  OBVIOUS
<1>1. ASSUME NEW opts \in Requests, Start(opts) PROVE Inv'
  <2>1. opts \in OptionsType
    BY ExportAssumption DEF ExportAssumption
  <2>2. ModelsOf(opts) \in Seq(Models) /\ ModelsOf(opts) # <<>>
    <3>1. AllModels \in Seq(Models) /\ AllModels # <<>>
      BY DEF AllModels, Models
    <3>2. opts.model # "all" => opts.model \in Models
      BY <2>1 DEF OptionsType
    <3> QED BY <3>1, <3>2 DEF ModelsOf
  <2>3. /\ run' \in Process /\ run'.pc = "begin" /\ run'.opts = opts /\ run'.left = ModelsOf(opts)
        /\ run'.k = 0
    BY <1>1, <2>2 DEF Start, Quiet, Process
  <2>4. Allowed(opts) /\ RanksLoad(opts) /\ FactorsLoad(opts) /\ files' = files /\ cut' = cut
    BY <1>1 DEF Start
  <2>5. runs' \in 0..MaxRuns
    BY <1>1, ExportAssumption DEF Start, Inv, Typed, ExportAssumption
  <2>6. \A p \in Paths : Whole(p)' => Complete(p, files'[p])
    BY <2>4 DEF Inv, Written, Whole
  <2> QED BY <2>2, <2>3, <2>4, <2>5, <2>6, Begins DEF Inv, Typed
<1>2. CASE BeginGenerator \/ BeginDecoder
  <2>1. /\ run.pc = "begin" /\ run' = [run EXCEPT !.pc = "tensor", !.k = 1, !.out = {}, !.done = {}]
        /\ files' = files /\ runs' = runs /\ cut' = cut
    BY <1>2 DEF BeginGenerator, BeginDecoder, Opened
  <2>2. Distinct({}) /\ Filled(Model, Opts, {}, {}, 0)
    BY DEF Distinct, Filled, Handled
  <2>3. 1 <= Len(Checkpoint[Model]) + 1
    BY <2>1, AtWork
  <2>4. Filled(Model, Opts, {}, {}, IF "tensor" = "factors" THEN 1 ELSE 1 - 1)
    BY <2>2
  <2>5. {} \in SUBSET Entries /\ {} \in SUBSET STRING /\ 1 \in Nat \ {0}
    OBVIOUS
  <2> QED BY <2>1, <2>2, <2>3, <2>4, <2>5, Turns
<1>3. CASE SkipTensor
  <2>1. /\ run.pc = "tensor" /\ run.k <= Len(Checkpoint[Model]) /\ Model \in Generators
        /\ ~Rewrites(Tensor) /\ run' = [run EXCEPT !.k = run.k + 1]
        /\ files' = files /\ runs' = runs /\ cut' = cut
    BY <1>3 DEF SkipTensor, AtTensor
  <2>2. run' = [run EXCEPT !.pc = "tensor", !.k = run.k + 1, !.out = run.out, !.done = run.done]
    BY <2>1, AtTurn DEF Process
  <2>3. Distinct(run.out) /\ \A x \in run.out : Suits(x.dims, x.type)
    BY <2>1 DEF Inv, Looping
  <2>4. Filled(Model, Opts, run.out, run.done, run.k)
    <3>1. Filled(Model, Opts, run.out, run.done, run.k - 1)
      BY <2>1 DEF Inv, Looping, Past
    <3> QED BY <2>1, <3>1, AtTurn, FilledBySkip
  <2>5. Filled(Model, Opts, run.out, run.done,
               IF "tensor" = "factors" THEN run.k + 1 ELSE (run.k + 1) - 1)
    BY <2>1, <2>4, AtTurn
  <2> QED BY <2>1, <2>2, <2>3, <2>5, AtTurn, Turns
<1>4. CASE GeneratorTensor
  BY <1>4, WeightStep
<1>5. CASE AddFactors
  BY <1>5, FactorsStep
<1>6. CASE SsDecoderTensor \/ GsDecoderTensor \/ MeshDecoderTensor \/ MogeTensor
  <2>1. AtTensor /\ Model \notin Generators
    BY <1>6 DEF SsDecoderTensor, GsDecoderTensor, MeshDecoderTensor, MogeTensor, Generators
  <2>2. Tensor \in TensorType
    BY <2>1, AtTurn DEF AtTensor
  <2>3. /\ Tensor.dims \in Seq(Nat) /\ SsDecoderDims(Tensor) \in Seq(Nat)
        /\ MeshDecoderDims(Tensor) \in Seq(Nat)
    BY <2>2, DimsTypes DEF TensorType
  <2>4. \E dims \in Seq(Nat) : DecoderTensor(dims)
    BY <1>6, <2>3 DEF SsDecoderTensor, GsDecoderTensor, MeshDecoderTensor, MogeTensor
  <2> QED BY <2>1, <2>4, DecoderStep
<1>7. CASE CheckResiduals
  <2>1. /\ run.pc = "tensor" /\ run.k > Len(Checkpoint[Model])
        /\ Model \in Generators => Asked(Opts) \subseteq run.done
        /\ run' = [run EXCEPT !.pc = "finish"]
        /\ files' = files /\ runs' = runs /\ cut' = cut
    BY <1>7 DEF CheckResiduals, Asked
  <2>2. run \in Process
    BY DEF Inv, Typed
  <2>3. run' = [run EXCEPT !.pc = "finish", !.k = run.k, !.out = run.out, !.done = run.done]
    BY <2>1, <2>2 DEF Process
  <2>4. run.k = Len(Checkpoint[Model]) + 1 /\ run.k \in Nat \ {0}
    BY <2>1, AtWork
  <2>5. Distinct(run.out) /\ \A x \in run.out : Suits(x.dims, x.type)
    BY <2>1 DEF Inv, Looping
  <2>6. Model \in Generators => Filled(Model, Opts, run.out, run.done,
                                       IF "finish" = "factors" THEN run.k ELSE run.k - 1)
    BY <2>1 DEF Inv, Looping, Past
  <2>7. run.out \in SUBSET Entries /\ run.done \in SUBSET STRING
    BY <2>2 DEF Process
  <2>8. run.k <= Len(Checkpoint[Model]) + 1
    BY <2>1, AtWork
  <2> QED BY <2>1, <2>3, <2>4, <2>5, <2>6, <2>7, <2>8, Turns
<1>8. CASE OpenOutput
  <2> DEFINE file == [whole |-> FALSE, out |-> run.out, opts |-> Opts, done |-> run.done]
  <2>1. /\ run.pc = "finish" /\ run \in Process /\ Path \in Paths /\ Opts \in Requests
        /\ files' = [files EXCEPT ![Path] = file] /\ run' = [run EXCEPT !.pc = "write"]
        /\ runs' = runs /\ cut' = cut
    BY <1>8, AtWork DEF OpenOutput, Inv, Typed
  <2>2. /\ run' \in Process /\ run'.pc = "write" /\ run'.opts = run.opts /\ run'.left = run.left
        /\ run'.k = run.k /\ run'.out = run.out /\ run'.done = run.done
    BY <2>1 DEF Process
  <2>3. Model' = Model /\ Opts' = Opts /\ Past' = Past /\ Path' = Path
    BY <2>1, <2>2 DEF Model, Opts, Past, Path
  <2>4. file \in Files
    BY <2>1 DEF Process, Files
  <2>5. Typed'
    BY <2>1, <2>2, <2>4 DEF Inv, Typed
  <2>6. Working'
    BY <2>1, <2>2, <2>3 DEF Inv, Working, Opts
  <2>7. Looping'
    BY <2>1, <2>2, <2>3 DEF Inv, Looping
  <2>8. AtFactors' /\ AtEnd'
    BY <2>1, <2>2, <2>3 DEF Inv, AtFactors, AtEnd
  <2>9. files'[Path] = file /\ \A p \in Paths : p # Path => files'[p] = files[p]
    BY <2>1 DEF Inv, Typed
  <2>10. \A p \in Paths : Whole(p)' => Complete(p, files'[p])
    <3>1. ~file.whole
      OBVIOUS
    <3> HIDE DEF file
    <3> QED BY <2>9, <3>1 DEF Inv, Written, Whole
  <2>11. Written'
    BY <2>2, <2>3, <2>9, <2>10 DEF Written
  <2> QED BY <2>5, <2>6, <2>7, <2>8, <2>11 DEF Inv
<1>9. CASE WriteOutput
  <2>1. /\ run.pc = "write" /\ run \in Process /\ Path \in Paths
        /\ files' = [files EXCEPT ![Path].whole = TRUE]
        /\ cut' = cut \ {Path} /\ runs' = runs
        /\ run' = IF Len(run.left) = 1 THEN Quiet
                  ELSE [run EXCEPT !.pc = "begin", !.left = Tail(@), !.k = 0, !.out = {},
                                   !.done = {}]
    BY <1>9, AtWork DEF WriteOutput, Inv, Typed
  <2>2. files[Path] = [whole |-> FALSE, out |-> run.out, opts |-> Opts, done |-> run.done]
    BY <2>1 DEF Inv, Written
  <2>3. /\ files'[Path] = [files[Path] EXCEPT !.whole = TRUE]
        /\ \A p \in Paths : p # Path => files'[p] = files[p]
    BY <2>1 DEF Inv, Typed
  <2>4. /\ files'[Path].out = run.out /\ files'[Path].opts = Opts /\ files'[Path].done = run.done
        /\ files'[Path] \in Files
    <3>1. Opts \in Requests
      BY <2>1, AtWork
    <3>2. files[Path] \in Files
      BY <2>1, <2>2, <3>1 DEF Process, Files
    <3>3. files[Path].out = run.out /\ files[Path].opts = Opts /\ files[Path].done = run.done
      BY <2>2
    <3> QED BY <2>3, <3>2, <3>3 DEF Files
  <2>5. files' \in [Paths -> Files \cup {None}]
    BY <2>1, <2>3, <2>4 DEF Inv, Typed
  <2>6. Complete(Path, files'[Path])
    <3>1. Path[1] = Model
      BY DEF Path
    <3>2. Past = Len(Checkpoint[Model])
      BY <2>1, AtWork DEF Inv, AtEnd, Past
    <3>3. Distinct(run.out) /\ \A x \in run.out : Suits(x.dims, x.type)
      BY <2>1 DEF Inv, Looping
    <3>4. Model \in Generators =>
              /\ Filled(Model, Opts, run.out, run.done, Len(Checkpoint[Model]))
              /\ Asked(Opts) \subseteq run.done
      BY <2>1, <3>2 DEF Inv, Looping, AtEnd
    <3> QED BY <2>4, <3>1, <3>3, <3>4 DEF Complete
  <2>7. \A p \in Paths : Whole(p)' => Complete(p, files'[p])
    BY <2>3, <2>6 DEF Inv, Written, Whole
  <2>8. CASE Len(run.left) = 1
    <3>1. run' \in Process /\ run'.pc = "idle"
      BY <2>1, <2>8 DEF Quiet, Process
    <3> QED BY <2>1, <2>5, <2>7, <3>1, Begins DEF Inv, Typed
  <2>9. CASE Len(run.left) # 1
    <3>1. Tail(run.left) \in Seq(Models) /\ Tail(run.left) # <<>>
      <4>1. run.left \in Seq(Models) /\ run.left # <<>>
        BY <2>1, AtWork
      <4> QED BY <2>9, <4>1, Rest
    <3>2. /\ run' \in Process /\ run'.pc = "begin" /\ run'.opts = run.opts
          /\ run'.left = Tail(run.left) /\ run'.k = 0
      BY <2>1, <2>9, <3>1 DEF Process
    <3>3. /\ run.opts \in Requests /\ Allowed(run.opts) /\ RanksLoad(run.opts)
          /\ FactorsLoad(run.opts)
      BY <2>1 DEF Inv, Working, Opts
    <3> QED BY <2>1, <2>5, <2>7, <3>1, <3>2, <3>3, Begins DEF Inv, Typed
  <2> QED BY <2>8, <2>9
<1>10. CASE Stop
  <2>1. /\ run' = Quiet /\ files' = files /\ runs' = runs
        /\ cut' \subseteq Paths
    BY <1>10, AtWork DEF Stop, Inv, Typed
  <2>2. run' \in Process /\ run'.pc = "idle"
    BY <2>1 DEF Quiet, Process
  <2>3. \A p \in Paths : Whole(p)' => Complete(p, files'[p])
    BY <2>1 DEF Inv, Written, Whole
  <2> QED BY <2>1, <2>2, <2>3, Begins DEF Inv, Typed
<1>11. CASE UNCHANGED vars
  BY <1>11 DEF vars, Inv, Typed, Working, Looping, AtFactors, AtEnd, Written, Whole, Path, Model,
     Opts, Past, Tensor
<1> QED BY <1>1, <1>2, <1>3, <1>4, <1>5, <1>6, <1>7, <1>8, <1>9, <1>10, <1>11 DEF Next

\* The variables keep their types, and a process is never past the end of a
\* checkpoint.
THEOREM ExportTypes == Spec => []TypeOK
<1>1. Inv => TypeOK
  <2> SUFFICES ASSUME Inv PROVE TypeOK
    OBVIOUS
  <2>1. run \in Process /\ runs \in 0..MaxRuns /\ cut \subseteq Paths
    BY DEF Inv, Typed
  <2>2. ASSUME run.pc # "idle"
        PROVE  run.opts \in Requests /\ run.left # <<>> /\ run.k \in 0..Len(Checkpoint[Model]) + 1
    BY <2>2, AtWork DEF Opts
  <2>3. ASSUME NEW t \in run.out
        PROVE  [bytes |-> t.bytes, dims |-> t.dims, type |-> t.type, value |-> t.value]
                   \in StoredType
    BY <2>1, <2>3 DEF Process, Entries, StoredType, Values
  <2> QED BY <2>1, <2>2, <2>3 DEF TypeOK, Process
<1> QED BY <1>1, InvInit, InvStep, PTL DEF Spec

\* The weight that a name stands for is the one that Filled speaks of.
LEMMA WeightOf ==
    ASSUME NEW p \in Paths, Distinct(files[p].out), NEW x \in files[p].out, NEW name,
           x.name = <<name, "">>
    PROVE  In(p, name) = x
<1>1. /\ The(files[p].out, <<name, "">>) \in files[p].out
      /\ The(files[p].out, <<name, "">>).name = x.name
  BY DEF The
<1> QED BY <1>1 DEF In, Distinct

\* What ggml can compute with and address: every entry of a complete file has
\* as many bytes as its header says.
THEOREM StoredForGgmlTheorem == Spec => []StoredForGgml
<1>1. Inv => StoredForGgml
  BY DEF Inv, Written, Complete, Suits, StoredForGgml
<1> QED BY <1>1, InvInit, InvStep, PTL DEF Spec

\* What one policy keeps out of quantization no other one lets in.
THEOREM PolicyKeptTheorem == Spec => []PolicyKept
<1>1. Inv => PolicyKept
  <2> SUFFICES ASSUME Inv, NEW p \in Paths, Whole(p), p[1] \in Generators, NEW t \in Belongs(p),
                      In(p, t.name).type \in Packed
               PROVE  /\ t.name \notin files[p].opts.keep
                      /\ files[p].opts.matrixOnly \/ files[p].opts.dtype = "q4_k" => t.weight
    BY DEF PolicyKept
  <2> DEFINE f == files[p]
  <2>1. Complete(p, f)
    BY DEF Inv, Written
  <2>2. PICK i \in Handled(p[1], Len(Checkpoint[p[1]])) : Checkpoint[p[1]][i] = t
    BY DEF Belongs, Handled
  <2>3. Stands(f.opts, t, f.out)
    BY <2>1, <2>2 DEF Complete, Filled
  <2>4. PICK x \in f.out :
            /\ x.name = <<t.name, "">>
            /\ x.type = Convert(x.dims, IF Kept(f.opts, t, x.dims) THEN "f16" ELSE f.opts.dtype)
    BY <2>3 DEF Stands
  <2>5. In(p, t.name) = x
    BY <2>1, <2>4, WeightOf DEF Complete
  <2>6. ~Kept(f.opts, t, x.dims)
    BY <2>4, <2>5 DEF Convert, Packed
  <2> QED BY <2>6 DEF Kept
<1> QED BY <1>1, InvInit, InvStep, PTL DEF Spec

\* A residual that was asked for is in a complete file with both of its factors,
\* beside the weight they fit and correct.
THEOREM ResidualsExportedTheorem == Spec => []ResidualsExported
<1>1. Inv => ResidualsExported
  <2> SUFFICES ASSUME Inv, NEW p \in Paths, Whole(p), p[1] \in Generators,
                      NEW want \in files[p].opts.ranks \cup files[p].opts.factors
               PROVE  LET factors == {f \in files[p].out : f.value \in {"computed", "trained"}
                                                           /\ f.name[1] = want.name}
                          weight  == In(p, want.name)
                      IN /\ Cardinality(factors) = 2 /\ want.name \in files[p].done
                         /\ \A f \in factors :
                               /\ f.bytes < 64 /\ f.type = "f16"
                               /\ f.dims[1] = weight.dims[1] \/ f.dims[2] = weight.dims[2]
                         /\ want.name \in Names(files[p].opts.ranks) => weight.type = "q4_0"
    BY DEF ResidualsExported
  <2> DEFINE f == files[p]
  <2>1. Complete(p, f)
    BY DEF Inv, Written
  <2>2. want.name \in f.done
    BY <2>1 DEF Complete, Asked, Names
  <2>3. PICK i \in Handled(p[1], Len(Checkpoint[p[1]])) : Checkpoint[p[1]][i].name = want.name
    BY <2>1, <2>2 DEF Complete, Filled
  <2> DEFINE t == Checkpoint[p[1]][i]
  <2>4. Stands(f.opts, t, f.out) /\ Corrected(f.opts, t, f.out)
    BY <2>1, <2>2, <2>3 DEF Complete, Filled
  <2>5. PICK x \in f.out :
            /\ x.name = <<want.name, "">> /\ x.dims = GeneratorDims(t)
            /\ x.type = Convert(x.dims, IF Kept(f.opts, t, x.dims) THEN "f16" ELSE f.opts.dtype)
    BY <2>3, <2>4 DEF Stands
  <2>6. In(p, want.name) = x
    BY <2>1, <2>5, WeightOf DEF Complete
  <2>7. PICK a, b \in f.out :
            /\ a # b /\ FactorsOf(f.out, want.name) = {a, b}
            /\ a.bytes < 64 /\ a.type = "f16" /\ a.dims[2] = GeneratorDims(t)[2]
            /\ b.bytes < 64 /\ b.type = "f16" /\ b.dims[1] = GeneratorDims(t)[1]
    BY <2>3, <2>4 DEF Corrected
  <2>8. Cardinality({a, b}) = 2
    <3>1. IsFiniteSet({a}) /\ Cardinality({a}) = 1
      BY FS_Singleton
    <3>2. Cardinality({a} \cup {b}) = Cardinality({a}) + 1
      <4>1. b \notin {a}
        BY <2>7
      <4> QED BY <3>1, <4>1, FS_AddElement
    <3>3. Cardinality({a} \cup {b}) = 2
      BY <3>1, <3>2
    <3>4. {a, b} = {a} \cup {b}
      OBVIOUS
    <3> QED BY ONLY <3>3, <3>4, Zenon
  <2>9. want.name \in Names(f.opts.ranks) => x.type = "q4_0"
    BY <2>3, <2>4, <2>5 DEF Corrected
  <2>10. FactorsOf(f.out, want.name) = {g \in f.out : g.value \in {"computed", "trained"}
                                                      /\ g.name[1] = want.name}
    BY DEF FactorsOf
  <2>11. \A g \in {a, b} : /\ g.bytes < 64 /\ g.type = "f16"
                           /\ g.dims[1] = x.dims[1] \/ g.dims[2] = x.dims[2]
    BY <2>5, <2>7
  <2> QED BY <2>2, <2>6, <2>7, <2>8, <2>9, <2>10, <2>11
<1> QED BY <1>1, InvInit, InvStep, PTL DEF Spec

=============================================================================
