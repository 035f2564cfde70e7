--------------------------- MODULE MCObjectsExport ---------------------------
(* Small checkpoints: each has a tensor of every kind its converter treats  *)
(* differently, and rows that fill 256, 32 or no block.                     *)
EXTENDS ObjectsExport

T(name, key, role, weight, bytes, dims) ==
    [name |-> name, key |-> key, role |-> role, weight |-> weight, bytes |-> bytes, dims |-> dims]

MCGenerator == <<
    T("cemb.pos_embed", "cemb", "pos_embed", FALSE, 20, <<1, 64, 2, 2>>),
    T("dit.w256", "dit", "plain", TRUE, 30, <<4, 256>>),
    T("dit.w32", "dit", "plain", TRUE, 58, <<8, 32>>),
    T("dit.odd", "dit", "plain", TRUE, 20, <<4, 20>>),
    T("dit.bias", "dit", "plain", FALSE, 20, <<32>>),
    T("old.copy", "base_models", "plain", TRUE, 20, <<4, 32>>)>>

MCSlat == <<
    T("dit.conv", "dit", "sparse_conv", TRUE, 40, <<2, 3, 3, 3, 32>>),
    T("dit.w32", "dit", "plain", TRUE, 58, <<8, 32>>)>>

Conv(dims) == T("dec.conv", "plain", "plain", TRUE, 20, dims)
Skip == T("dec.skip", "plain", "plain", TRUE, 20, <<4, 1, 1, 1, 20>>)
Norm == T("dec.norm", "plain", "plain", TRUE, 20, <<64>>)

MCCheckpoint == [model \in Models |->
    CASE model = "ss_generator" -> MCGenerator
      [] model = "slat_generator" -> MCSlat
      [] model = "slat_decoder_mesh" -> <<Conv(<<4, 3, 3, 3, 32>>), Skip, Norm>>
      [] OTHER -> <<Conv(<<4, 32, 3, 3, 3>>), Norm>>]

Plain(model, dtype) ==
    [model |-> model, dtype |-> dtype, keep |-> {}, matrixOnly |-> FALSE, calibrated |-> {},
     overrides |-> {}, ranks |-> {}, factors |-> {}, moge |-> TRUE]

Rank(name, r) == [name |-> name, rank |-> r]
Pair(name, a, b) == [name |-> name, weight |-> name # "dit.bias", a |-> a, b |-> b]

MCRequests ==
    \* every type of storage under every policy
    {[Plain("ss_generator", dtype) EXCEPT !.keep = keep, !.matrixOnly = only] :
        dtype \in Dtypes, keep \in {{}, {"dit.w256", "dit.bias"}}, only \in BOOLEAN}
    \* residuals: fitting, of a bias, too high, unknown, kept out, calibrated
    \cup {[Plain("ss_generator", "q4_0") EXCEPT !.ranks = ranks, !.keep = keep, !.calibrated = cal] :
        ranks \in {{Rank("dit.w256", 2), Rank("dit.w32", 1)}, {Rank("dit.odd", 1)},
                   {Rank("dit.bias", 1)}, {Rank("dit.w32", 9)}, {Rank("none", 1), Rank("dit.w32", 1)},
                   {Rank("dit.w32", 0)}, {Rank("old.copy", 1)}},
        keep \in {{}, {"dit.w32"}},
        cal \in {{}, {[name |-> "dit.w32", rows |-> 32]}}}
    \cup {[Plain("ss_generator", "q4_0") EXCEPT !.factors = factors] :
        factors \in {{Pair("dit.w32", <<2, 32>>, <<8, 2>>)}, {Pair("dit.w32", <<2, 32>>, <<8, 1>>)},
                     {Pair("dit.odd", <<1, 20>>, <<4, 1>>)}, {Pair("dit.w32", <<2, 32>>, None)},
                     {Pair("dit.bias", <<1, 1>>, <<8, 1>>)}}}
    \* calibration and overrides
    \cup {[Plain("slat_generator", "q4_0") EXCEPT !.calibrated = cal, !.overrides = over] :
        cal \in {{}, {[name |-> "dit.w32", rows |-> 32]}, {[name |-> "dit.w32", rows |-> 8]}},
        over \in {{}, {[name |-> "dit.w32", dims |-> <<8, 32>>]}, {[name |-> "dit.w32", dims |-> <<8>>]}}}
    \cup {Plain(model, dtype) : model \in (Models \ Generators) \cup {"all"}, dtype \in {"q4_0", "q8_0"}}
    \cup {[Plain("moge_vitl", "f16") EXCEPT !.moge = FALSE]}

=============================================================================
