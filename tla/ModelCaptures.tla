---------------------------- MODULE ModelCaptures ----------------------------
(* The captures of the networks and of the released states                  *)
(* (reference/capture_hand_*.py, capture_dino_*.py, capture_trained_*.py,   *)
(* capture_mhr*.py).  The ones that need an empty directory and create      *)
(* their case files exclusively are the ones other work is accepted         *)
(* against; the others may be run again over what is there.                 *)
EXTENDS Instructions

\* The hand head on the released state: two calls that must agree before it is
\* observed, observers restored whatever happens.
capture_hand_head(opt) ==
    LET Of(c) == <<Pass("base"), Pass("repeat"), Same("repeat"), Watch("hook"), Watch("profile"),
                   Pass("seen"), Unwatch("profile"), Unwatch("hook"), Same("seen"), New(c), Keep>>
    IN <<Pinned("model"), Pinned("wheel"), Pinned("state"), Pinned("body"), Load("body"), Load("model"),
         Empty, Load("state")>>
       \o Of("case0") \o Of("case1")
       \o <<Put("upstream"), Put("full"), Put("rules"), List, Put("manifest")>>

\* Hand crops: prepared twice from a trained capture of the whole branch.
capture_hand_crop(opt) ==
    LET d == "capture_body_flow"
        Of(c) == <<Pass("base"), Pass("repeat"), Same("repeat"), New(c), Keep>>
    IN <<Pinned("body"), Pinned("photo"), Read(d), Listed(d, "upstream"), Take(d, "upstream"),
         Load("photo"), Load("body"), Empty>>
       \o Of("case0") \o Of("case1")
       \o <<Put("upstream"), Put("rules"), List, Put("manifest")>>

\* Wrist frames: one unobserved and two observed executions of the original code.
capture_hand_frame(opt) ==
    LET Of(c) == <<Pass("base"), Watch("hook"), Pass("seen"), Pass("repeat"), Unwatch("hook"),
                   Same("seen"), Same("repeat"), New(c), Keep>>
    IN <<Pinned("state"), Pinned("wheel"), Pinned("body"), Load("body"), Load("state"), Empty>>
       \o Of("case0") \o Of("case1")
       \o <<Put("upstream"), Put("rules"), List, Put("manifest")>>

\* The left hand mirrored back: two files of the left capture are checked, both loaded.
capture_hand_unmirror(opt) ==
    LET d == "capture_body_flow"
        Of(c) == <<Pass("base"), Pass("repeat"), Same("repeat"), New(c), Keep>>
    IN <<Pinned("body"), Load("body"), Pinned("state"), Load("state"), Read(d),
         Listed(d, "full"), Listed(d, "upstream"), Take(d, "full"), Take(d, "upstream"), Empty>>
       \o Of("case0") \o Of("case1")
       \o <<Put("upstream"), Put("rules"), Put("regression"), List, Put("manifest")>>

\* One block of the image backbone; its regression is written inside the loop.
capture_dino_block(opt) ==
    LET Of(c) == <<Build, Pass("base"), Watch("hook")>> \o CompareThenUnwatch \o <<Put(c)>>
    IN <<Pinned("dino"), Load("dino")>> \o Cases(opt, Of) \o Closing(opt)

\* The whole backbone through the Body wrapper.
capture_dino_backbone(opt) ==
    LET Of(c) == <<Build, Pass("base"), Watch("hook")>> \o CompareThenUnwatch \o <<Put(c)>>
    IN <<Pinned("dino"), Pinned("body"), Load("dino"), Load("body")>> \o Cases(opt, Of) \o Closing(opt)

\* The backbone with the released weights: three calls that agree, then an
\* observed one.  (Without the operation observer, which writes a directory of
\* its own, and without the files that document a rejected observation.)
capture_trained_backbone(opt) ==
    <<Pinned("weights"), Pinned("photo"), Pinned("body"), Empty, Pinned("dino"), Load("dino"),
      Load("body"), Load("weights"), Load("photo"), Pass("base"), Pass("repeat"), Same("repeat"),
      Pass("repeat"), Same("repeat"), Watch("hook"), Pass("seen"), Same("seen"), Unwatch("hook"), Keep,
      New("case0"), Put("upstream"), Put("full"), Put("rules"), List, Put("manifest")>>

\* Single blocks with the released weights; the weights are hashed again for
\* the manifest, not compared.
capture_trained_blocks(opt) ==
    LET Of(c) == <<Build, Pass("base"), Pass("repeat"), Same("repeat"),
                   Pass("repeat"), Same("repeat"), Watch("hook")>>
                 \o CompareThenUnwatch \o <<New(c)>>
    IN <<Pinned("weights"), Pinned("photo"), Empty, Pinned("dino"), Load("dino"),
         Load("weights"), Load("photo")>>
       \o Of("case0") \o Of("case1")
       \o <<Put("upstream"), Put("rules"), Hash("weights"), Hash("photo"), List, Put("manifest")>>

\* The released body mesh model on the inputs of its own demonstration.
capture_mhr(opt) ==
    <<Pinned("model"), Load("model"), Put("state"), Put("geometry"), Pinned("demo"), Load("demo"),
      Put("inputs"), Pass("base"), Put("upstream"), List, Put("manifest")>>

\* Its skeleton, on the inputs of that capture, observed within a tolerance.
capture_mhr_skeleton(opt) ==
    LET d == "capture_mhr"
    IN <<Pinned("model"), Read(d), Listed(d, "inputs"), Take(d, "inputs"), Load("model"),
         Pass("base"), Watch("hook"), Pass("seen"), Unwatch("hook"), Close("seen"), Keep,
         Put("upstream"), Put("full"), Put("case0"), Put("local"), Put("traces"), List, Put("manifest")>>

\* Its geometry, with and without correctives, observed on a model of its own;
\* a case is a folder, which stands here as one file.
capture_mhr_geometry(opt) ==
    LET d == "capture_mhr"
        Of(c) == <<Pass("base"), Build, Watch("hook"), Pass("seen"), Unwatch("hook"),
                   Put(Taps(c)), Close("seen"), Keep, Put(c)>>
    IN <<Pinned("model"), Read(d), Listed(d, "inputs"), Take(d, "inputs"), Load("model")>>
       \o Of("case0") \o Of("case1") \o <<List, Put("manifest")>>

=============================================================================
