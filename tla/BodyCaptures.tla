---------------------------- MODULE BodyCaptures ----------------------------
(* The captures of the Body model's parts (reference/capture_body_*.py,     *)
(* capture_camera_*.py): the original modules are called on seeded inputs,  *)
(* observed, and their inputs and intermediate tensors saved.               *)
EXTENDS Instructions

\* Conditioning up to the first decoder layer.
capture_body_condition(opt) ==
    LET Of(c) == <<Build, Pass("base"), Watch("hook")>> \o UnwatchThenCompare \o <<Put(c)>>
    IN <<Pinned("body"), Load("body")>> \o Cases(opt, Of) \o Closing(opt)

\* One decoder layer.
capture_body_decoder(opt) ==
    LET Of(c) == <<Build, Pass("base"), Watch("hook")>> \o CompareThenUnwatch \o <<Put(c)>>
    IN <<Pinned("body"), Load("body")>> \o Cases(opt, Of) \o Closing(opt)

\* Crop and keypoint feedback: hooks and a profile together.
capture_body_feedback(opt) ==
    LET Of(c) == <<Build, Pass("base"), Watch("hook"), Watch("profile"), Pass("seen"),
                   Unwatch("profile"), Unwatch("hook"), Same("seen"), Keep, Put(c)>>
    IN <<Pinned("body"), Load("body")>> \o Cases(opt, Of) \o Closing(opt)

\* The prompt encoder: its method is wrapped during the observed call.
capture_body_prompt(opt) ==
    LET Of(c) == <<Build, Pass("base"), Watch("hook")>> \o UnwatchThenCompare \o <<Put(c)>>
    IN <<Pinned("body"), Load("body")>> \o Cases(opt, Of) \o Closing(opt)

\* The camera head: the head under hooks, then the projection under a profile.
capture_camera_head(opt) ==
    LET Of(c) == <<Build, Pass("base"), Watch("hook"), Pass("part"), Unwatch("hook"),
                   Watch("profile"), Pass("seen"), Unwatch("profile"), Same("part"), Same("seen"),
                   Keep, Put(c)>>
    IN <<Pinned("body"), Load("body")>> \o Cases(opt, Of) \o Closing(opt)

\* The camera encoder writes its regression inside the loop.
capture_camera_encoder(opt) ==
    LET Of(c) == <<Build, Pass("base"), Watch("hook")>> \o CompareThenUnwatch \o <<Put(c)>>
    IN <<Pinned("body"), Load("body")>> \o Cases(opt, Of) \o Closing(opt)

\* Image preparation: no observers; the photograph is only hashed at the end.
capture_body_image(opt) ==
    <<Pinned("body"), Load("body"), Load("photo"), Put("case0"), Put("case1"), Put("upstream"), Put("cases"), Put("crop_cases"),
      Put("rules"), Hash("photo"), List, Put("manifest")>>

\* Crop geometry: the manifest lists three files by name.
capture_body_crop(opt) ==
    <<Pinned("body"), Load("body"), Put("upstream"), Put("cases"), Put("rules"),
      Collect("upstream"), Collect("cases"), Collect("rules"), Put("manifest")>>

\* Patch embedding, and the rays of the camera: one unobserved call per case.
capture_dino_patch(opt) ==
    LET Of(c) == <<Pass("base"), Put(c)>>
    IN <<Pinned("body"), Load("body")>> \o Cases("full", Of)
       \o <<Put("upstream"), Put("rules"), List, Put("manifest")>>

capture_body_camera(opt) ==
    LET Of(c) == <<Pass("base"), Put(c)>>
    IN <<Pinned("body"), Load("body")>> \o Cases(opt, Of) \o Closing(opt)

\* The complete head on the released MHR model, compared within a tolerance,
\* and once more without its blend flag.
capture_body_output(opt) ==
    LET Of(c) == <<Build, Pass("base"), Watch("profile"), Pass("seen"), Unwatch("profile"),
                   Close("seen"), Pass("repeat"), Close("repeat"), Keep, Put(c)>>
    IN <<Pinned("model"), Pinned("body"), Load("body"), Load("model")>>
       \o Of("case0") \o <<Put("regression")>> \o Of("case1")
       \o <<Put("upstream"), Put("full"), List, Put("manifest")>>

\* The pose head up to MHR's inputs: each call sets and restores its own
\* observers.  (Without the diagnostic on a trained state.)
capture_body_pose(opt) ==
    LET Of(c) == <<Build, Pass("base"), Watch("hook"), Watch("profile"), Pass("seen"),
                   Unwatch("profile"), Unwatch("hook"), Same("seen"), Keep, Put(c)>>
    IN <<Pinned("wheel"), Load("wheel"), Pinned("body"), Load("body")>>
       \o Cases(opt, Of) \o Closing(opt)

\* The whole pose branch.  A trained capture ("full") has one case, is repeated
\* and compared bit by bit; a synthetic one has two and a tolerance.  The
\* helper scripts are hashed before they are imported and again at the end.
capture_body_flow(opt) ==
    LET Of(c) == <<Build, Pass("base")>>
                 \o (IF opt = "full" THEN <<Pass("repeat"), Same("repeat")>> ELSE <<>>)
                 \o <<Watch("hook"), Watch("profile"), Pass("seen"), Unwatch("profile"), Unwatch("hook"),
                      IF opt = "full" THEN Same("seen") ELSE Close("seen"), Keep, Put(c)>>
    IN <<Hash("helpers"), Load("helpers"), Pinned("model"), Pinned("body"), Load("body"), Load("model")>>
       \o (IF opt = "full" THEN Of("case0") ELSE Of("case0") \o Of("case1") \o <<Put("norm")>>)
       \o <<Put("upstream"), Put("full"), List, Recheck("helpers"), Put("manifest")>>

=============================================================================
