---------------------------- MODULE NativeChecks ----------------------------
(* The scripts that run the native program on a capture and compare         *)
(* (scripts/run_*.py).  What they compare is left out: a comparison that    *)
(* fails is recorded in the report.  What they check before they compare,   *)
(* and which files they then read, is not.                                  *)
EXTENDS Instructions

\* The whole pose branch: everything that runs is hashed before and after, the
\* script and its helper for the first time when they are loaded already, and
\* everything once more for the report.  The backbone of a capture from an image,
\* pinned or hashed in the same way, is left out.
run_body_flow(opt) ==
    LET d == "capture_body_flow"
        Of(c) == <<Listed(d, c), Native(Bin(c), {"runner", "module", "gguf"}, d, {c}), Collect(Bin(c))>>
    IN <<Load("script"), Load("rotation"), Read(d), Empty,
         Hash("runner"), Hash("module"), Hash("gguf"), Hash("script"), Hash("rotation")>>
       \o AllListed(d, <<"upstream", "full">>) \o AllTaken(d, <<"upstream", "full">>)
       \o (IF opt = "full" THEN Of("case0") ELSE Of("case0") \o Of("case1"))
       \o <<Recheck("runner"), Recheck("module"), Recheck("gguf"), Recheck("script"),
            Recheck("rotation"), Put("native"), Hash("gguf"), Hash("runner"), Hash("module"),
            Hash("script"), Hash("rotation"), Put("report")>>

\* The branch from pixels: the models are pinned, the programs hashed.
run_body_model(opt) ==
    LET d == "capture_body_flow"
    IN <<Read(d), Listed(d, "case0"), Pinned("gguf"), Empty, Take(d, "case0"), New("image"),
         Hash("runner"), Hash("module"), Native("bin0", {"runner", "module", "gguf"}, d, {}),
         Recheck("runner"), Recheck("module"), Put("native"), New("report")>>

\* The same through the C library, without a reference.
run_body_api(opt) ==
    <<Hash("runner"), Hash("module"), Pinned("gguf"), Empty,
      Native("bin0", {"runner", "module", "gguf"}, "run_body_api", {}),
      Recheck("runner"), Recheck("module"), Recheck("gguf"), Collect("bin0"), New("report")>>

run_hand_head(opt) ==
    LET d == "capture_hand_head"
        Of(c) == <<Listed(d, c), Native(Bin(c), {"runner", "module", "gguf"}, d, {c}), Collect(Bin(c))>>
    IN <<Read(d)>> \o AllListed(d, <<"upstream", "full", "rules">>) \o <<Pinned("gguf")>>
       \o AllTaken(d, <<"rules", "upstream", "full">>)
       \o <<Empty, Hash("runner"), Hash("module"), Hash("gguf")>>
       \o Of("case0") \o Of("case1")
       \o <<Recheck("runner"), Recheck("module"), Recheck("gguf"), Put("native"), New("report")>>

\* Hand components: no module, and the rules are read before they are checked.
run_hand_crop(opt) ==
    LET d == "capture_hand_crop"
        Of(c) == <<Listed(d, c), Native(Bin(c), {"runner"}, d, {c})>>
    IN <<Read(d), Take(d, "rules")>> \o AllListed(d, <<"upstream", "rules">>)
       \o <<Empty, Take(d, "upstream"), Hash("runner")>>
       \o Of("case0") \o Of("case1")
       \o <<Recheck("runner"), Put("native"), New("report")>>

\* From here on what runs is hashed only for the report.
run_body_output(opt) ==
    LET d == "capture_body_output"
        Of(c) == <<Listed(d, c), Native(Bin(c), {"runner", "module", "gguf"}, d, {c})>>
    IN <<Read(d)>> \o AllListed(d, <<"upstream", "full">>) \o AllTaken(d, <<"upstream", "full">>)
       \o Of("case0") \o Of("case1") \o <<Put("native"), Put("report")>>

\* Rays and patches: the commands are recorded after every case.
run_body_camera(opt) ==
    LET d == "capture_body_camera"
        Of(c) == <<Listed(d, c), Native(Bin(c), {"runner"}, d, {c}), Put("report")>>
    IN <<Read(d)>> \o Cases(opt, Of) \o <<Put("native"), Put("report")>>

run_patch_capture(opt) ==
    LET d == "capture_dino_patch"
        Of(c) == <<Listed(d, c), Native(Bin(c), {"runner", "module"}, d, {c}), Put("report")>>
    IN <<Read(d)>> \o Of("case0") \o Of("case1") \o <<Put("native"), Put("report")>>

run_mhr_skeleton(opt) ==
    LET d == "capture_mhr_skeleton"
    IN <<Read(d)>> \o AllListed(d, <<"upstream", "full", "case0", "local">>)
       \o <<Native("bin0", {"runner", "module", "gguf"}, d, {"case0"})>>
       \o AllTaken(d, <<"upstream", "full">>) \o <<Put("native"), Put("report")>>

run_mhr_geometry(opt) ==
    LET d == "capture_mhr_geometry"
        Of(c) == <<Listed(d, c), Native(Bin(c), {"runner", "module", "gguf"}, d, {c}), Take(d, c),
                   Put("native")>>
    IN <<Read(d)>> \o Of("case0") \o Of("case1") \o <<Put("report")>>

run_objects_image(opt) ==
    LET d == "capture_objects_image"
        Of(c) == <<Listed(d, c), Native(Bin(c), {"runner"}, d, {c}), Put("commands")>>
    IN <<Read(d)>> \o AllListed(d, <<"upstream", "full", "rules">>) \o <<Take(d, "full")>>
       \o Of("case0") \o Of("case1") \o <<Put("native"), Take(d, "upstream"), Put("report")>>

run_objects_joint(opt) ==
    LET d == "capture_objects_joint"
        Of(c) == <<Listed(d, c), Native(Bin(c), {"runner"}, d, {c})>> \o AllTaken(d, <<"upstream", "full">>)
    IN <<Read(d)>> \o AllListed(d, <<"upstream", "full">>)
       \o Of("case0") \o Of("case1") \o <<Put("native"), Put("report")>>

run_objects_ssi(opt) ==
    LET d == "capture_objects_ssi"
        Of(c) == <<Listed(d, c), Native(Bin(c), {"runner"}, d, {c})>>
    IN <<Read(d)>> \o AllListed(d, <<"upstream", "full">>) \o AllTaken(d, <<"upstream", "full">>)
       \o Of("case0") \o Of("case1") \o <<Put("native"), Put("report")>>

\* Where the capture has a file per tensor, it is checked when it is needed.
run_objects_preprocess(opt) ==
    LET d == "capture_objects_preprocess"
        Of(c) == <<Listed(d, c), Native(Bin(c), {"runner"}, d, {c}), Listed(d, Taps(c)), Take(d, Taps(c)),
                   Listed(d, Full(c)), Take(d, Full(c)), Collect(Bin(c))>>
    IN <<Read(d)>> \o Of("case0") \o Of("case1") \o <<Put("report")>>

run_objects_pointpatch(opt) ==
    LET d == "capture_objects_pointpatch"
        Of(c) == <<Listed(d, c), Native(Bin(c), {"runner", "module"}, d, {c}),
                   Listed(d, Taps(c)), Take(d, Taps(c))>>
    IN <<Read(d)>> \o Of("case0") \o (IF opt = "full" THEN <<>> ELSE Of("case1")) \o <<Put("report")>>

run_objects_fuser(opt) ==
    LET d == "capture_objects_fuser"
        Of(c) == <<Listed(d, c), Native(Bin(c), {"runner", "module"}, d, {c}),
                   Listed(d, Taps(c)), Take(d, Taps(c)), Put(Full(c)), Collect(Full(c))>>
    IN <<Read(d)>> \o Of("case0") \o Of("case1") \o <<Put("report")>>

\* Two captures, the second made from the first as it still is.
run_objects_point_condition(opt) ==
    LET d == "capture_objects_point_condition"
        pre == "capture_objects_preprocess"
        Of(c) == <<Listed(pre, c), Listed(d, c), Native(Bin(c), {"runner", "module"}, pre, {c}),
                   Listed(d, Taps(c)), Take(d, Taps(c)), Collect(Bin(c)),
                   Listed(d, Full(c)), Take(d, Full(c))>>
    IN <<Read(d), Read(pre), Made(d, pre)>> \o Of("case0") \o Of("case1") \o <<Put("report")>>

\* A timed native run in a new directory: the results of its worker are hashed,
\* and the program after it has run.
profile_body_infer(opt) ==
    <<NewDir, New("gpu"), New("log"), Native("bin0", {"runner"}, "profile_body_infer", {}),
      Hash("runner"), Collect("bin0"), Put("report")>>

\* Screenshots of a profiled result beside its original.  (When it fails, it
\* writes a report that says so.)
qa_body_captures(opt) ==
    LET d == "profile_body_infer"
    IN <<Read(d), Listed(d, "bin0"), Pinned("state"), Take(d, "bin0"), Load("state"),
         NewDir, New("log"), Put("case0"), Collect("case0"), Put("case1"), Collect("case1"), Put("report")>>

\* A finished comparison: rules, reference and candidate are read as they are.
check_parity(opt) ==
    LET d == "capture_body_decoder"
    IN <<Take(d, "rules"), Take(d, "upstream"), Put("report")>>

=============================================================================
