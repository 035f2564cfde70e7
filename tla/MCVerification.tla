--------------------------- MODULE MCVerification ---------------------------
EXTENDS Verification, ScriptPrograms, TLC

CONSTANTS p1, p2, p3

\* Two of the calls name the same report.
MCReport == p1 :> "r" @@ p2 :> "r" @@ p3 :> "s"

By(scripts_, options) == {<<s, o>> : s \in scripts_, o \in options}

Alone ==
    [jobs |-> {}, bounded |-> FALSE, active |-> 1, starts |-> 2, kills |-> 0,
     editable |-> {}, edits |-> 0]

\* Runs one after the other, each possibly killed.
InTurn(jobs) == [Alone EXCEPT !.jobs = jobs, !.kills = 1]

\* Captures and what is made from them.
Chain(jobs) == [Alone EXCEPT !.jobs = jobs, !.starts = 3, !.kills = 1]

\* Two at a time, by hand and through run_bounded.py.
Overlap(jobs) == [Alone EXCEPT !.jobs = jobs, !.active = 2]
Bounded(jobs) == [Alone EXCEPT !.jobs = jobs, !.active = 3, !.starts = 3, !.bounded = TRUE]

\* Inputs edited while scripts run.
Edited(jobs, x) == [Alone EXCEPT !.jobs = jobs, !.editable = x, !.edits = 2]

Plain(scripts_) == By(scripts_, {"full"})

\* Every capture that stands on its own, run twice, in every combination of
\* options.
Captures ==
    {"capture_body_condition", "capture_body_decoder", "capture_body_feedback",
     "capture_body_prompt", "capture_camera_head", "capture_camera_encoder",
     "capture_body_image", "capture_body_crop", "capture_dino_patch", "capture_body_camera",
     "capture_body_output", "capture_body_pose", "capture_body_flow", "capture_hand_head",
     "capture_hand_frame", "capture_dino_block", "capture_dino_backbone",
     "capture_trained_backbone", "capture_trained_blocks", "capture_mhr",
     "capture_objects_image", "capture_objects_joint", "capture_objects_preprocess",
     "capture_objects_pointpatch", "capture_objects_ssi", "capture_objects_fuser"}

\* What reads another script's directory, with that script.
Chains ==
    {{"capture_body_flow", "run_body_flow"}, {"capture_body_flow", "run_body_model"},
     {"capture_body_flow", "capture_hand_crop"}, {"capture_body_flow", "capture_hand_unmirror"},
     {"capture_hand_head", "run_hand_head"}, {"capture_body_output", "run_body_output"},
     {"capture_body_camera", "run_body_camera"}, {"capture_dino_patch", "run_patch_capture"},
     {"capture_mhr", "capture_mhr_skeleton"}, {"capture_mhr", "capture_mhr_geometry"},
     {"capture_objects_image", "run_objects_image"}, {"capture_objects_joint", "run_objects_joint"},
     {"capture_objects_ssi", "run_objects_ssi"}, {"capture_objects_fuser", "run_objects_fuser"},
     {"capture_objects_preprocess", "run_objects_preprocess"},
     {"capture_objects_pointpatch", "run_objects_pointpatch"},
     {"capture_body_decoder", "check_parity"}}

\* Chains of three.
Long ==
    {{"capture_body_flow", "capture_hand_crop", "run_hand_crop"},
     {"capture_mhr", "capture_mhr_skeleton", "run_mhr_skeleton"},
     {"capture_mhr", "capture_mhr_geometry", "run_mhr_geometry"},
     {"capture_objects_preprocess", "capture_objects_point_condition", "run_objects_point_condition"}}

MCPlans ==
    {InTurn(By({s}, Options)) : s \in Captures}
    \cup {Chain(Plain(c)) : c \in Chains} \cup {[Chain(Plain(c)) EXCEPT !.starts = 4] : c \in Long}
    \cup {Chain(By(c, {"small"})) :
              c \in {{"capture_body_flow", "run_body_flow"}, {"capture_body_camera", "run_body_camera"},
                     {"capture_objects_pointpatch", "run_objects_pointpatch"}}}
    \cup {Chain(Plain({"profile_body_infer", "qa_body_captures"}))}
    \cup {Overlap(By({"capture_body_decoder"}, Options)),
          Overlap(Plain({"capture_hand_head"})),
          Overlap(Plain({"capture_hand_frame"})),
          Overlap(Plain({"capture_mhr", "capture_mhr_skeleton"}))}
    \cup {Edited(Plain({"capture_body_flow"}), {"helpers", "model"}),
          Edited(Plain({"run_body_api"}), {"runner", "module", "gguf"}),
          Edited(Plain({"capture_body_flow", "run_body_flow"}), {"runner", "rotation"}),
          Edited(Plain({"capture_hand_head", "run_hand_head"}), {"module", "gguf"})}
    \cup {Bounded(Plain({"run_body_api"})), Bounded(Plain({"profile_body_infer", "qa_body_captures"}))}

=============================================================================
