--------------------------- MODULE ScriptPrograms ---------------------------
(* All the scripts by name, and how they can be called.                     *)
EXTENDS BodyCaptures, ModelCaptures, ObjectsCaptures, NativeChecks

AllPrograms ==
    [capture_body_condition |-> [o \in {"small", "full"} |-> capture_body_condition(o)],
     capture_body_decoder |-> [o \in {"small", "full"} |-> capture_body_decoder(o)],
     capture_body_feedback |-> [o \in {"small", "full"} |-> capture_body_feedback(o)],
     capture_body_prompt |-> [o \in {"small", "full"} |-> capture_body_prompt(o)],
     capture_camera_head |-> [o \in {"small", "full"} |-> capture_camera_head(o)],
     capture_camera_encoder |-> [o \in {"small", "full"} |-> capture_camera_encoder(o)],
     capture_body_image |-> [o \in {"small", "full"} |-> capture_body_image(o)],
     capture_body_crop |-> [o \in {"small", "full"} |-> capture_body_crop(o)],
     capture_dino_patch |-> [o \in {"small", "full"} |-> capture_dino_patch(o)],
     capture_body_camera |-> [o \in {"small", "full"} |-> capture_body_camera(o)],
     capture_body_output |-> [o \in {"small", "full"} |-> capture_body_output(o)],
     capture_body_pose |-> [o \in {"small", "full"} |-> capture_body_pose(o)],
     capture_body_flow |-> [o \in {"small", "full"} |-> capture_body_flow(o)],
     capture_hand_head |-> [o \in {"small", "full"} |-> capture_hand_head(o)],
     capture_hand_crop |-> [o \in {"small", "full"} |-> capture_hand_crop(o)],
     capture_hand_frame |-> [o \in {"small", "full"} |-> capture_hand_frame(o)],
     capture_hand_unmirror |-> [o \in {"small", "full"} |-> capture_hand_unmirror(o)],
     capture_dino_block |-> [o \in {"small", "full"} |-> capture_dino_block(o)],
     capture_dino_backbone |-> [o \in {"small", "full"} |-> capture_dino_backbone(o)],
     capture_trained_backbone |-> [o \in {"small", "full"} |-> capture_trained_backbone(o)],
     capture_trained_blocks |-> [o \in {"small", "full"} |-> capture_trained_blocks(o)],
     capture_mhr |-> [o \in {"small", "full"} |-> capture_mhr(o)],
     capture_mhr_skeleton |-> [o \in {"small", "full"} |-> capture_mhr_skeleton(o)],
     capture_mhr_geometry |-> [o \in {"small", "full"} |-> capture_mhr_geometry(o)],
     capture_objects_image |-> [o \in {"small", "full"} |-> capture_objects_image(o)],
     capture_objects_joint |-> [o \in {"small", "full"} |-> capture_objects_joint(o)],
     capture_objects_preprocess |-> [o \in {"small", "full"} |-> capture_objects_preprocess(o)],
     capture_objects_pointpatch |-> [o \in {"small", "full"} |-> capture_objects_pointpatch(o)],
     capture_objects_ssi |-> [o \in {"small", "full"} |-> capture_objects_ssi(o)],
     capture_objects_fuser |-> [o \in {"small", "full"} |-> capture_objects_fuser(o)],
     capture_objects_point_condition |-> [o \in {"small", "full"} |-> capture_objects_point_condition(o)],
     run_body_flow |-> [o \in {"small", "full"} |-> run_body_flow(o)],
     run_body_model |-> [o \in {"small", "full"} |-> run_body_model(o)],
     run_body_api |-> [o \in {"small", "full"} |-> run_body_api(o)],
     run_hand_head |-> [o \in {"small", "full"} |-> run_hand_head(o)],
     run_hand_crop |-> [o \in {"small", "full"} |-> run_hand_crop(o)],
     run_body_output |-> [o \in {"small", "full"} |-> run_body_output(o)],
     run_body_camera |-> [o \in {"small", "full"} |-> run_body_camera(o)],
     run_patch_capture |-> [o \in {"small", "full"} |-> run_patch_capture(o)],
     run_mhr_skeleton |-> [o \in {"small", "full"} |-> run_mhr_skeleton(o)],
     run_mhr_geometry |-> [o \in {"small", "full"} |-> run_mhr_geometry(o)],
     run_objects_image |-> [o \in {"small", "full"} |-> run_objects_image(o)],
     run_objects_joint |-> [o \in {"small", "full"} |-> run_objects_joint(o)],
     run_objects_ssi |-> [o \in {"small", "full"} |-> run_objects_ssi(o)],
     run_objects_preprocess |-> [o \in {"small", "full"} |-> run_objects_preprocess(o)],
     run_objects_pointpatch |-> [o \in {"small", "full"} |-> run_objects_pointpatch(o)],
     run_objects_fuser |-> [o \in {"small", "full"} |-> run_objects_fuser(o)],
     run_objects_point_condition |-> [o \in {"small", "full"} |-> run_objects_point_condition(o)],
     profile_body_infer |-> [o \in {"small", "full"} |-> profile_body_infer(o)],
     qa_body_captures |-> [o \in {"small", "full"} |-> qa_body_captures(o)],
     check_parity |-> [o \in {"small", "full"} |-> check_parity(o)]]

=============================================================================
