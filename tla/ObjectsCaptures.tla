--------------------------- MODULE ObjectsCaptures ---------------------------
(* The captures of the Objects model's parts                                *)
(* (reference/capture_objects_*.py).  Every case is called three times      *)
(* before it is observed; some write their intermediate tensors to disk     *)
(* while they observe, before they know whether the observation was         *)
(* neutral.                                                                 *)
EXTENDS Instructions

Thrice == <<Pass("base"), Pass("repeat"), Same("repeat"), Pass("repeat"), Same("repeat")>>

\* Default image and mask preparation.
capture_objects_image(opt) ==
    LET Of(c) == Thrice \o <<Watch("profile"), Pass("seen"), Unwatch("profile"), Same("seen"),
                             Keep, Put(c)>>
    IN <<Pinned("objects"), Load("objects"), Pinned("photo"), Load("photo")>>
       \o Of("case0") \o Of("case1")
       \o <<Put("upstream"), Put("full"), Put("regression"), Put("rules"), List, Put("manifest")>>

\* The same with a point map.
capture_objects_joint(opt) ==
    LET Of(c) == Thrice \o <<Watch("profile"), Pass("seen"), Unwatch("profile"), Same("seen"),
                             Put(c), Keep>>
    IN <<Pinned("objects"), Load("objects"), Pinned("photo"), Load("photo")>>
       \o Of("case0") \o Of("case1")
       \o <<Put("upstream"), Put("full"), Put("regression"), List, Put("manifest")>>

\* The whole preparation of the point-map pipeline.
capture_objects_preprocess(opt) ==
    LET Of(c) == Thrice \o <<Watch("profile"), Pass("seen"), Put(Taps(c)), Unwatch("profile"),
                             Same("seen"), Keep, Put(Full(c)), Put(c)>>
    IN <<Pinned("objects"), Load("objects"), Pinned("photo"), Load("photo")>>
       \o Of("case0") \o Of("case1") \o <<Put("regression"), List, Put("manifest")>>

\* Point patches; the case's folder is hashed as it is written.
capture_objects_pointpatch(opt) ==
    LET Of(c) == <<Build, Put(c), Pass("base"), Pass("repeat"), Same("repeat"),
                   Watch("hook"), Watch("profile"), Pass("seen"), Put(Taps(c)), Collect(Taps(c)),
                   Unwatch("profile"), Unwatch("hook"), Same("seen"), Keep>>
    IN <<Pinned("objects"), Load("objects")>>
       \o Of("case0") \o (IF opt = "full" THEN <<>> ELSE Of("case1") \o <<Put("regression")>>)
       \o <<ListBut({"taps0", "taps1"}), Put("manifest")>>

\* Normalisation of point maps: the input is written first.
capture_objects_ssi(opt) ==
    LET Of(c) == <<Put(c)>> \o Thrice
                 \o <<Watch("profile"), Pass("seen"), Unwatch("profile"), Same("seen"), Keep>>
    IN <<Pinned("objects"), Load("objects")>> \o Of("case0") \o Of("case1")
       \o <<Put("upstream"), Put("full"), Put("regression"), List, Put("manifest")>>

\* Fusing the embeddings; hooks and profile end with the observed call.
capture_objects_fuser(opt) ==
    LET Of(c) == <<Build>> \o Thrice
                 \o <<Watch("hook"), Watch("profile"), Pass("seen"), Unwatch("profile"), Unwatch("hook"),
                      Same("seen"), Keep, Put(Taps(c)), Put(c), Collect(Taps(c))>>
    IN <<Pinned("objects"), Load("objects")>> \o Of("case0") \o Of("case1")
       \o <<Put("regression"), ListBut({"taps0", "taps1"}), Put("manifest")>>

\* Conditioning on points, composed with the files of the preparation's capture.
\* One of the cases is called first with a combination that must fail, and with
\* a hook that says where.
capture_objects_point_condition(opt) ==
    LET d == "capture_objects_preprocess"
        Refuted(c) == IF c = "case1" THEN <<Watch("hook"), Pass("part"), Unwatch("hook")>> ELSE <<>>
        Of(c) == <<Listed(d, Full(c)), Listed(d, c), Take(d, Full(c)), Build>> \o Refuted(c) \o Thrice
                 \o <<Watch("hook"), Watch("profile"), Pass("seen"), Put(Taps(c)), Collect(Taps(c)),
                      Unwatch("profile"), Unwatch("hook"), Same("seen"), Keep, Put(Full(c)), Put(c)>>
    IN <<Read(d), Pinned("objects"), Load("objects")>> \o Of("case0") \o Of("case1")
       \o <<Note(d), List, Put("manifest")>>

=============================================================================
