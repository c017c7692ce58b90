--------------------------- MODULE MCGeneration ---------------------------
(* Instances of Generation for TLC. *)
EXTENDS Generation

CONSTANTS j1, j2

MCTypes == [j \in Jobs |->
    IF j = j1 THEN {<<"text_to_image", "none">>, <<"image_to_image", "image">>,
                    <<"text_to_video", "media">>, <<"image_to_video", "media">>,
                    <<"image_to_video", "none">>, <<"raw", "none">>}
    ELSE {<<"text_to_image", "none">>}]
MCMaxRetries == [j \in Jobs |-> IF j = j1 THEN 1 ELSE 0]
===========================================================================
