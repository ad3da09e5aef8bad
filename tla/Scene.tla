------------------------------- MODULE Scene --------------------------------
(* What one behaviour asks of the functions: a scene is set up once.       *)
VARIABLE scene

Init == scene = [kind |-> "none"]
Idle == scene.kind = "none"
=============================================================================
