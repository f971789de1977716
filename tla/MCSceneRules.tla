---------------------------- MODULE MCSceneRules ----------------------------
(* Small instances of SceneRules: each mode alone, one person.  A camera may
   be switched from fire to black screen.                                    *)
EXTENDS SceneRules

CONSTANT t1

Modes == {{"black"}, {"fire"}, {"intrusion"}, {"flow"}}
Switches == {<<{"fire"}, {"black"}>>}
=============================================================================
