------------------------------- MODULE Course -------------------------------
(***************************************************************************)
(* What the smaller programs of the course have in common: which of them   *)
(* is being run, and how much time passes.  They wait for each other with  *)
(* sleep() and with people starting one program after another.  When       *)
(* "calm", such a wait lasts until everybody else has nothing more to do,  *)
(* which is what their authors had in mind.  When "rushed", it may last no *)
(* time at all, which is what the system promises.  The initial state      *)
(* chooses both, and no step changes them.                                 *)
(***************************************************************************)
VARIABLES program, pace

courseVars == <<program, pace>>

CourseTypeOK == pace \in {"calm", "rushed"}

Calm == pace = "calm"
=============================================================================
