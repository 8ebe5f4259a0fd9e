-------------------------------- MODULE Game --------------------------------
(***************************************************************************)
(* Bono/C2.  Three threads move the ball with the keys, move the X at      *)
(* random and look whether they meet, with the positions under pos_mtx;    *)
(* main() draws them.  running and won are read without the mutex.         *)
(*                                                                         *)
(* curses (external) gives any key or none.                                *)
(***************************************************************************)
EXTENDS Integers, Course

CONSTANTS max_cols, max_rows

ASSUME GameAssumption == max_cols \in Nat \ 0 .. 2 /\ max_rows \in Nat \ 0 .. 2

VARIABLES
    ball_pos, x_pos,
    pos_mtx,        \* the thread that holds it, or "free"
    running, won,
    game_pc,
    quit,           \* history: q was pressed
    shown           \* what main() says at the end

gameVars == <<ball_pos, x_pos, pos_mtx, running, won, game_pc, quit, shown>>

GameThreads == {"main", "keys", "x", "collision"}
Borders == (1 .. max_cols - 2) \X (1 .. max_rows - 2)

\* On a screen of three columns the ball starts on the border, and KEY_LEFT takes it
\* off the screen until it is clamped.
GameTypeOK ==
    /\ ball_pos \in (-1 .. max_cols - 1) \X (0 .. max_rows - 1)
    /\ x_pos \in (0 .. max_cols - 1) \X (0 .. max_rows - 1)
    /\ pos_mtx \in GameThreads \cup {"free"}
    /\ running \in BOOLEAN /\ won \in BOOLEAN /\ quit \in BOOLEAN
    /\ game_pc \in [GameThreads -> {"place", "create", "test", "getch", "lock", "act", "clamp", "stop",
                                    "unlock", "result", "join", "exit", "unborn"}]
    /\ shown \in {"nothing", "You win! :)", "Bye!"}

GameInit ==
    /\ ball_pos = <<0, 0>> /\ x_pos = <<0, 0>>
    /\ pos_mtx = "free"
    /\ running = TRUE /\ won = FALSE
    /\ game_pc = [t \in GameThreads |-> IF t = "main" THEN "place" ELSE "unborn"]
    /\ quit = FALSE
    /\ shown = "nothing"

Thread(t, from, to) == game_pc[t] = from /\ game_pc' = [game_pc EXCEPT ![t] = to]

\* A coordinate, put back between 1 and max - 2.
Within(c, max) ==
    LET up == IF c < 1 THEN 1 ELSE c
    IN  IF up > max - 2 THEN max - 2 ELSE up

\* Mutant of Clamp: up to the border.
ClampWide(p) == <<IF p[1] < 1 THEN 1 ELSE p[1], Within(p[2], max_rows)>>

\* clamp_ball, and the same lines of random_step.
Clamp(p) == <<Within(p[1], max_cols), Within(p[2], max_rows)>>

-----------------------------------------------------------------------------
(* What the four threads have in common *)

\* while (running), which leads main() to the result and ends the others.
TestRunningFlag(t) ==
    /\ Thread(t, "test", IF ~running THEN IF t = "main" THEN "result" ELSE "exit"
                         ELSE IF t = "keys" THEN "getch" ELSE "lock")
    /\ UNCHANGED <<ball_pos, x_pos, pos_mtx, running, won, quit, shown>>

LockPositions(t) ==
    /\ pos_mtx = "free" /\ pos_mtx' = t
    /\ Thread(t, "lock", "act")
    /\ UNCHANGED <<ball_pos, x_pos, running, won, quit, shown>>

\* Mutant of UnlockPositions: the thread that ends the game keeps the mutex.
UnlockWhileRunning(t) ==
    /\ Thread(t, "unlock", "test") /\ pos_mtx' = IF running THEN "free" ELSE t
    /\ UNCHANGED <<ball_pos, x_pos, running, won, quit, shown>>

UnlockPositions(t) ==
    /\ Thread(t, "unlock", "test") /\ pos_mtx' = "free"
    /\ UNCHANGED <<ball_pos, x_pos, running, won, quit, shown>>

-----------------------------------------------------------------------------
(* keyboard_thread *)

\* getch: a key is there, or it is asked again.
GetKey ==
    /\ \E next \in {"lock", "test"} : Thread("keys", "getch", next)
    /\ UNCHANGED <<ball_pos, x_pos, pos_mtx, running, won, quit, shown>>

\* Four arrows, and any other key.
Keys == {<<-1, 0>>, <<1, 0>>, <<0, -1>>, <<0, 1>>, <<0, 0>>}

PressKey ==
    /\ Thread("keys", "act", "clamp")
    /\ \E d \in Keys : ball_pos' = <<ball_pos[1] + d[1], ball_pos[2] + d[2]>>
    /\ UNCHANGED <<x_pos, pos_mtx, running, won, quit, shown>>

PressQ ==
    /\ Thread("keys", "act", "clamp")
    /\ running' = FALSE /\ quit' = TRUE
    /\ UNCHANGED <<ball_pos, x_pos, pos_mtx, won, shown>>

ClampBall ==
    /\ Thread("keys", "clamp", "unlock")
    /\ ball_pos' = Clamp(ball_pos)
    /\ UNCHANGED <<x_pos, pos_mtx, running, won, quit, shown>>

-----------------------------------------------------------------------------
(* x_mover_thread and collision_thread *)

RandomStep ==
    /\ Thread("x", "act", "unlock")
    /\ \E dx, dy \in -1 .. 1 : x_pos' = Clamp(<<x_pos[1] + dx, x_pos[2] + dy>>)
    /\ UNCHANGED <<ball_pos, pos_mtx, running, won, quit, shown>>

\* Mutant of Collide: the flags in the other order.
CollideStopFirst ==
    /\ ball_pos = x_pos
    /\ \/ Thread("collision", "act", "stop") /\ running' = FALSE /\ UNCHANGED won
       \/ Thread("collision", "stop", "unlock") /\ won' = TRUE /\ UNCHANGED running
    /\ UNCHANGED <<ball_pos, x_pos, pos_mtx, quit, shown>>

\* won, and then running, which the others do not lock.
Collide ==
    /\ ball_pos = x_pos
    /\ \/ Thread("collision", "act", "stop") /\ won' = TRUE /\ UNCHANGED running
       \/ Thread("collision", "stop", "unlock") /\ running' = FALSE /\ UNCHANGED won
    /\ UNCHANGED <<ball_pos, x_pos, pos_mtx, quit, shown>>

Miss ==
    /\ ball_pos # x_pos /\ Thread("collision", "act", "unlock")
    /\ UNCHANGED <<ball_pos, x_pos, pos_mtx, running, won, quit, shown>>

-----------------------------------------------------------------------------
(* main() *)

Place ==
    /\ Thread("main", "place", "create")
    /\ ball_pos' = <<max_cols \div 4, max_rows \div 2>>
    /\ x_pos' = <<(3 * max_cols) \div 4, max_rows \div 2>>
    /\ UNCHANGED <<pos_mtx, running, won, quit, shown>>

CreateGameThreads ==
    /\ game_pc["main"] = "create"
    /\ game_pc' = [t \in GameThreads |-> "test"]
    /\ UNCHANGED <<ball_pos, x_pos, pos_mtx, running, won, quit, shown>>

\* The copies that are drawn are taken under the mutex.
Draw ==
    /\ Thread("main", "act", "unlock")
    /\ UNCHANGED <<ball_pos, x_pos, pos_mtx, running, won, quit, shown>>

ShowResult ==
    /\ Thread("main", "result", "join")
    /\ shown' = IF won THEN "You win! :)" ELSE "Bye!"
    /\ UNCHANGED <<ball_pos, x_pos, pos_mtx, running, won, quit>>

JoinThreads ==
    /\ Thread("main", "join", "exit")
    /\ \A t \in GameThreads \ {"main"} : game_pc[t] = "exit"
    /\ UNCHANGED <<ball_pos, x_pos, pos_mtx, running, won, quit, shown>>

ThreadStep(t) ==
    /\ program = "game"
    /\ \/ TestRunningFlag(t) \/ LockPositions(t) \/ UnlockPositions(t)
       \/ t = "keys" /\ (PressKey \/ PressQ \/ ClampBall \/ GetKey)
       \/ t = "x" /\ RandomStep
       \/ t = "collision" /\ (Collide \/ Miss)
       \/ t = "main" /\ (Place \/ CreateGameThreads \/ Draw \/ ShowResult \/ JoinThreads)

GameNext == \E t \in GameThreads : ThreadStep(t)

\* The threads are scheduled, and the player presses keys, in the end q.  (Nobody
\* loops any more when running is cleared, so that the mutex needs to be no fairer.)
GameFairness ==
    /\ \A t \in GameThreads : WF_gameVars(ThreadStep(t))
    /\ SF_gameVars(program = "game" /\ (GetKey \/ LockPositions("keys")) /\ game_pc'["keys"] # "test")
    /\ SF_gameVars(program = "game" /\ PressQ)

GameSpec == GameInit /\ CourseTypeOK /\ [][GameNext /\ UNCHANGED courseVars]_<<gameVars, courseVars>>

-----------------------------------------------------------------------------
(* Properties *)

\* Whoever takes the mutex finds both inside the border, also when a key or a
\* random step led out of it, and at the start if the screen is large enough.
InsideBorders ==
    (pos_mtx = "free" /\ game_pc["main"] \notin {"place", "create"} /\ max_cols >= 5)
        => {ball_pos, x_pos} \subseteq Borders

\* "Bye!" only for those who gave up: won is set before running is cleared, as
\* main() reads won after running and without the mutex (main.c:84-85, 115-131).
ByeOnlyAfterQuit == shown = "Bye!" => quit

\* All threads end.
GameOver == \A t \in GameThreads : game_pc[t] = "exit"
=============================================================================
