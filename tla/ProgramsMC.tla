----------------------------- MODULE ProgramsMC -----------------------------
(***************************************************************************)
(* Small instances of the programs: values for the constants of Programs.  *)
(***************************************************************************)
EXTENDS Programs

\* Up to four numbers; a -1 among them; and what a killed run left: a number, a
\* -1, or both.
SmallQueueRuns ==
    (UNION {[1 .. n -> {2, 4, 9}] : n \in 0 .. 4} \cup {<<2, -1, 9, 2>>}) \X {<<>>}
       \cup {<<>>, <<2>>, <<9, 2, 2>>} \X {<<2>>, <<-1>>, <<4, -1>>}

U(w) == <<w, "SIGUSR1">>
V(w) == <<w, "SIGUSR2">>

\* Nothing; one command for each, two in a row, and every kind of line that is skipped.
SmallCommandFiles == {
    <<>>,
    << <<>>, V("worker2")>>,
    <<U("worker1"), V("worker1")>>,
    <<U("worker2"), U("worker2"), V("worker1")>>,
    <<V("worker1"), <<"worker1">>, U("worker2")>>,
    <<U("worker2"), U("worker3"), <<"worker1", "SIGHUP">> >> }

SmallTestRuns == << <<3, 0>>, <<1, 1>>, <<2, 3>>, <<1, 2>> >>
SmallOriginals == UNION {[1 .. n -> {0, 2}] : n \in 0 .. 9}

SmallArrays == UNION {[0 .. n - 1 -> {-1, 0, 1, 3, 7}] : n \in 1 .. 4}

\* A first block of one page and a second of two; the others at pages 4 and 6.
SmallSizes == [b \in 0 .. 3 |-> IF b = 1 THEN 2 ELSE 1]
SmallFixed == [b \in 2 .. 3 |-> 2 * b]

\* 10 is the newline; 7 and 13 become 10 and 0; the last line is too long.
SmallLines == {<<>>, <<10>>, <<1, 2, 10>>, <<1, 7, 2>>, <<13, 1, 10>>, <<1, 2, 3, 4>>}

\* Around a second, a minute, an hour, a day, and more than two days.
SmallUptimes ==
    {0, 1, 99, 100, 5999, 6000, 359999, 360000, 8639999, 8640000, 20000000} \X {0, 5, 20000000}
=============================================================================
