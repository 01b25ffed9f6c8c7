--------------------------- MODULE MCTestProcess ---------------------------
(* Small queues and command lines for the model checking of TestProcess.   *)
EXTENDS TestProcess

MCQueues == {
    <<>>,
    <<{"heap"}, {"heap"}>>,
    <<{"failed", "exception"}, {"exception", "failed"}, {}>>,
    <<{"compiler", "failed"}, {"compiler"}>>}

MCCommandLines == {
    <<>>,
    <<"--input", "a.i", "--output", "a.bc">>,
    <<"-o", "b.bc", "--trace", "lexer">>,
    <<"--input", "a.i", "word">>,
    <<"--input", "stdin", "-o", "stdout">>,
    <<"--output", "a.bc", "--output", "b.bc">>,
    <<"--output", "a.bc", "--input", "missing">>,
    <<"--input", "a.i", "--output">>,
    <<"--help">>, <<"--unknown">>}
=============================================================================
