---------------------------- MODULE BatchFilesMC ----------------------------
(* Small instances of BatchFiles for TLC: short files over a few kinds of      *)
(* lines, with batches that mix them, and longer files that fill the queues.   *)
EXTENDS BatchFiles

Input(name, size, param) ==
    LET elem == IF name = "x" THEN 2 ELSE 1
    IN  [name |-> name, size |-> size, elem |-> elem, length |-> size * elem,
         type |-> "FP32", param |-> param]

\* A datatype that nobody knows matters only in the first one
MCConvertible == {<<"FP32", {"FP32"}>>, <<"FP32", {"FP32", "unknown"}>>}

RequestLine(id, inputs) == [kind |-> "request", id |-> id, inputs |-> inputs]
Bad(kind) == [kind |-> kind, id |-> NoId, inputs |-> <<>>]

One == RequestLine(NoId, <<Input("x", 1, TRUE)>>)
Kinds == {
    One,                                                  \* one row
    RequestLine(NoId, <<Input("x", 2, FALSE)>>),                     \* two rows, no parameter
    RequestLine(1, <<Input("x", 1, TRUE)>>),                         \* with an id
    RequestLine(NoId, <<Input("x", 1, TRUE), Input("y", 1, TRUE)>>), \* two heads
    RequestLine(1, <<Input("y", 2, TRUE), Input("x", 2, TRUE)>>),    \* in the other order
    RequestLine(NoId, <<Input("x", 1, TRUE), Input("y", 2, TRUE)>>), \* heads of different sizes
    RequestLine(1, <<Input("x", 2, TRUE), Input("x", 1, TRUE)>>),    \* a head twice
    RequestLine(NoId, <<[Input("x", 1, TRUE) EXCEPT !.length = 3]>>),         \* too much data
    RequestLine(NoId, <<[Input("x", 1, TRUE) EXCEPT !.length = 1]>>),         \* too little
    RequestLine(NoId, <<[Input("x", 1, TRUE) EXCEPT !.elem = 1, !.length = 1]>>), \* narrower
    RequestLine(1, <<[Input("x", 1, TRUE) EXCEPT !.type = "unknown"]>>),      \* no datatype
    RequestLine(NoId, <<>>),                                         \* no inputs
    Bad("invalid"), Bad("garbled") }

Files(kinds, n) == [1..n -> kinds]
Setup(files, batchSize, workers, retries, faults) ==
    [file : files, batchSize : {batchSize}, workers : {workers}, retries : {retries},
     faults : {faults}]

MCSetups ==
    Setup(Files(Kinds, 3), 2, 2, 2, {"server"})
        \cup Setup(Files(Kinds, 3), 3, 1, 1, {})
        \cup Setup(Files({One}, 7), 1, 1, 1, {"open", "write", "answer", "server"})
        \cup Setup(Files({One, Bad("garbled")}, 5), 1, 2, 1, {"server"})
        \cup Setup(Files({One, Bad("invalid")}, 4), 2, 2, 0, {"open"})
=============================================================================
