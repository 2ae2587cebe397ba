----------------------------- MODULE BatchFiles -----------------------------
(* `mlserver infer`: MLServer/mlserver/batch_processing.py.  A producer reads  *)
(* a file of requests, one per line, in micro-batches; consumers send each     *)
(* batch to the server as one request; a finalizer writes what comes back.     *)
(* They are coroutines connected by two bounded queues.                        *)
EXTENDS BatchedRequests, FiniteSets, Bags

CONSTANTS
    Setups,     \* the command lines explored: [file, batchSize, workers, retries, faults]
    Convertible \* which inputs numpy and the client library can merge and convert: the
                \* type of the first one with the types of all

\* "server": a request fails;  "answer": a response cannot be taken apart
\* "write": a line cannot be written;  "open": the output file cannot be opened
FaultKinds == {"server", "answer", "write", "open"}

\* A line is a request, JSON that is not a request, or no JSON at all; param is whether
\* an input has a parameter, length the number of its data, and its type stands for its
\* datatype, the kind of its data and a shape that has no rows
Inputs == [name : STRING, size : Nat, elem : Nat, length : Nat, type : STRING, param : BOOLEAN]
Lines == [kind : {"request", "invalid", "garbled"}, id : Nat, inputs : Seq(Inputs)]

ASSUME SetupsAssumption ==
    \A s \in Setups :
        /\ s.file \in Seq(Lines)
        /\ s.batchSize \in Nat \ {0} /\ s.workers \in Nat \ {0} /\ s.retries \in Nat
        /\ s.faults \subseteq FaultKinds

VARIABLES
    setup,          \* the command line and the input file: they do not change
    main,           \* process_batch: what it awaits
    next,           \* the number of lines read
    queueIn,        \* the batches read
    unfinishedIn,   \* those for which task_done is still to be called
    worker,         \* the consumers
    queueOut,       \* the items to be written, by batch
    unfinishedOut,
    finalizer,      \* the finalizer and its file
    written         \* the lines of the output file, in any order

queues == <<queueIn, unfinishedIn, queueOut, unfinishedOut>>
vars == <<setup, main, next, queues, worker, finalizer, written>>

Workers == 1..setup.workers
QueueSize == 2 * setup.workers

Idle == [at |-> "idle", batch |-> <<>>, tries |-> 0, items |-> {}]

----------------------------------------------------------------------------
(* preprocess_items and postprocess_items.  A batch is a sequence of [index,   *)
(* line], and an item to be written [index, kind, outputs]                     *)

\* A line without an id gets one of its own.  No line of a file has a negative id
NoId == 0
IdOf(x) == IF x.line.id = NoId THEN -(x.index + 1) ELSE x.line.id

Of(batch, kind) == At(batch, {k \in DOMAIN batch : batch[k].line.kind = kind})

\* The parameter of a line: some text
Text(index) == <<"#", index>>

\* The data and the parameter of an input tell where they come from
Request(x) ==
    [id |-> IdOf(x), index |-> x.index,
     inputs |-> [j \in DOMAIN x.line.inputs |->
        LET input == x.line.inputs[j]
        IN  [name |-> input.name, size |-> input.size, elem |-> input.elem,
             type |-> input.type,
             data |-> [k \in 1..input.length |-> <<x.index, input.name, k>>],
             param |-> IF input.param THEN Parameter(Text(x.index)) ELSE NoParameter]]]

\* Of the lines with the same id the last one is kept
Requests(batch) ==
    LET lines == Of(batch, "request")
        ids == Keys([i \in DOMAIN lines |-> IdOf(lines[i])])
        last(id) == Last(At(lines, {i \in DOMAIN lines : IdOf(lines[i]) = id}))
    IN  [k \in DOMAIN ids |-> Request(last(ids[k]))]

\* from_inference_request: the data of every merged input are as many as its shape, that of
\* the first one, says, and of its datatype
Converts(inputs) ==
    \A m \in ToSet(inputs) : Len(m.data) = m.size * m.elem /\ <<m.type, m.types>> \in Convertible

Item(index, kind, outputs) == [index |-> index, kind |-> kind, outputs |-> outputs]

Invalid(batch) == {Item(x.index, "invalid", <<>>) : x \in ToSet(Of(batch, "invalid"))}

ErrorsForAll(batch) == {Item(x.index, "error", <<>>) : x \in ToSet(batch)}     \* (mutant)

\* One error for every request that was sent
Errors(batch) == {Item(r.index, "error", <<>>) : r \in ToSet(Requests(batch))}

\* The server's answer: it works on every input.  Parameters are not sent to it
Infer(inputs) == inputs

Answers(batch) ==
    LET requests == Requests(batch)
        outputs(o) == [j \in DOMAIN o |-> [name |-> o[j].name, size |-> o[j].size, data |-> o[j].data]]
        indexOf(id) == (CHOOSE r \in ToSet(requests) : r.id = id).index
    IN  {Item(indexOf(a.id), "answer", outputs(a.outputs)) :
            a \in ToSet(SplitResponse(requests, Infer(MergeRequests(requests))))}

\* The micro-batch of a file that the line with this index is in
BatchIn(s, index) ==
    At([k \in DOMAIN s.file |-> [index |-> k - 1, line |-> s.file[k]]],
       {k \in DOMAIN s.file : (k - 1) \div s.batchSize = index \div s.batchSize})

\* Worked out once for each batch
Batches == UNION {{BatchIn(s, k - 1) : k \in DOMAIN s.file} : s \in Setups}
AnswersTo == [batch \in Batches |-> Answers(batch)]
ErrorsTo == [batch \in Batches |-> Errors(batch)]

\* The batches for which preprocess_items does not raise
Preprocessed ==
    {batch \in Batches : Of(batch, "garbled") = <<>> /\ Converts(MergeRequests(Requests(batch)))}

----------------------------------------------------------------------------
(* process_batch and produce *)

Length == Len(setup.file)

\* The next micro-batch, or what is left of the file
Produce ==
    /\ main = "produce" /\ next < Length
    /\ Len(queueIn) < QueueSize
    /\ queueIn' = Append(queueIn, BatchIn(setup, next))
    /\ next' = IF next + setup.batchSize <= Length THEN next + setup.batchSize ELSE Length
    /\ unfinishedIn' = unfinishedIn + 1
    /\ UNCHANGED <<setup, main, queueOut, unfinishedOut, worker, finalizer, written>>

EndOfFile ==
    /\ main = "produce" /\ next = Length
    /\ main' = "joinIn"
    /\ UNCHANGED <<setup, next, queues, worker, finalizer, written>>

JoinInAtOnce ==     \* (mutant)
    /\ main = "joinIn"
    /\ main' = "joinOut"
    /\ UNCHANGED <<setup, next, queues, worker, finalizer, written>>

JoinIn ==
    /\ main = "joinIn" /\ unfinishedIn = 0
    /\ main' = "joinOut"
    /\ UNCHANGED <<setup, next, queues, worker, finalizer, written>>

\* The consumers and the finalizer are cancelled; what the finalizer raised is raised
JoinOut ==
    /\ main = "joinOut" /\ unfinishedOut = 0
    /\ main' = IF finalizer = "dead" THEN "raised" ELSE "done"
    /\ worker' = [w \in Workers |-> Idle]
    /\ UNCHANGED <<setup, next, queues, finalizer, written>>

----------------------------------------------------------------------------
(* consume and process_items *)

VanishUnfinished(w) ==     \* (mutant)
    /\ worker' = [worker EXCEPT ![w] = Idle]
    /\ UNCHANGED unfinishedIn

\* Nothing is written for a batch when processing it raises
Vanish(w) ==
    /\ worker' = [worker EXCEPT ![w] = Idle]
    /\ unfinishedIn' = unfinishedIn - 1

ToPut(w, items) == worker' = [worker EXCEPT ![w].at = "put", ![w].items = items]

\* The batch is taken and preprocessed: if a line is no JSON, or what was merged cannot be
\* converted, everything is dropped.  Without retries nothing is sent, and there is no
\* result to take apart
Get(w) ==
    /\ worker[w].at = "idle" /\ queueIn # <<>>
    /\ queueIn' = Tail(queueIn)
    /\ LET batch == Head(queueIn)
       IN  \/ /\ batch \notin Preprocessed
              /\ Vanish(w)
           \/ /\ batch \in Preprocessed /\ Of(batch, "invalid") = batch
              /\ worker' = [worker EXCEPT ![w] =
                              [Idle EXCEPT !.at = "put", !.batch = batch, !.items = Invalid(batch)]]
              /\ UNCHANGED unfinishedIn
           \/ /\ batch \in Preprocessed /\ Of(batch, "invalid") # batch
              /\ IF setup.retries = 0
                 THEN Vanish(w)
                 ELSE /\ worker' = [worker EXCEPT ![w] = [Idle EXCEPT !.at = "send", !.batch = batch]]
                      /\ UNCHANGED unfinishedIn
    /\ UNCHANGED <<setup, main, next, queueOut, unfinishedOut, finalizer, written>>

\* send_requests fails for good only at the last attempt
InferFails(w) ==
    /\ "server" \in setup.faults /\ worker[w].at = "send"
    /\ IF worker[w].tries + 1 = setup.retries
       THEN ToPut(w, ErrorsTo[worker[w].batch] \cup Invalid(worker[w].batch))
       ELSE worker' = [worker EXCEPT ![w].tries = @ + 1]
    /\ UNCHANGED <<setup, main, next, queues, finalizer, written>>

InferReturns(w) ==
    /\ worker[w].at = "send"
    /\ ToPut(w, AnswersTo[worker[w].batch] \cup Invalid(worker[w].batch))
    /\ UNCHANGED <<setup, main, next, queues, finalizer, written>>

\* postprocess_items raises, and output_items has no value
PostprocessRaises(w) ==
    /\ "answer" \in setup.faults /\ worker[w].at = "send"
    /\ Vanish(w)
    /\ UNCHANGED <<setup, main, next, queueIn, queueOut, unfinishedOut, finalizer, written>>

Put(w) ==
    /\ worker[w].at = "put"
    /\ Len(queueOut) < QueueSize
    /\ queueOut' = Append(queueOut, worker[w].items)
    /\ unfinishedOut' = unfinishedOut + 1
    /\ unfinishedIn' = unfinishedIn - 1
    /\ worker' = [worker EXCEPT ![w] = Idle]
    /\ UNCHANGED <<setup, main, next, queueIn, finalizer, written>>

----------------------------------------------------------------------------
(* finalize *)

Open ==
    /\ finalizer = "new" /\ main \notin {"done", "raised"}
    /\ finalizer' \in {"open"} \cup {f \in {"dead"} : "open" \in setup.faults}
    /\ UNCHANGED <<setup, main, next, queues, worker, written>>

\* What cannot be written is skipped
Write ==
    /\ finalizer = "open" /\ queueOut # <<>>
    /\ queueOut' = Tail(queueOut)
    /\ unfinishedOut' = unfinishedOut - 1
    /\ \E lost \in SUBSET Head(queueOut) :
          /\ "write" \in setup.faults \/ lost = {}
          /\ written' = written (+) SetToBag(Head(queueOut) \ lost)
    /\ UNCHANGED <<setup, main, next, queueIn, unfinishedIn, worker, finalizer>>

----------------------------------------------------------------------------
Init ==
    /\ setup \in Setups
    /\ main = "produce" /\ next = 0
    /\ queueIn = <<>> /\ unfinishedIn = 0
    /\ worker = [w \in Workers |-> Idle]
    /\ queueOut = <<>> /\ unfinishedOut = 0
    /\ finalizer = "new"
    /\ written = EmptyBag

Main == Produce \/ EndOfFile \/ JoinIn \/ JoinOut
Consume(w) == Get(w) \/ InferFails(w) \/ InferReturns(w) \/ PostprocessRaises(w) \/ Put(w)
Finalize == Open \/ Write

Next == Main \/ (\E w \in Workers : Consume(w)) \/ Finalize

Spec == Init /\ [][Next]_vars

\* The coroutines get their turn, and the server answers or fails
Fairness ==
    /\ WF_vars(Main) /\ WF_vars(Finalize)
    /\ WF_vars(\E w \in Workers : Consume(w))

FairSpec == Spec /\ Fairness

----------------------------------------------------------------------------
(* Properties *)

BatchOf(i) == BatchIn(setup, i)
Line(i) == setup.file[i + 1]

\* No line of the input has two lines in the output, and only those that are no requests
\* are reported to be invalid
WrittenOnce ==
    \A item \in BagToSet(written) :
        /\ written[item] = 1
        /\ \A other \in BagToSet(written) : other.index = item.index => other = item
        /\ item.index \in 0..Length - 1
        /\ item.kind = "invalid" <=> Line(item.index).kind = "invalid"

\* What is lost without a word: a batch with a line that is no JSON, or with lines whose
\* inputs of one name cannot be converted when they are merged, a line whose id is that of
\* a later one of its batch, one with no inputs that reaches the server and, when nothing
\* is sent, every line of a batch with a request
Reported(i) ==
    LET batch == BatchOf(i)
    IN  /\ batch \in Preprocessed
        /\ setup.retries > 0 \/ Requests(batch) = <<>>
        /\ \/ Line(i).kind = "invalid"
           \/ /\ \E r \in ToSet(Requests(batch)) : r.index = i
              /\ Line(i).inputs # <<>>

\* When the command has ended, every other line of the file has its line in the output
NothingVanishes ==
    main = "done" /\ setup.faults \cap {"answer", "write"} = {} =>
        \A i \in 0..Length - 1 : Reported(i) =>
            \E item \in BagToSet(written) : item.index = i

\* The requests have the same inputs, of the same shape but for the number of rows, and
\* data that fit it; each has the same rows in all of them, and no two of the same name
Uniform(requests) ==
    /\ \A r, s \in ToSet(requests) : \A j \in DOMAIN r.inputs : \E k \in DOMAIN s.inputs :
          s.inputs[k].name = r.inputs[j].name /\ s.inputs[k].elem = r.inputs[j].elem
    /\ \A r \in ToSet(requests) : \A j, k \in DOMAIN r.inputs :
          /\ Len(r.inputs[j].data) = r.inputs[j].size * r.inputs[j].elem
          /\ r.inputs[j].size = r.inputs[k].size
          /\ r.inputs[j].name = r.inputs[k].name => j = k

\* A line gets the server's answer to its own request, the one it would have got alone
OwnAnswer ==
    \A item \in BagToSet(written) :
        LET requests == Requests(BatchOf(item.index))
            own == CHOOSE r \in ToSet(requests) : r.index = item.index
        IN  item.kind = "answer" /\ Uniform(requests) =>
                {<<o.name, o.size, o.data>> : o \in ToSet(item.outputs)}
                    = {<<o.name, o.size, o.data>> : o \in ToSet(Infer(own.inputs))}

\* If a model hands the parameters of its inputs on, every request gets back its own,
\* when there are at least two requests, of one row each, and all have one
OwnParameters ==
    \A w \in Workers :
        LET requests == Requests(worker[w].batch)
            answers == SplitResponse(requests, MergeRequests(requests))
        IN  /\ Len(requests) > 1 /\ Uniform(requests)
            /\ \A r \in ToSet(requests) : \A j \in DOMAIN r.inputs :
                  r.inputs[j].size = 1 /\ r.inputs[j].param.is = "one"
            => \A a \in ToSet(answers) : \A r \in ToSet(requests) : a.id = r.id =>
                  \A j \in DOMAIN a.outputs : a.outputs[j].params = <<Text(r.index)>>

\* The command ends, unless the output file could not be opened
Ends == <>(main = "done" \/ finalizer = "dead")
=============================================================================
