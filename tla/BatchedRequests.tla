-------------------------- MODULE BatchedRequests --------------------------
(* Merging the requests of a batch into one and splitting the response among   *)
(* them: MLServer/mlserver/batching/requests.py with shape.py.  The adaptive   *)
(* batcher and the batch command line both work with it.                       *)
(*                                                                             *)
(* A request is [id, inputs], and an input, or "head", is                      *)
(* [name, size, elem, type, data, param]: by its shape size rows of elem       *)
(* numbers each, flattened into data, what else decides whether the data can   *)
(* be converted, and one parameter next to content_type and headers.  Requests *)
(* come in the order of the dict, with distinct ids.                           *)
EXTENDS Integers, SequencesExt

\* A parameter is absent, a string, or the list of the strings that were merged.  A string
\* is the sequence of its characters
NoParameter == [is |-> "none", values |-> <<>>]
Parameter(v) == [is |-> "one", values |-> <<v>>]

SumOf(sizes) == FoldLeft(LAMBDA x, y : x + y, 0, sizes)

\* The elements of s at some of its places, in their order
At(s, places) ==
    LET upTo[n \in 0..Len(s)] ==
            IF n = 0 THEN <<>>
            ELSE IF n \in places THEN Append(upTo[n - 1], s[n])
            ELSE upTo[n - 1]
    IN  upTo[Len(s)]

\* The keys of an OrderedDict into which the elements of s were put one by one
Keys(s) == At(s, {i \in DOMAIN s : \A j \in 1..i - 1 : s[j] # s[i]})

\* What Python takes for s[from : from + n]
Slice(s, from, n) == SubSeq(s, from + 1, IF from + n <= Len(s) THEN from + n ELSE Len(s))

----------------------------------------------------------------------------
(* Merging *)

Has(r, name) == \E j \in DOMAIN r.inputs : r.inputs[j].name = name

\* Of the inputs of a request with the same name the last one is kept
InputOf(r, name) == Last(At(r.inputs, {j \in DOMAIN r.inputs : r.inputs[j].name = name}))

\* inputs_index: the heads in the order they are first seen, and who has each
Heads(requests) ==
    Keys(FlattenSeq([i \in DOMAIN requests |->
        [j \in DOMAIN requests[i].inputs |-> requests[i].inputs[j].name]]))

Having(requests, name) == At(requests, {i \in DOMAIN requests : Has(requests[i], name)})

\* The parameters that are there
Given(params) == At(params, {i \in DOMAIN params : params[i].is # "none"})

LastParameters(params) ==     \* (mutant)
    LET given == Given(params)
    IN  IF given = <<>> THEN NoParameter ELSE Last(given)

\* Values that two or more requests have in common are collected in a list
MergeInputParameters(params) ==
    LET given == Given(params)
    IN  CASE Len(given) = 0 -> NoParameter
          [] Len(given) = 1 -> given[1]
          [] OTHER -> [is |-> "list",
                       values |-> FlattenSeq([i \in DOMAIN given |-> given[i].values])]

\* Shape and datatype are those of the first one
MergeRequestInputs(requests, name) ==
    LET having == Having(requests, name)
        inputs == [i \in DOMAIN having |-> InputOf(having[i], name)]
    IN  [name |-> name,
         size |-> SumOf([i \in DOMAIN inputs |-> inputs[i].size]),
         elem |-> Head(inputs).elem,
         type |-> Head(inputs).type,
         types |-> {inputs[i].type : i \in DOMAIN inputs},
         data |-> FlattenSeq([i \in DOMAIN inputs |-> inputs[i].data]),
         param |-> MergeInputParameters([i \in DOMAIN inputs |-> inputs[i].param])]

MergeRequests(requests) ==
    LET heads == Heads(requests)
    IN  [h \in DOMAIN heads |-> MergeRequestInputs(requests, heads[h])]

\* _minibatch_sizes: in the order of the heads; the last head of a request decides
MinibatchSizes(requests) ==
    LET heads == Heads(requests)
        order == Keys(FlattenSeq([h \in DOMAIN heads |-> Having(requests, heads[h])]))
        last(r) == Last(At(heads, {h \in DOMAIN heads : Has(r, heads[h])}))
    IN  [k \in DOMAIN order |->
            [id |-> order[k].id, size |-> InputOf(order[k], last(order[k])).size]]

----------------------------------------------------------------------------
(* Splitting.  An output is an input the model has worked on *)

\* The rows of those before the k-th
Before(sizes, k) == SumOf([j \in 1..k - 1 |-> sizes[j].size])

SplitDataByRows(output, sizes, k) ==     \* (mutant)
    Slice(output.data, Before(sizes, k), sizes[k].size * output.elem)

SplitData(output, sizes, k) ==
    Slice(output.data, Before(sizes, k) * output.elem, sizes[k].size * output.elem)

\* A parameter that is no list is taken apart into strings of one character
Values(p) ==
    IF p.is = "one" THEN [i \in DOMAIN p.values[1] |-> <<p.values[1][i]>>] ELSE p.values

SplitParameters(output, sizes, k) ==
    Slice(Values(output.param), Before(sizes, k), sizes[k].size)

\* One response for everyone who had an input, if the model gave any output
SplitResponse(requests, outputs) ==
    LET sizes == MinibatchSizes(requests)
    IN  [k \in IF outputs = <<>> THEN {} ELSE DOMAIN sizes |->
            [id |-> sizes[k].id,
             outputs |-> [j \in DOMAIN outputs |->
                            [name |-> outputs[j].name,
                             size |-> sizes[k].size,
                             data |-> SplitData(outputs[j], sizes, k),
                             params |-> SplitParameters(outputs[j], sizes, k)]]]]
=============================================================================
