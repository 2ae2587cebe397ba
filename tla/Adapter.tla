------------------------------ MODULE Adapter ------------------------------
(* The adaptation loop of one pipeline: optimizer/adapter.py.  Every interval *)
(* it asks the optimizer for candidate configurations, picks the one closest  *)
(* to what runs, and writes it to the Kubernetes objects of the nodes (and of *)
(* their central queues) with one thread per node.  Meanwhile the operator    *)
(* writes the status of the same objects, API calls fail, and the experiment  *)
(* runner deletes the pipeline.                                               *)
EXTENDS Naturals, Sequences, FiniteSets

CONSTANTS
    Nodes,          \* node_names: the stages of the pipeline
    Variants,       \* model variants
    Sizes,          \* replicas and cpu of a node, taken together
    Batches,        \* batch sizes
    InitialConfig,  \* what the pipeline was deployed with
    Candidates,     \* what the optimizer may answer: sets of candidate lists
    CentralQueue,   \* central_queue
    FaultSets,      \* the combinations of FaultKinds explored
    MaxSteps        \* bound on the adaptation steps explored with each of them

\* "status": the operator writes an object between our get and our replace
\* "api": a call fails for another reason;  "teardown": remove_pipeline runs
FaultKinds == {"status", "api", "teardown"}

NodeConfig == [variant : Variants, size : Sizes, batch : Batches]
Config == [Nodes -> NodeConfig]

ASSUME AdapterAssumption ==
    /\ IsFiniteSet(Nodes)
    /\ CentralQueue \in BOOLEAN
    /\ FaultSets \subseteq SUBSET FaultKinds
    /\ MaxSteps \in [FaultSets -> Nat]
    /\ 1 \in Batches
    /\ InitialConfig \in Config
    /\ Candidates \subseteq Seq(Config) \ {<<>>}

VARIABLES
    pc,           \* where start_adaptation is
    timestep,
    candidates,   \* new_configs
    toApply,      \* to_apply_config, or NoConfig
    results,      \* config_change_results, Unbound before the first assignment
    report,       \* the last step report: the saved config and the flags
    before,       \* history: the pipeline as this step read it
    worker,       \* the change_node_config thread of each node
    deployment,   \* the SeldonDeployment of each node
    queue,        \* the max batch size in the SeldonDeployment of its queue
    gone,         \* deleted objects
    routerUp,     \* the router's pods exist
    faults        \* what may go wrong in this behaviour: one of FaultSets

mainVars == <<pc, timestep, candidates, toApply, results, report, before>>
clusterVars == <<deployment, queue, gone, routerUp, faults>>
vars == <<mainVars, worker, clusterVars>>

\* None, and a name that was never assigned
NoConfig == <<>>
Unbound == <<>>

Kinds == IF CentralQueue THEN {"node", "queue"} ELSE {"node"}
Objects == Nodes \X Kinds

----------------------------------------------------------------------------
(* Reading and choosing configurations *)

Batch(n) == IF CentralQueue THEN queue[n] ELSE deployment[n].batch

\* extract_current_config, when every object is there to be read
CurrentConfig ==
    [n \in Nodes |-> [variant |-> deployment[n].variant, size |-> deployment[n].size,
                      batch |-> Batch(n)]]

CanRead == gone = {}
ReadMayFail == gone # {} \/ "api" \in faults

\* How many variants and batch sizes a configuration changes
Changes(new, current) ==
    Cardinality({n \in Nodes : new[n].variant # current[n].variant})
      + Cardinality({n \in Nodes : new[n].batch # current[n].batch})

\* The first candidate with the fewest changes
ChooseIndex(new, current) ==
    CHOOSE i \in DOMAIN new : \A j \in DOMAIN new :
        /\ Changes(new[i], current) <= Changes(new[j], current)
        /\ Changes(new[i], current) = Changes(new[j], current) => i <= j

----------------------------------------------------------------------------
(* start_adaptation *)

Save(config) == [config |-> config, changed |-> [n \in Nodes |-> FALSE]]

\* The pipeline was found: its configuration opens the report
StartAdaptation ==
    /\ pc = "startup" /\ routerUp
    /\ \/ CanRead /\ report' = Save(CurrentConfig) /\ pc' = "sleep"
       \/ ReadMayFail /\ pc' = "crashed" /\ UNCHANGED report
    /\ UNCHANGED <<timestep, candidates, toApply, results, before, worker, clusterVars>>

\* (mutant) the loop goes on for as long as an object is left
AbortWhenAllGone ==
    /\ pc \in {"sleep", "check"} /\ ~routerUp /\ gone = Objects
    /\ pc' = "finished"
    /\ UNCHANGED <<timestep, candidates, toApply, results, report, before, worker,
                   clusterVars>>

\* The interval is over and the pipeline is gone: the loop is left
Abort ==
    /\ pc \in {"sleep", "check"} /\ ~routerUp
    /\ pc' = "finished"
    /\ UNCHANGED <<timestep, candidates, toApply, results, report, before, worker,
                   clusterVars>>

\* Monitoring has no data: the step ends here
NoLoadData ==
    /\ pc = "sleep" /\ routerUp /\ timestep < MaxSteps[faults]
    /\ timestep' = timestep + 1
    /\ UNCHANGED <<pc, candidates, toApply, results, report, before, worker, clusterVars>>

\* The optimizer finds candidates
Optimize ==
    /\ pc = "sleep" /\ routerUp /\ timestep < MaxSteps[faults]
    /\ timestep' = timestep + 1
    /\ candidates' \in Candidates
    /\ pc' = "check"
    /\ UNCHANGED <<toApply, results, report, before, worker, clusterVars>>

\* The optimizer finds no feasible solution
NoSolution ==
    /\ pc = "sleep" /\ routerUp /\ timestep < MaxSteps[faults]
    /\ timestep' = timestep + 1
    /\ pc' = "keep"
    /\ UNCHANGED <<candidates, toApply, results, report, before, worker, clusterVars>>

KeepCurrent ==
    \/ CanRead /\ toApply' = CurrentConfig /\ before' = CurrentConfig /\ pc' = "report"
    \/ ReadMayFail /\ pc' = "finished" /\ UNCHANGED <<toApply, before>>

\* (mutant) nothing is assigned to config_change_results
KeepConfigUnbound ==
    /\ pc = "keep"
    /\ KeepCurrent
    /\ UNCHANGED <<timestep, candidates, results, report, worker, clusterVars>>

\* The pipeline stays the same; a read that fails ends the loop
KeepConfig ==
    /\ pc = "keep"
    /\ results' = [n \in Nodes |-> FALSE]
    /\ KeepCurrent
    /\ UNCHANGED <<timestep, candidates, report, worker, clusterVars>>

\* Is the pipeline still up, now that the optimizer has answered?
StillUp ==
    /\ pc = "check" /\ routerUp
    /\ pc' = "choose"
    /\ UNCHANGED <<timestep, candidates, toApply, results, report, before, worker,
                   clusterVars>>

Worker(at) == [at |-> at, attempt |-> 0, fresh |-> {}, result |-> FALSE]

\* choose_config, and the thread pool of change_pipeline_config
ChooseConfig ==
    /\ pc = "choose" /\ CanRead
    /\ toApply' = candidates[ChooseIndex(candidates, CurrentConfig)]
    /\ before' = CurrentConfig
    /\ worker' = [n \in Nodes |-> Worker("getNode")]
    /\ pc' = "change"
    /\ UNCHANGED <<timestep, candidates, results, report, clusterVars>>

\* choose_config catches the ApiException of its reads and returns None: nothing
\* is changed and config_change_results keeps its value
NothingToChoose ==
    /\ pc = "choose" /\ ReadMayFail
    /\ toApply' = NoConfig
    /\ pc' = "report"
    /\ UNCHANGED <<timestep, candidates, results, report, before, worker, clusterVars>>

\* All threads ended; the first exception of one of them is raised again here
JoinWorkers ==
    /\ pc = "change"
    /\ \A n \in Nodes : worker[n].at \in {"returned", "raised"}
    /\ IF \E n \in Nodes : worker[n].at = "raised"
       THEN pc' = "crashed" /\ UNCHANGED results
       ELSE pc' = "report" /\ results' = [n \in Nodes |-> worker[n].result]
    /\ worker' = [n \in Nodes |-> Worker("idle")]
    /\ UNCHANGED <<timestep, candidates, toApply, report, before, clusterVars>>

\* (mutant) the first candidate is saved, not the chosen one
ReportFirstCandidate ==
    /\ pc = "report" /\ results # Unbound /\ candidates # <<>>
    /\ report' = [config |-> candidates[1], changed |-> results]
    /\ pc' = "sleep"
    /\ UNCHANGED <<timestep, candidates, toApply, results, before, worker, clusterVars>>

\* adaptation_step_report; without a new configuration the last one is saved
Report ==
    /\ pc = "report"
    /\ IF results = Unbound
       THEN pc' = "crashed" /\ UNCHANGED report
       ELSE /\ report' = [config |-> IF toApply = NoConfig THEN report.config ELSE toApply,
                          changed |-> results]
            /\ pc' = "sleep"
    /\ UNCHANGED <<timestep, candidates, toApply, results, before, worker, clusterVars>>

Main == StartAdaptation \/ Abort \/ NoLoadData \/ Optimize \/ NoSolution \/ KeepConfig
          \/ StillUp \/ ChooseConfig \/ NothingToChoose \/ JoinWorkers \/ Report

----------------------------------------------------------------------------
(* change_node_config: one thread per node.  A body that was read before the  *)
(* last write of its object carries an old resourceVersion and is refused.    *)

Desired(n) == [variant |-> toApply[n].variant, size |-> toApply[n].size, batch |-> 1]

Exists(n, kind) == <<n, kind>> \notin gone

\* A call of the Kubernetes API that is due may fail
CallFails(n, kind) == ~Exists(n, kind) \/ "api" \in faults

GetNode(n) ==
    /\ worker[n].at = "getNode"
    /\ Exists(n, "node")
    /\ worker' = [worker EXCEPT ![n].fresh = {"node"},
                               ![n].at = IF CentralQueue THEN "getQueue" ELSE "replaceNode"]
    /\ UNCHANGED <<mainVars, clusterVars>>

\* (mutant) the node is read again instead of its queue
GetNodeTwice(n) ==
    /\ worker[n].at = "getQueue"
    /\ Exists(n, "queue")
    /\ worker' = [worker EXCEPT ![n].fresh = @ \cup {"node"}, ![n].at = "replaceNode"]
    /\ UNCHANGED <<mainVars, clusterVars>>

GetQueue(n) ==
    /\ worker[n].at = "getQueue"
    /\ Exists(n, "queue")
    /\ worker' = [worker EXCEPT ![n].fresh = @ \cup {"queue"}, ![n].at = "replaceNode"]
    /\ UNCHANGED <<mainVars, clusterVars>>

\* The reads are outside the try block
GetFails(n) ==
    /\ \/ worker[n].at = "getNode" /\ CallFails(n, "node")
       \/ worker[n].at = "getQueue" /\ CallFails(n, "queue")
    /\ worker' = [worker EXCEPT ![n].at = "raised"]
    /\ UNCHANGED <<mainVars, clusterVars>>

\* A replace that changes nothing keeps the resourceVersion of the body valid
StillFresh(n, kind, unchanged) == IF unchanged THEN worker[n].fresh
                                  ELSE worker[n].fresh \ {kind}

\* (mutant) return True comes before the queue is replaced
ReplaceNodeAndReturn(n) ==
    /\ worker[n].at = "replaceNode"
    /\ Exists(n, "node") /\ "node" \in worker[n].fresh
    /\ deployment' = [deployment EXCEPT ![n] = Desired(n)]
    /\ worker' = [worker EXCEPT ![n].at = "returned", ![n].result = TRUE]
    /\ UNCHANGED <<mainVars, queue, gone, routerUp, faults>>

ReplaceNode(n) ==
    /\ worker[n].at = "replaceNode"
    /\ Exists(n, "node") /\ "node" \in worker[n].fresh
    /\ deployment' = [deployment EXCEPT ![n] = Desired(n)]
    /\ worker' = [worker EXCEPT
            ![n].fresh = StillFresh(n, "node", deployment[n] = Desired(n)),
            ![n].at = IF CentralQueue THEN "replaceQueue" ELSE "returned",
            ![n].result = ~CentralQueue]
    /\ UNCHANGED <<mainVars, queue, gone, routerUp, faults>>

ReplaceQueue(n) ==
    /\ worker[n].at = "replaceQueue"
    /\ Exists(n, "queue") /\ "queue" \in worker[n].fresh
    /\ queue' = [queue EXCEPT ![n] = toApply[n].batch]
    /\ worker' = [worker EXCEPT ![n].at = "returned", ![n].result = TRUE]
    /\ UNCHANGED <<mainVars, deployment, gone, routerUp, faults>>

\* (mutant) for as long as it takes
RetryForever(n) ==
    worker' = [worker EXCEPT ![n].at = "replaceNode"]

\* `for _ in range(3)` starts over with the node, and gives up in its else branch
Retry(n) ==
    worker' = [worker EXCEPT
        ![n].attempt = @ + 1,
        ![n].at = IF worker[n].attempt < 2 THEN "replaceNode" ELSE "returned"]

\* Refused, or failed for another reason
ReplaceFails(n) ==
    /\ \E kind \in Kinds :
          /\ worker[n].at = (IF kind = "node" THEN "replaceNode" ELSE "replaceQueue")
          /\ CallFails(n, kind) \/ kind \notin worker[n].fresh
    /\ Retry(n)
    /\ UNCHANGED <<mainVars, clusterVars>>

ChangeNodeConfig(n) == GetNode(n) \/ GetQueue(n) \/ GetFails(n) \/ ReplaceNode(n)
                         \/ ReplaceQueue(n) \/ ReplaceFails(n)

----------------------------------------------------------------------------
(* The cluster around the adapter *)

\* The operator writes the status of an object: a body read before is stale
UpdateStatus(n, kind) ==
    /\ "status" \in faults
    /\ kind \in worker[n].fresh
    /\ worker' = [worker EXCEPT ![n].fresh = @ \ {kind}]
    /\ UNCHANGED <<mainVars, clusterVars>>

\* remove_pipeline deletes every object; the router's pods end in their own time
DeleteObject(o) ==
    /\ "teardown" \in faults /\ o \notin gone
    /\ gone' = gone \cup {o}
    /\ UNCHANGED <<mainVars, worker, deployment, queue, routerUp, faults>>

RouterEnds ==
    /\ "teardown" \in faults /\ routerUp
    /\ routerUp' = FALSE
    /\ UNCHANGED <<mainVars, worker, deployment, queue, gone, faults>>

Cluster == \/ \E n \in Nodes, kind \in Kinds : UpdateStatus(n, kind)
           \/ \E o \in Objects : DeleteObject(o)
           \/ RouterEnds

----------------------------------------------------------------------------
Init ==
    /\ pc = "startup"
    /\ timestep = 0
    /\ candidates = <<>>
    /\ toApply = NoConfig
    /\ results = Unbound
    /\ report = <<>>
    /\ before = NoConfig
    /\ worker = [n \in Nodes |-> Worker("idle")]
    /\ deployment = [n \in Nodes |->
            [variant |-> InitialConfig[n].variant, size |-> InitialConfig[n].size,
             batch |-> IF CentralQueue THEN 1 ELSE InitialConfig[n].batch]]
    /\ queue = [n \in Nodes |-> InitialConfig[n].batch]
    /\ gone = {}
    /\ routerUp = TRUE
    /\ faults \in FaultSets

Next == Main \/ Cluster \/ \E n \in Nodes : ChangeNodeConfig(n)

\* The main thread and the node threads run; nothing makes the cluster act
Fairness == WF_vars(Main) /\ \A n \in Nodes : WF_vars(ChangeNodeConfig(n))

Spec == Init /\ [][Next]_vars
FairSpec == Spec /\ Fairness

----------------------------------------------------------------------------
(* Properties *)

TypeOK ==
    /\ pc \in {"startup", "sleep", "check", "choose", "keep", "change", "report",
               "finished", "crashed"}
    /\ timestep \in 0..MaxSteps[faults]
    /\ candidates \in Candidates \cup {<<>>}
    /\ toApply \in Config \cup {NoConfig}
    /\ results \in [Nodes -> BOOLEAN] \cup {Unbound}
    /\ report \in [config : Config, changed : [Nodes -> BOOLEAN]] \cup {<<>>}
    /\ before \in Config \cup {NoConfig}
    /\ worker \in [Nodes -> [at : {"idle", "getNode", "getQueue", "replaceNode",
                                   "replaceQueue", "returned", "raised"},
                             attempt : 0..3, fresh : SUBSET Kinds, result : BOOLEAN]]
    /\ deployment \in [Nodes -> NodeConfig]
    /\ queue \in [Nodes -> Batches]
    /\ gone \subseteq Objects
    /\ routerUp \in BOOLEAN
    /\ faults \in FaultSets

NewResults == pc = "report" /\ toApply # NoConfig /\ results # Unbound

\* The docstring of change_pipeline_config, "change the existing configuration
\* based on the optimizer output": a node reported as changed runs the chosen
\* variant, size and batch size, whatever conflicts and retries it took
SuccessMeansApplied ==
    NewResults => \A n \in Nodes : results[n] => CurrentConfig[n] = toApply[n]

\* "change couldn't take place after 3 retries": a node reported as not changed
\* is as choose_config saw it
FailureMeansUnchanged ==
    NewResults =>
        \A n \in Nodes : ~results[n] => CurrentConfig[n] = before[n]

\* The report that is logged for a step says what runs
ReportedConfigRuns ==
    [][report' # report =>
         \A n \in Nodes : report'.changed[n] => CurrentConfig[n] = report'.config[n]]_vars

\* Without interference the pipeline moves as a whole: every node and every queue
\* has the chosen configuration when the step is reported
PipelineMoves ==
    faults = {} /\ pc = "report" /\ toApply # NoConfig => CurrentConfig = toApply

\* As long as no call fails for other reasons than a conflict and nobody deletes
\* the pipeline, no exception ends the loop: the runner gets to write the report
OrderlyEnd == faults \subseteq {"status"} => pc # "crashed"

\* A step that has begun to change nodes ends, however often calls fail
ChangeEnds == pc = "change" ~> pc # "change"

\* Once the pipeline is gone the adaptation process ends
EndsWithPipeline == ~routerUp ~> pc \in {"startup", "finished", "crashed"}
=============================================================================
