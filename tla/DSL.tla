--------------------------------- MODULE DSL ---------------------------------
(***************************************************************************)
(* dsl/workflow.go: an interpreter of workflows written as trees.  A       *)
(* sequence executes its elements one after the other, a parallel block    *)
(* all of its branches at once, and the activities pass values to each     *)
(* other through one map of bindings.                                      *)
(***************************************************************************)
EXTENDS Naturals, Sequences, FiniteSets

CONSTANT Workflows  \* the workflows that the interpreter may be given

VARIABLES
    dslWorkflow,  \* the tree that is interpreted
    bindings,     \* the names that are bound
    invoked,      \* the activities: their state, and what they were given
    dslOutcome

dslVars == <<dslWorkflow, bindings, invoked, dslOutcome>>

\* A workflow has its statements by number, the root first; a statement has
\* its kind and the statements directly under it, an activity the names of its
\* arguments and of its result, which is not bound if it is empty.
InSequence(ns) == [kind |-> "sequence", parts |-> ns]
InParallel(ns) == [kind |-> "parallel", parts |-> ns]
ActivityInvocation(as, r) == [kind |-> "activity", Arguments |-> as, Result |-> r]

workflow1 ==
    [Variables |-> {"arg1", "arg2"},
     Statements |->
        <<InSequence(<<2, 3, 4>>),
          ActivityInvocation({"arg1"}, "result1"),
          ActivityInvocation({"result1"}, "result2"),
          ActivityInvocation({"arg2", "result2"}, "result3")>>]
workflow2 ==
    [Variables |-> {"arg1", "arg2", "arg3"},
     Statements |->
        <<InSequence(<<2, 3, 10>>),
          ActivityInvocation({"arg1"}, "result1"),
          InParallel(<<4, 7>>),
          InSequence(<<5, 6>>),
          ActivityInvocation({"result1"}, "result2"),
          ActivityInvocation({"arg2", "result2"}, "result3"),
          InSequence(<<8, 9>>),
          ActivityInvocation({"result1"}, "result4"),
          ActivityInvocation({"arg3", "result4"}, "result5"),
          ActivityInvocation({"result3", "result5"}, "result6")>>]

SampleWorkflows == {workflow1, workflow2}

Nodes(w) == DOMAIN w.Statements
ActivitiesOf(w) == {n \in Nodes(w) : w.Statements[n].kind = "activity"}
PartsOf(w, n) ==
    IF n \in ActivitiesOf(w) THEN {}
    ELSE {w.Statements[n].parts[i] : i \in DOMAIN w.Statements[n].parts}

\* The statements of each subtree: those in every set that has its root and,
\* with a statement, the ones directly under it.
HasParts(w, ns) == \A n \in ns : PartsOf(w, n) \subseteq ns
Subtree ==
    [w \in Workflows |-> [r \in Nodes(w) |->
        {n \in Nodes(w) : \A ns \in SUBSET Nodes(w) :
                             r \in ns /\ HasParts(w, ns) => n \in ns}]]

IsTree(w) ==
    LET blocks == Nodes(w) \ ActivitiesOf(w)
        parts(n) == w.Statements[n].parts
    IN  /\ 1 \in Nodes(w) /\ Subtree[w][1] = Nodes(w)
        /\ \A n \in blocks : parts(n) \in Seq(Nodes(w) \ {1})
        /\ \A m, n \in blocks : \A i \in DOMAIN parts(m), j \in DOMAIN parts(n) :
              parts(m)[i] = parts(n)[j] => m = n /\ i = j

ASSUME WorkflowsAreTrees == \A w \in Workflows : IsTree(w)

Statements == dslWorkflow.Statements
Invocations == ActivitiesOf(dslWorkflow)
Under(n) == Subtree[dslWorkflow][n]

NotInvoked == [state |-> "none", given |-> {}]

DSLInit ==
    /\ dslWorkflow \in Workflows
    /\ bindings = dslWorkflow.Variables
    /\ invoked = [n \in Invocations |-> NotInvoked]
    /\ dslOutcome = "running"

-----------------------------------------------------------------------------
\* A statement has executed without an error; one has returned an error.  A
\* parallel block returns the error of a branch without waiting for the others.
Done(n) == \A a \in Under(n) \cap Invocations : invoked[a].state = "ok"
Failed(n) == \E a \in Under(n) \cap Invocations : invoked[a].state = "error"

\* Mutant of Earlier: a sequence does not wait for the element before.
EarlierButOne(n, i) == {Statements[n].parts[j] : j \in 1..(i - 2)}

\* The execute of a statement has been called: in every sequence that it is
\* under, what comes earlier is done.
Earlier(n, i) == {Statements[n].parts[j] : j \in 1..(i - 1)}
Called(n) ==
    \A m \in DOMAIN Statements \ Invocations : \A i \in DOMAIN Statements[m].parts :
        Statements[m].kind = "sequence" /\ n \in Under(Statements[m].parts[i])
            => \A e \in Earlier(m, i) : Done(e)

Executable == {n \in Invocations : Called(n) /\ invoked[n].state = "none"}

\* makeInput: a name that is not bound gives the empty string.
makeInput(n) == Statements[n].Arguments \cap bindings

\* A decision: every activity that can be is executed.
ExecuteReady ==
    /\ dslOutcome = "running"
    /\ ~Failed(1)
    /\ Executable # {}
    /\ invoked' = [n \in Invocations |->
                      IF n \in Executable
                      THEN [state |-> "scheduled", given |-> makeInput(n)] ELSE invoked[n]]
    /\ UNCHANGED <<dslWorkflow, bindings, dslOutcome>>

\* An activity ends; its result is bound if it has one.
ResultOf(w, n) == {w.Statements[n].Result} \ {""}
EndInvocation(n) ==
    /\ dslOutcome = "running"
    /\ invoked[n].state = "scheduled"
    /\ \/ /\ invoked' = [invoked EXCEPT ![n].state = "ok"]
          /\ bindings' = bindings \union ResultOf(dslWorkflow, n)
       \/ /\ invoked' = [invoked EXCEPT ![n].state = "error"]
          /\ UNCHANGED bindings
    /\ UNCHANGED <<dslWorkflow, dslOutcome>>

\* simpleDSLWorkflow returns.
ReturnDSL ==
    /\ dslOutcome = "running"
    /\ \/ Failed(1) /\ dslOutcome' = "failed"
       \/ Done(1) /\ dslOutcome' = "completed"
    /\ UNCHANGED <<dslWorkflow, bindings, invoked>>

DSLNext == ExecuteReady \/ (\E n \in Invocations : EndInvocation(n)) \/ ReturnDSL

DSLSpec == DSLInit /\ [][DSLNext]_dslVars

-----------------------------------------------------------------------------
DSLTypeOK ==
    /\ dslWorkflow \in Workflows
    /\ DOMAIN invoked = Invocations
    /\ \A n \in Invocations :
          invoked[n] \in [state : {"none", "scheduled", "ok", "error"},
                         given : SUBSET Statements[n].Arguments]
    /\ dslOutcome \in {"running", "completed", "failed"}

\* The activities of w that come before n, in a sequence that both are under,
\* and the names that are bound for n whatever runs beside it.
Before(w, n) ==
    {a \in ActivitiesOf(w) :
        \E m \in Nodes(w) \ ActivitiesOf(w) :
            /\ w.Statements[m].kind = "sequence"
            /\ \E i, j \in DOMAIN w.Statements[m].parts :
                  /\ i < j
                  /\ a \in Subtree[w][w.Statements[m].parts[i]]
                  /\ n \in Subtree[w][w.Statements[m].parts[j]]}
Known(w, n) == w.Variables \union UNION {ResultOf(w, a) : a \in Before(w, n)}

\* A workflow that uses no result before it must be there.
BindsInOrder(w) == \A n \in ActivitiesOf(w) : w.Statements[n].Arguments \subseteq Known(w, n)

\* Every activity of a workflow that binds in order is given a value for each
\* of its arguments, in whatever order the branches before it run and end; and
\* a workflow that completes has run all of its activities.
ArgumentsBound ==
    /\ BindsInOrder(dslWorkflow) =>
          \A n \in Invocations :
             invoked[n].state # "none" => invoked[n].given = Statements[n].Arguments
    /\ dslOutcome = "completed" => \A n \in Invocations : invoked[n].state = "ok"
=============================================================================
