----------------------------- MODULE Delegation -----------------------------
(***************************************************************************)
(* One task's delegations as L7's loop and the L8 seam drive them          *)
(* (src/harness/orchestration/loop.go and delegation.go, delegation/seam): *)
(* instantiate inside L4's executor, audit, compose again, store, ask the  *)
(* model once, witness.  The registry's directory and the instruction      *)
(* roots may change under the task, objects may go missing, and an         *)
(* instantiation that timed out runs on.                                   *)
(***************************************************************************)
EXTENDS DelegationSeam

CONSTANTS
    Registry,     \* the template registry the seam was made with
    Files,        \* what its directory and the roots may hold, at first Start
    Start,
    Delegate,     \* the number of the delegate tool
    Results,      \* what the other tools return: objects
    Briefs,       \* the sizes of briefs, 0 for none
    Forms,        \* the spellings of arguments
    Outputs,      \* the sizes of a delegated output
    MaxRefs,      \* bound: the references of a delegation
    MaxTurns,     \* bound: the turns of the parent
    MaxFaults     \* bound: changes of the files, objects lost and timeouts

ASSUME DelegationAssumption ==
    /\ LoadRegistry(Registry) /\ Start \in Files
    /\ Start.roots = ParentEIS /\ Delegate \in DOMAIN ToolTrust
    /\ MaxRefs \in Nat /\ MaxTurns \in Nat /\ MaxFaults \in Nat
    /\ \A size \in Outputs : SizeOf(<<"output", size>>) \in Nat
    /\ \A tool \in DOMAIN ToolTrust \ {Delegate} : <<"registry">> \notin Results[tool]
    /\ \A f \in Files :
         /\ DOMAIN f.dir = DOMAIN Start.dir
         /\ \A ref \in DOMAIN f.dir :
              f.dir[ref] # NoFile => IsFiniteSet(DOMAIN f.dir[ref][1].contract.slots)

VARIABLES
    events,      \* the task's record
    objects,     \* the content-addressed store
    files,       \* [dir, roots]
    walk,        \* "turn", "call", "audited", "stored", "answered", "failed"
    call,        \* the call the loop is at
    jobs,        \* the instantiations started, the last one for the last call
    machinery,   \* delegationInstantiator.machinery: an error not yet taken
    composed,    \* what the seam composed for the call
    reply,       \* what the delegated model answered
    reentered,   \* outputs the parent's conversation holds, by seq
    asked,       \* ghost: the inputs models were given
    lost         \* ghost: the objects that went missing

vars == <<events, objects, files, walk, call, jobs, machinery, composed, reply,
          reentered, asked, lost>>

None == [reason |-> "none"]

Init ==
    /\ events = << >> /\ objects = {} /\ files = Start
    /\ walk = "turn" /\ call = None /\ jobs = << >> /\ machinery = FALSE
    /\ composed = None /\ reply = None
    /\ reentered = {} /\ asked = {} /\ lost = {}

Faults == (IF files = Start THEN 0 ELSE 1) + Cardinality(lost)
            + Cardinality({j \in DOMAIN jobs : jobs[j].left})

Turns == Cardinality({i \in DOMAIN events : events[i].class = "model-turn"})

-----------------------------------------------------------------------------
(* The parent's turn.                                                      *)

\* A turn with one call is on the record before the call is handled.
ModelTurn(tool, args) ==
    /\ walk = "turn" /\ Turns < MaxTurns
    /\ LET turn == Turn(<<[tool |-> tool, args |-> args]>>) IN
       /\ objects' = objects \cup {turn}
       /\ events' = Append(events, [class |-> "model-turn", refs |-> <<turn>>])
    /\ call' = [tool |-> tool, args |-> args]
    /\ walk' = "call"
    /\ jobs' = IF tool = Delegate
               THEN Append(jobs, [request |-> args, at |-> "ready", left |-> FALSE]) ELSE jobs
    /\ UNCHANGED <<files, machinery, composed, reply, reentered, asked, lost>>

\* What a model may name: the first or the last object of an event, as a
\* bound, or something else.
References ==
    {[seq |-> 1, object |-> <<"ghost">>]} \cup
    UNION {{[seq |-> i, object |-> events[i].refs[1]], [seq |-> i, object |-> Last(events[i].refs)]} :
             i \in {i \in DOMAIN events : events[i].refs # << >>}}

\* A template that does not resolve is refused before anything else is read.
Delegations(n) ==
    LET active == {ref \in DOMAIN Start.dir : Resolve(Registry, Start.dir, ref).reason = ""} IN
    [template : active, brief : Briefs, form : Forms,
     evidence : UNION {[1..k -> References] : k \in 0..n}] \cup
    [template : DOMAIN Start.dir \ active, brief : Briefs, form : Forms, evidence : {<< >>}]

\* An instantiation: clear the stash, read everything, stash what is no
\* refusal.  It goes on when its call was answered with a timeout.
Begin(j) ==
    /\ jobs[j].at = "ready" /\ walk # "failed"
    /\ machinery' = FALSE
    /\ jobs' = [jobs EXCEPT ![j].at = "running"]
    /\ UNCHANGED <<events, objects, files, walk, call, composed, reply, reentered, asked, lost>>

Instantiate(j) ==
    /\ jobs[j].at = "running" /\ walk # "failed"
    /\ \E c \in {compose(Registry, files, events, objects, jobs[j].request)} :
       /\ jobs' = [jobs EXCEPT ![j] = [left |-> @.left, at |-> "done",
                                       result |-> IF @.left THEN None ELSE c]]
       /\ machinery' = (machinery \/ c.reason = "machinery")
    /\ UNCHANGED <<events, objects, files, walk, call, composed, reply, reentered, asked, lost>>

-----------------------------------------------------------------------------
(* The audit.                                                              *)

Audit(decision, refs) ==
    [class |-> "l4-audit", tool |-> call.tool, args |-> call.args, decision |-> decision,
     registry |-> ToolsHash, refs |-> refs]

\* What Handle returned is on the record, unless an instantiation left an
\* error: that fails the task before any audit.
Handled(decision, refs) ==
    /\ IF machinery
       THEN walk' = "failed" /\ UNCHANGED <<events, objects>>
       ELSE /\ objects' = objects \cup Range(refs)
            /\ events' = Append(events, Audit(decision, refs))
            /\ walk' = IF decision = "authorized" /\ call.tool = Delegate
                       THEN "audited" ELSE "turn"
    /\ machinery' = FALSE
    /\ UNCHANGED <<files, call, composed, reply, reentered, asked, lost>>

\* Another tool: its result, or a denial or an error.
Tool ==
    /\ walk = "call" /\ call.tool # Delegate
    /\ Handled("error", << >>) \/ \E r \in Results[call.tool] : Handled("authorized", <<r>>)
    /\ UNCHANGED jobs

Instantiated ==
    LET job == jobs[Len(jobs)] IN
    /\ walk = "call" /\ call.tool = Delegate /\ job.at = "done"
    /\ IF job.result.reason = ""
       THEN Handled("authorized", <<Capture(job.result)>>)
       ELSE Handled("error", << >>)
    /\ jobs' = [jobs EXCEPT ![Len(jobs)].result = None]

Timeout ==
    /\ walk = "call" /\ call.tool = Delegate
    /\ Faults < MaxFaults
    /\ jobs' = [jobs EXCEPT ![Len(jobs)].left = TRUE]
    /\ Handled("error", << >>)

-----------------------------------------------------------------------------
(* The seam, after the audit.                                              *)

Parent == Len(events)
Agrees(c) ==
    /\ c.reason = "" /\ Capture(c) = Last(events).refs[1]
    /\ \A r \in Range(c.evidence) : r.seq < Parent

\* Mutant: the input is stored with the witness.
StoreNothing ==
    /\ walk = "audited"
    /\ \E c \in {compose(Registry, files, events, objects, call.args)} :
       /\ walk' = IF Agrees(c) THEN "stored" ELSE "failed"
       /\ composed' = c
    /\ UNCHANGED <<events, objects, files, call, jobs, machinery, reply, reentered, asked, lost>>

\* Composed again, and the template's bytes and the model's input stored.
Store ==
    /\ walk = "audited"
    /\ \E c \in {compose(Registry, files, events, objects, call.args)} :
       IF Agrees(c)
       THEN /\ objects' = objects \cup Range(Members(c.template)) \cup {<<"input", c.input>>}
            /\ composed' = c /\ walk' = "stored"
       ELSE walk' = "failed" /\ UNCHANGED <<objects, composed>>
    /\ UNCHANGED <<events, files, call, jobs, machinery, reply, reentered, asked, lost>>

\* One call without tools, or none when the deadline has passed.
Ask ==
    /\ walk = "stored" /\ walk' = "answered"
    /\ \/ reply' = [error |-> TRUE] /\ UNCHANGED asked
       \/ /\ asked' = asked \cup {composed.input}
          /\ \/ reply' = [error |-> TRUE]
             \/ \E size \in Outputs, known \in BOOLEAN :
                  reply' = [error |-> FALSE, output |-> <<"output", size>>, known |-> known]
    /\ UNCHANGED <<events, objects, files, call, jobs, machinery, composed, reentered, lost>>

Outcome ==
    IF reply.error THEN "provider-error"
    ELSE IF SizeOf(reply.output) > composed.template.max_output THEN "output-over-bound"
    ELSE IF ~reply.known THEN "model-identity-mismatch" ELSE "completed"

Body ==
    LET t == composed.template IN
    [parent |-> Parent, ref |-> call.args.template, template |-> t, contract |-> t.contract,
     templates |-> Members(t), input |-> composed.input, evidence |-> composed.evidence,
     outcome |-> Outcome, output |-> IF reply.error THEN NoObject ELSE reply.output]

\* Mutant: the conflicts of the resolution are an event of their own.
WitnessAfterConflicts ==
    LET out == IF reply.error THEN << >> ELSE <<reply.output>> IN
    /\ walk = "answered" /\ walk' = "turn"
    /\ objects' = objects \cup Range(out)
    /\ events' = events \o <<[class |-> "l1-conflicts", refs |-> << >>],
                   [class |-> "l8-delegation", body |-> Body,
                    refs |-> <<<<"input", composed.input>>>> \o Body.templates \o out]>>
    /\ UNCHANGED <<files, call, jobs, machinery, composed, reply, reentered, asked, lost>>

\* The output is stored whole; it re-enters only as a completed one.
Witness ==
    LET out == IF reply.error THEN << >> ELSE <<reply.output>> IN
    /\ walk = "answered"
    /\ objects' = objects \cup Range(out)
    /\ IF Validate(Body)
       THEN /\ events' = Append(events, [class |-> "l8-delegation", body |-> Body,
                            refs |-> <<<<"input", composed.input>>>> \o Body.templates \o out])
            /\ reentered' = reentered \cup
                 IF Outcome = "completed" THEN {[seq |-> Len(events) + 1, output |-> reply.output]} ELSE {}
            /\ walk' = "turn"
       ELSE walk' = "failed" /\ UNCHANGED <<events, reentered>>
    /\ composed' = None /\ reply' = None
    /\ UNCHANGED <<files, call, jobs, machinery, asked, lost>>

-----------------------------------------------------------------------------
(* What happens to the task from outside.                                  *)

\* A store or an append fails, or the process dies.
Fail ==
    /\ walk \in {"call", "audited", "stored", "answered"} /\ walk' = "failed"
    /\ UNCHANGED <<events, objects, files, call, jobs, machinery, composed, reply,
                   reentered, asked, lost>>

\* Only an instantiation and the composition after its audit read the files.
ChangeFiles ==
    /\ walk \in {"call", "audited"} /\ files = Start /\ Faults < MaxFaults /\ files' \in Files \ {files}
    /\ UNCHANGED <<events, objects, walk, call, jobs, machinery, composed, reply,
                   reentered, asked, lost>>

\* At any other time no one reads the store before the next of these.
Lose ==
    /\ walk \in {"turn", "call", "audited"} /\ Faults < MaxFaults
    /\ \E o \in objects : objects' = objects \ {o} /\ lost' = lost \cup {o}
    /\ UNCHANGED <<events, files, walk, call, jobs, machinery, composed, reply,
                   reentered, asked>>

Next ==
    \/ \E tool \in DOMAIN ToolTrust :
         \E args \in IF tool = Delegate THEN Delegations(MaxRefs) ELSE [form : Forms] :
           ModelTurn(tool, args)
    \/ \E j \in DOMAIN jobs : Begin(j) \/ Instantiate(j)
    \/ Tool \/ Instantiated \/ Timeout
    \/ Store \/ Ask \/ Witness
    \/ Fail \/ ChangeFiles \/ Lose

Spec == Init /\ [][Next]_vars

-----------------------------------------------------------------------------
(* Properties.                                                             *)

Witnesses == {i \in DOMAIN events : events[i].class = "l8-delegation"}
Authorized(i) ==
    events[i].class = "l4-audit" /\ events[i].decision = "authorized" /\ events[i].tool = Delegate

\* An authorized delegation and its witness are neighbours on the record:
\* nothing comes between them, a call has one witness and a witness one
\* call, and only a task that fails leaves a call without (C-L8-8, C-L8-12).
\* What re-enters the conversation is a witnessed output within its bound.
OneWitnessPerCall ==
    /\ \A i \in Witnesses : events[i].body.parent = i - 1 /\ Authorized(i - 1)
    /\ \A i \in DOMAIN events : Authorized(i) /\ i < Len(events) => i + 1 \in Witnesses
    /\ \A r \in reentered :
         /\ r.seq \in Witnesses
         /\ LET d == events[r.seq].body IN
            d.outcome = "completed" /\ d.output = r.output /\ SizeOf(r.output) <= d.template.max_output

\* No model is given what the store does not hold, wherever the task dies:
\* the composition is durable before the call (D-L8-8 step 6).
AskedIsStored ==
    \A input \in asked :
        /\ <<"input", input>> \in objects \cup lost
        /\ \E i \in DOMAIN events : Authorized(i)

\* The trust of what a delegated model reads is that of its witness: an item
\* shown as governed is the result of a governed tool's authorized call,
\* however many models it passed through since (C-L8-18).
TrustIsWitnessed ==
    \A i \in Witnesses : \A r \in Range(events[i].body.evidence) :
        r.class # Untrusted =>
            \E j \in 1..i : /\ events[j].class = "l4-audit" /\ events[j].decision = "authorized"
                            /\ r.object \in Range(events[j].refs)
                            /\ ToolTrust[events[j].tool] = r.class

Reconstructed(i) == Verdict(reconstructOne(events, objects, i, ToolsHash))
Instructions == {o \in lost : o[1] = "instruction"}
Spelled(i) == events[events[i].body.parent].args.form

\* The record of a delegation explains itself, whatever the model, the
\* files and the timing did: it is confirmed as long as its objects are
\* there, and losing some makes it unreproducible, not inconsistent.  Two
\* exceptions are what the code does: a lost instruction object counts as
\* inconsistent, and the next property.  Asked between two calls and at the
\* end, as a verifier would.
LiveRecordsReconstruct ==
    walk \in {"turn", "failed"} => \A i \in Witnesses :
        LET verdict == Reconstructed(i) IN
        /\ Instructions = {} => verdict # "DISCREPANCY"
        /\ lost = {} /\ Spelled(i) = "compact" => verdict = "CONFIRMED"

\* "UNREPRODUCIBLE-FOR-MISSING-INPUTS (a typed availability fact)": nothing
\* is missing, so nothing is unreproducible.
WholeRecordsConfirm ==
    \A i \in Witnesses : lost = {} => Reconstructed(i) = "CONFIRMED"

=============================================================================
