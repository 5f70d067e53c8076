---------------------------- MODULE MdmDispatch ----------------------------
(***************************************************************************)
(* MDM command dispatch for one enrolled device on the Device channel.    *)
(* The dispatcher (zentral/contrib/mdm/commands/base.py) is not in this   *)
(* source tree: the model follows spec sections 3, 4.1 and 7 and the      *)
(* behaviour tests/mdm/test_commands.py asserts of it:                    *)
(*   - _get_next_queued_command returns only a queued command (time None); *)
(*     a command already sent is not returned again (test_device_         *)
(*     information);                                                       *)
(*   - _install_artifacts and _remove_artifacts skip an artifact version  *)
(*     whose command ended in Error (the *_previous_error tests);         *)
(*   - the DeviceArtifact row appears or goes only on Acknowledged.       *)
(* One device request is one step: process_response of the command it    *)
(* answers, then the choice of the next command, in one transaction.      *)
(* The device may drop a command it was sent (its reply never arrives);   *)
(* the command then stays sent and unanswered.  The administrator edits   *)
(* the blueprint, publishes artifact versions and queues commands.        *)
(***************************************************************************)
EXTENDS Naturals, FiniteSets

CONSTANTS
    Artifacts,      \* the artifacts of the Device channel
    Priority,       \* Priority[a]: BlueprintArtifact.priority, distinct
    NoArtifact,     \* model value: the artifact of a non-artifact command
    MaxVersion,     \* highest ArtifactVersion.version published
    MaxEdits,       \* administrator changes in a behaviour
    MaxLosses       \* commands the device drops in a behaviour

ASSUME Priority \in [Artifacts -> Nat]
    /\ \A a, b \in Artifacts : a # b => Priority[a] # Priority[b]

VARIABLES
    bp,         \* the artifacts of the device's blueprint
    latest,     \* latest[a]: the newest ArtifactVersion of a
    installed,  \* installed[a]: the DeviceArtifact version of a, 0 for none
    awaiting,   \* EnrolledDevice.awaiting_configuration
    queued,     \* DeviceInformation commands queued (time None)
    held,       \* the command the device was sent and is executing, or None
    errored,    \* the commands whose status is Error
    lost,       \* commands sent whose reply never came
    edits       \* administrator changes made

vars == <<bp, latest, installed, awaiting, queued, held, errored, lost, edits>>

Versions == 1..MaxVersion

Cmd(k, a, v) == [kind |-> k, art |-> a, ver |-> v]
Commands ==
    {Cmd("info", NoArtifact, 0), Cmd("configured", NoArtifact, 0)}
    \cup {Cmd(k, a, v) : k \in {"install", "remove"}, a \in Artifacts, v \in Versions}
None == Cmd("none", NoArtifact, 0)

TypeOK ==
    /\ bp \subseteq Artifacts
    /\ latest \in [Artifacts -> Versions]
    /\ installed \in [Artifacts -> 0..MaxVersion]
    /\ awaiting \in BOOLEAN
    /\ queued \in 0..MaxEdits
    /\ held \in Commands \cup {None}
    /\ errored \subseteq Commands
    /\ lost \in 0..MaxLosses
    /\ edits \in 0..MaxEdits

\* The first artifact of a set in blueprint priority order.
First(S) == CHOOSE a \in S : \A o \in S : Priority[a] >= Priority[o]

\* Mutant: "not yet installed" read as "no DeviceArtifact row".
InstallSetNoRowOnly(b, l, i, e) ==
    {a \in b : i[a] = 0 /\ Cmd("install", a, l[a]) \notin e}

\* Step 3 of spec 4.1: blueprint artifacts whose latest version is not the
\* installed one and has no command in Error.
InstallSet(b, l, i, e) ==
    {a \in b : i[a] # l[a] /\ Cmd("install", a, l[a]) \notin e}

\* Step 4: installed artifacts no longer in the blueprint whose removal of
\* the installed version has not ended in Error.
RemoveSet(b, i, e) ==
    {a \in Artifacts \ b : i[a] # 0 /\ Cmd("remove", a, i[a]) \notin e}

\* The resolution order of spec 4.1, evaluated on the state the request
\* left after processing the device's answer.
NextCommand(aw, i, e) ==
    LET ins == InstallSet(bp, latest, i, e)
        rem == RemoveSet(bp, i, e)
    IN IF queued > 0 THEN Cmd("info", NoArtifact, 0)
       ELSE IF aw THEN Cmd("configured", NoArtifact, 0)
       ELSE IF ins # {} THEN Cmd("install", First(ins), latest[First(ins)])
       ELSE IF rem # {} THEN Cmd("remove", First(rem), i[First(rem)])
       ELSE None

\* The command the response carries becomes the one the device holds; a
\* queued command is sent (its time set) and leaves the queue.
Serve(aw, i, e) ==
    LET c == NextCommand(aw, i, e) IN
    /\ held' = c
    /\ queued' = IF c.kind = "info" THEN queued - 1 ELSE queued

\* What process_response makes of the device's answer st to command c.
AfterAnswer(c, st) ==
    IF st = "Error"
    THEN [aw |-> awaiting, inst |-> installed, err |-> errored \cup {c}]
    ELSE [aw |-> awaiting /\ c.kind # "configured",
          inst |-> CASE c.kind = "install" -> [installed EXCEPT ![c.art] = c.ver]
                     [] c.kind = "remove" -> [installed EXCEPT ![c.art] = 0]
                     [] OTHER -> installed,
          err |-> errored]

-----------------------------------------------------------------------------
\* A freshly enrolled device: nothing installed, no command yet, awaiting
\* configuration when it enrolled through DEP.
Init ==
    /\ bp \in SUBSET Artifacts
    /\ latest = [a \in Artifacts |-> 1]
    /\ installed = [a \in Artifacts |-> 0]
    /\ awaiting \in BOOLEAN
    /\ queued = 0
    /\ held = None
    /\ errored = {}
    /\ lost = 0
    /\ edits = 0

\* The device checks in with status Idle and gets the next command, or an
\* empty response that changes nothing.
Poll ==
    /\ held = None
    /\ Serve(awaiting, installed, errored)
    /\ UNCHANGED <<bp, latest, installed, awaiting, errored, lost, edits>>

\* The device reports the status of the command it holds: process_response,
\* then the next command in the same request.
Answer(st) ==
    LET r == AfterAnswer(held, st) IN
    /\ held # None
    /\ awaiting' = r.aw
    /\ installed' = r.inst
    /\ errored' = r.err
    /\ Serve(r.aw, r.inst, r.err)
    /\ UNCHANGED <<bp, latest, lost, edits>>

\* The device drops the command: it stays sent with no result.
Lose ==
    /\ held # None
    /\ lost < MaxLosses
    /\ held' = None
    /\ lost' = lost + 1
    /\ UNCHANGED <<bp, latest, installed, awaiting, queued, errored, edits>>

Edit ==
    /\ edits < MaxEdits
    /\ edits' = edits + 1

\* A new ArtifactVersion of a is created.
Publish(a) ==
    /\ Edit
    /\ latest[a] < MaxVersion
    /\ latest' = [latest EXCEPT ![a] = @ + 1]
    /\ UNCHANGED <<bp, installed, awaiting, queued, held, errored, lost>>

\* A BlueprintArtifact for a is created or deleted.
Assign(a) ==
    /\ Edit
    /\ bp' = IF a \in bp THEN bp \ {a} ELSE bp \cup {a}
    /\ UNCHANGED <<latest, installed, awaiting, queued, held, errored, lost>>

\* DeviceInformation.create_for_device(device, queue=True).
QueueInfo ==
    /\ Edit
    /\ queued' = queued + 1
    /\ UNCHANGED <<bp, latest, installed, awaiting, held, errored, lost>>

Next ==
    \/ Poll
    \/ \E st \in {"Acknowledged", "Error"} : Answer(st)
    \/ Lose
    \/ \E a \in Artifacts : Publish(a) \/ Assign(a)
    \/ QueueInfo

\* A device keeps checking in while it is idle and answers what it holds
\* (spec 7: retries are driven by device re-polling); it need not answer
\* successfully, and dropping a command is not something it must do.
Fairness ==
    /\ WF_vars(Poll)
    /\ WF_vars(\E st \in {"Acknowledged", "Error"} : Answer(st))

Spec == Init /\ [][Next]_vars /\ Fairness
-----------------------------------------------------------------------------
(***************************************************************************)
(* Properties                                                              *)
(***************************************************************************)

\* The device holds what its blueprint asks for: no command pending, every
\* blueprint artifact installed at its latest version unless that install
\* failed, and every other artifact removed unless that removal failed.
Converged ==
    /\ held = None /\ queued = 0 /\ ~awaiting
    /\ \A a \in bp :
           installed[a] = latest[a] \/ Cmd("install", a, latest[a]) \in errored
    /\ \A a \in Artifacts \ bp :
           installed[a] = 0 \/ Cmd("remove", a, installed[a]) \in errored

\* Once DeviceConfigured has been acknowledged, a device that keeps
\* polling ends up, after the last administrator change and whatever mix
\* of acknowledgements, errors and dropped commands, holding its blueprint
\* (spec 4.1 steps 3 and 4; spec 8: a new version is installed and an
\* unassigned artifact removed on the next polls).
ConvergesToBlueprint == <>(~awaiting) => <>[]Converged
=============================================================================
