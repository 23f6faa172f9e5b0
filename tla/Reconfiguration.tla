--------------------------- MODULE Reconfiguration ---------------------------
(***************************************************************************)
(* The files of a Node through reconfiguration, enrollment and failure:    *)
(* state/client_transaction.zig (write-ahead intent, rolled forward),      *)
(* state/atomic_file.zig (rename, then directory sync), the commands       *)
(* `ntcl config' and `ntcl bootstrap-import' (apps/ntcl.zig), the start of *)
(* `ntcl up' (runtime/service.zig) and the enrollment it keeps             *)
(* (runtime/service_state.zig).  Any process may fail or be killed between *)
(* two file operations, and the power may fail at any time: what has been  *)
(* renamed or unlinked is durable only when its directory has been synced. *)
(***************************************************************************)
EXTENDS Integers, Sequences, FiniteSets, FiniteSetsExt

CONSTANTS
  MaxConfigurations,  \* bound on the reconfigurations, numbered as they come
  Tickets,            \* the numbers that stand for a bootstrap ticket
  MaxInterruptions    \* bound on kills and power losses together

ASSUME ParametersAssumption ==
  /\ MaxConfigurations \in Nat \ {0}
  /\ MaxInterruptions \in Nat
  /\ Tickets \subseteq 1..MaxConfigurations

VARIABLES
  disk,           \* what survives a loss of power: file -> content
  journal,        \* renames and unlinks not yet synced, per directory
  proc,           \* the process that holds state.lock, "off" for none
  stage,          \* how far it is
  argument,       \* the configuration a command was called with
  todo,           \* the file operations it has still to make, in order
  applied,        \* the first of them is visible but not synced
  loaded,         \* persistent_state in the memory of `ntcl up'
  litter,         \* a temporary file was left in the state directory
  interruptions,
  \* history
  expected,       \* what may be configured: the last reported success and
                  \* what was attempted since
  torn,           \* the ticket whose import was interrupted by the last kill
  refused         \* the ticket the last import was refused for

processVars == <<proc, stage, argument, todo, applied, loaded>>
storageVars == <<disk, journal, litter>>
historyVars == <<expected, torn, refused>>
filesVars == <<storageVars, processVars, interruptions, historyVars>>

Absent == 0
Configurations == 1..MaxConfigurations
Files == {"intent", "token", "config", "identity", "state", "marker"}
StateFiles == Files \ {"config"}

\* state.json: absent, empty, or an assignment to an identity.  The other
\* files are known by the configuration they stem from.
NoAssignment == [phase |-> "none", by |-> Absent]
Missing == [phase |-> "missing", by |-> Absent]
Assignment(phase, identity) == [phase |-> phase, by |-> identity]
States ==
  [phase : {"missing", "none", "staged", "enrolled"},
   by : Configurations \cup {Absent}]
Contents(file) == IF file = "state" THEN States ELSE Configurations \cup {Absent}
Nothing(file) == IF file = "state" THEN Missing ELSE Absent

Directories == {"state directory", "config directory"}
Directory(file) ==
  IF file = "config" THEN "config directory" ELSE "state directory"

\* A file operation: replaceFaultInjected, or deleteDurable, where absence is
\* an error only for the intent, which is there when it is deleted.
IsOperation(op) == op.file \in Files /\ op.content \in Contents(op.file)
Replace(file, content) == [file |-> file, content |-> content]
Delete(file) == [file |-> file, content |-> Nothing(file)]
Deletes(op) == op.content = Nothing(op.file)

\* The content of a file after operations on its directory.
After(contents, ops, file) ==
  LET on == {i \in DOMAIN ops : ops[i].file = file}
  IN IF on = {} THEN contents[file] ELSE ops[Max(on)].content
Visible(file) == After(disk, journal[Directory(file)], file)

Marker(c) ==
  IF c \in Tickets THEN Replace("marker", c) ELSE Delete("marker")

\* recoverFaultInjected
RollForwardIntentFirst(c) ==
  <<Delete("intent"), Replace("token", c), Replace("config", c),
    Delete("identity"), Replace("state", NoAssignment), Marker(c)>>
RollForward(c) ==
  <<Replace("token", c), Replace("config", c), Delete("identity"),
    Replace("state", NoAssignment), Marker(c), Delete("intent")>>
Recovery == IF Visible("intent") = Absent THEN <<>>
            ELSE RollForward(Visible("intent"))

\* commitInternal
CommitWithoutIntent(c) == RollForward(c)
Commit(c) == <<Replace("intent", c)>> \o RollForward(c)

\* cleanupConsumedEnrollmentToken
Cleanup == <<Delete("token"), Delete("marker")>>

FilesTypeOK ==
  /\ DOMAIN disk = Files /\ \A f \in Files : disk[f] \in Contents(f)
  /\ DOMAIN journal = Directories
  /\ \A d \in Directories : \A i \in DOMAIN journal[d] :
       IsOperation(journal[d][i]) /\ Directory(journal[d][i].file) = d
  \* every operation is synced but one for each interruption and the current
  /\ \A d \in Directories : Len(journal[d]) <= interruptions + 1
  /\ proc \in {"off", "config", "import", "up"}
  /\ stage \in {"recover", "commit", "load", "identity", "run"}
  /\ argument \in Configurations \cup {Absent}
  /\ \A i \in DOMAIN todo : IsOperation(todo[i])
  /\ applied \in BOOLEAN /\ applied => todo # <<>>
  /\ loaded \in States
  /\ litter \in BOOLEAN
  /\ interruptions \in 0..MaxInterruptions
  /\ expected \subseteq Configurations \cup {Absent}
  /\ torn \in Tickets \cup {Absent} /\ refused \in Tickets \cup {Absent}

FilesInit ==
  /\ disk = [f \in Files |-> Nothing(f)]
  /\ journal = [d \in Directories |-> <<>>]
  /\ proc = "off" /\ stage = "recover" /\ argument = Absent
  /\ todo = <<>> /\ applied = FALSE /\ loaded = NoAssignment
  /\ litter = FALSE /\ interruptions = 0
  /\ expected = {Absent} /\ torn = Absent /\ refused = Absent

-----------------------------------------------------------------------------
\* The file operations, whoever makes them.

\* A replacement becomes visible with the rename, a deletion with the unlink.
\* Deleting what is not there succeeds without a sync.
Apply ==
  /\ todo # <<>> /\ ~applied
  /\ LET op == Head(todo) IN
     IF Deletes(op) /\ Visible(op.file) = Nothing(op.file)
     THEN todo' = Tail(todo) /\ UNCHANGED <<journal, applied>>
     ELSE /\ journal' = [journal EXCEPT ![Directory(op.file)] = Append(@, op)]
          /\ applied' = TRUE
          /\ UNCHANGED todo
  /\ UNCHANGED <<disk, proc, stage, argument, loaded, litter, interruptions,
                 historyVars>>

Synced(d) == [f \in Files |-> IF Directory(f) = d
                              THEN After(disk, journal[d], f) ELSE disk[f]]

\* syncDirectory; the adapter takes over what it saved.
SyncNothing ==
  /\ applied
  /\ loaded' = IF Head(todo).file = "state" THEN Head(todo).content ELSE loaded
  /\ todo' = Tail(todo) /\ applied' = FALSE
  /\ UNCHANGED <<storageVars, proc, stage, argument, interruptions, historyVars>>
Sync ==
  /\ applied
  /\ LET op == Head(todo) IN
     /\ disk' = Synced(Directory(op.file))
     /\ journal' = [journal EXCEPT ![Directory(op.file)] = <<>>]
     /\ loaded' = IF op.file = "state" THEN op.content ELSE loaded
  /\ todo' = Tail(todo) /\ applied' = FALSE
  /\ UNCHANGED <<proc, stage, argument, litter, interruptions, historyVars>>

\* Nothing in progress: no process, or between its operations.
Between(p) == proc = p /\ todo = <<>>
Ends == proc' = "off" /\ stage' = "recover" /\ todo' = <<>> /\ applied' = FALSE
        /\ argument' = Absent /\ loaded' = NoAssignment

-----------------------------------------------------------------------------
\* The processes.  Each takes state.lock and recovers first.

StartProcess(p, c) ==
  /\ proc = "off"
  /\ proc' = p /\ stage' = "recover" /\ argument' = c /\ todo' = Recovery
  /\ UNCHANGED <<applied, loaded, storageVars, interruptions>>

Configure(c) ==
  /\ c \notin Tickets /\ \A d \in expected \ Tickets : d < c
  /\ StartProcess("config", c)
  /\ expected' = expected \cup {c} /\ torn' = Absent /\ refused' = Absent
Import(t) ==
  /\ StartProcess("import", t)
  /\ torn' = IF torn = t THEN t ELSE Absent
  /\ refused' = Absent
  /\ UNCHANGED expected
Up ==
  /\ StartProcess("up", Absent)
  /\ torn' = Absent /\ refused' = Absent /\ UNCHANGED expected

\* configure, after recover
BeginConfiguration ==
  /\ Between("config") /\ stage = "recover"
  /\ stage' = "commit" /\ todo' = Commit(argument)
  /\ UNCHANGED <<proc, argument, applied, loaded, storageVars, interruptions,
                 historyVars>>

\* bootstrapImport, after recover: a first import needs a directory without
\* any entry, a repeated one needs everything to be as the first left it.
IsFresh == ~litter /\ \A f \in Files : Visible(f) = Nothing(f)
IsImported(t) ==
  /\ ~litter /\ Visible("intent") = Absent /\ Visible("state") # Missing
  /\ Visible("config") = t /\ Visible("token") = t
IsEnrolled == Visible("state").phase = "enrolled"

BeginImport ==
  /\ Between("import") /\ stage = "recover"
  /\ ~IsEnrolled /\ Visible("marker") = Absent /\ IsFresh
  /\ stage' = "commit" /\ todo' = Commit(argument)
  /\ expected' = expected \cup {argument}
  /\ UNCHANGED <<proc, argument, applied, loaded, storageVars, interruptions,
                 torn, refused>>

ResumeImport ==
  /\ Between("import") /\ stage = "recover"
  /\ ~IsEnrolled /\ Visible("marker") = argument /\ IsImported(argument)
  /\ expected' = {argument} /\ torn' = Absent
  /\ Ends
  /\ UNCHANGED <<storageVars, interruptions, refused>>

RefuseImport ==
  /\ Between("import") /\ stage = "recover"
  /\ \/ IsEnrolled
     \/ Visible("marker") = Absent /\ ~IsFresh
     \/ /\ Visible("marker") # Absent
        /\ Visible("marker") # argument \/ ~IsImported(argument)
  /\ refused' = argument
  /\ Ends
  /\ UNCHANGED <<storageVars, interruptions, expected, torn>>

\* The command reports success.
Report ==
  /\ proc \in {"config", "import"} /\ stage = "commit" /\ todo = <<>>
  /\ expected' = {argument} /\ torn' = Absent
  /\ Ends
  /\ UNCHANGED <<storageVars, interruptions, refused>>

\* runNodeLinux: without a configuration it ends; the client state is loaded,
\* a consumed token removed, the identity loaded or created, and without an
\* enrollment the credential is needed.
Load ==
  /\ Between("up") /\ stage = "recover" /\ Visible("config") # Absent
  /\ loaded' = IF Visible("state") = Missing THEN NoAssignment
               ELSE Visible("state")
  /\ todo' = IF loaded'.phase = "enrolled" THEN Cleanup ELSE <<>>
  /\ stage' = "load"
  /\ UNCHANGED <<proc, argument, applied, storageVars, interruptions,
                 historyVars>>

LoadIdentity ==
  /\ Between("up") /\ stage = "load"
  /\ todo' = IF Visible("identity") = Absent
             THEN <<Replace("identity", Visible("config"))>> ELSE <<>>
  /\ stage' = "identity"
  /\ UNCHANGED <<proc, argument, applied, loaded, storageVars, interruptions,
                 historyVars>>

CanRun == loaded.phase = "enrolled" \/ Visible("token") # Absent

Run ==
  /\ Between("up") /\ stage = "identity" /\ CanRun
  /\ stage' = "run"
  /\ UNCHANGED <<proc, argument, todo, applied, loaded, storageVars,
                 interruptions, historyVars>>

Abandon ==
  /\ \/ Between("up") /\ stage = "recover" /\ Visible("config") = Absent
     \/ Between("up") /\ stage = "identity" /\ ~CanRun
  /\ Ends
  /\ UNCHANGED <<storageVars, interruptions, historyVars>>

\* stageAssignment; the same assignment again writes nothing.
Stage ==
  /\ Between("up") /\ stage = "run" /\ loaded.phase = "none"
  /\ todo' = <<Replace("state", Assignment("staged", Visible("identity")))>>
  /\ UNCHANGED <<proc, stage, argument, applied, loaded, storageVars,
                 interruptions, historyVars>>

\* completeEnrollment
Completion ==
  (IF loaded.phase = "staged"
   THEN <<Replace("state", Assignment("enrolled", loaded.by))>> ELSE <<>>)
  \o Cleanup
CompleteEnrollment ==
  /\ Between("up") /\ stage = "run" /\ loaded.phase \in {"staged", "enrolled"}
  /\ todo' = Completion
  /\ UNCHANGED <<proc, stage, argument, applied, loaded, storageVars,
                 interruptions, historyVars>>

-----------------------------------------------------------------------------
\* Failure.

\* An operation fails.  Everything ends but the running service, whose memory
\* stays as it was.
Fail ==
  /\ todo # <<>>
  /\ IF stage = "run"
     THEN todo' = <<>> /\ applied' = FALSE
          /\ UNCHANGED <<proc, stage, argument, loaded>>
     ELSE Ends
  /\ interruptions < MaxInterruptions
  /\ interruptions' = interruptions + 1
  /\ UNCHANGED <<storageVars, historyVars>>

\* A process that dies before the rename leaves its temporary file.
Torn == todo # <<>> /\ ~applied /\ ~Deletes(Head(todo))
        /\ Directory(Head(todo).file) = "state directory"
LeavesLitter == litter' \in {litter, litter \/ Torn}
Tears ==
  CASE proc = "import" /\ stage = "commit" -> argument
    [] proc \in {"import", "off"} -> torn
    [] OTHER -> Absent
Interruption ==
  /\ interruptions < MaxInterruptions /\ interruptions' = interruptions + 1
  /\ LeavesLitter /\ torn' = Tears
  /\ Ends
  /\ UNCHANGED <<expected, refused>>

Kill == proc # "off" /\ Interruption /\ UNCHANGED <<disk, journal>>

\* Of what is not synced a prefix of each directory's operations survives.
PowerLoss ==
  /\ Interruption
  /\ \E kept \in [Directories -> 0..MaxInterruptions + 1] :
       /\ \A d \in Directories : kept[d] <= Len(journal[d])
       /\ disk' = [f \in Files |->
            LET d == Directory(f) IN After(disk, SubSeq(journal[d], 1, kept[d]), f)]
  /\ journal' = [d \in Directories |-> <<>>]

Stop == Between("up") /\ stage = "run" /\ Ends
        /\ UNCHANGED <<storageVars, interruptions, historyVars>>

FilesNext ==
  \/ Apply \/ Sync
  \/ \E c \in Configurations : Configure(c)
  \/ \E t \in Tickets : Import(t)
  \/ Up
  \/ BeginConfiguration \/ BeginImport \/ ResumeImport \/ RefuseImport
  \/ Report \/ Load \/ LoadIdentity \/ Run \/ Abandon
  \/ Stage \/ CompleteEnrollment \/ Stop
  \/ Fail \/ Kill \/ PowerLoss

FilesSpec == FilesInit /\ [][FilesNext]_filesVars

-----------------------------------------------------------------------------
\* A Node that runs has the files of one reconfiguration: its identity was
\* made under its configuration, its assignment is that identity's, and
\* unless it is enrolled it has that configuration's credential
\* (runtime/service.zig:467, "startup can never observe a mixed identity");
\* a configured Node is never without the credential it needs to run.
StartsWhole ==
  /\ Between("up") /\ stage = "identity" => CanRun
  /\ stage = "run" =>
       LET c == Visible("config") IN
       /\ c # Absent /\ Visible("intent") = Absent
       /\ Visible("identity") = c
       /\ loaded.by \in {c, Absent} /\ Visible("state").by \in {c, Absent}
       /\ Visible("token") \in {c, Absent} /\ Visible("marker") \in {c, Absent}
       /\ loaded.phase # "enrolled" => Visible("token") = c

\* What a command reported is what the Node runs with, unless a later command
\* was attempted: no interruption takes a reported reconfiguration back
\* (docs/threat-model.md:235, "make completed mutations durable").
RunsWhatWasReported == stage = "run" => Visible("config") \in expected

\* The durable files implement NodeConfiguration: at every moment a loss of
\* power leaves either the old configuration or the new one, to be rolled
\* forward, and enrollment never goes back.
FreshFiles(c) ==
  [config |-> c, token |-> c, identity |-> Absent, enrollment |-> NoAssignment,
   marker |-> IF c \in Tickets THEN c ELSE Absent]
Durable ==
  IF disk["intent"] # Absent THEN FreshFiles(disk["intent"])
  ELSE [config |-> disk["config"], token |-> disk["token"],
        identity |-> disk["identity"], marker |-> disk["marker"],
        enrollment |-> IF disk["state"] = Missing THEN NoAssignment
                       ELSE disk["state"]]
Whole == INSTANCE NodeConfiguration WITH node <- Durable
AllOrNothing == Whole!Spec

\* An import that was interrupted, and repeated with nothing in between, is
\* not refused (docs/operator-guide.md:341, "An interrupted same-invitation
\* import is idempotent").
ImportIsIdempotent == torn # Absent => refused # torn
=============================================================================
