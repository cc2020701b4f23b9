----------------------------- MODULE DiscordBot -----------------------------
(***************************************************************************)
(* The Discord bot (discord-bot/src): slash commands that run at once in   *)
(* one process, each a chain of awaits between Discord, the VM API and     *)
(* Discord again.  Any of these calls can fail, or take place and seem to  *)
(* have failed because its response is lost; a command whose token has     *)
(* expired fails every call to Discord from then on.                       *)
(*                                                                         *)
(* An error that leaves the handler of index.ts is an unhandled rejection: *)
(* the process ends, and nothing in the repository starts it again.        *)
(*                                                                         *)
(* Of the VM API there is what the bot can tell of it; TaskLifecycle has   *)
(* the inside of its handlers.                                             *)
(***************************************************************************)
EXTENDS Integers, FiniteSets

CONSTANTS
  Interaction,   \* the slash commands users give
  Task,          \* the tasks there can be
  MaxFaults      \* bound on lost calls, refusals and expired tokens

ASSUME BotAssumption == IsFiniteSet(Task) /\ MaxFaults \in Nat

VARIABLES
  alive,         \* the bot's process
  pc, cmd, text, \* per command: where execute is, its options, what it will say
  deferred,      \* interaction.deferred
  acked,         \* the commands Discord has had an acknowledgement of
  expired,       \* the commands whose token is void
  shown, noted,  \* the reply users see; the commands with an error follow-up
  row,           \* the VM API's table
  did,           \* the commands the API has carried out
  faults, failed, unsure \* history: faults; failed calls to Discord; see Unsure

serverVars == <<row, did>>
seenVars == <<shown, noted, acked>>
vars == <<alive, pc, cmd, text, deferred, acked, expired, shown, noted, row, did,
          faults, failed, unsure>>

TaskStatus == {"pending", "starting", "running", "suspended", "terminated"}
Absent == "absent"
Spawns == {"spawn", "spawn-file"}

\* The commands of commands/index.ts with what a user can give them; a name that has
\* been deployed and is not in this version of the bot.
SpawnCommand == [name : Spawns, repo : {"valid", "invalid"}]
TaskCommand  == [name : {"status", "resume", "stop"}, task : Task]
ListCommand  == [name : {"list"}, status : {"all", "running", "suspended", "pending"}]
Command == SpawnCommand \cup TaskCommand \cup ListCommand \cup [name : {"unregistered"}]

Init ==
  /\ alive = TRUE
  /\ pc = [i \in Interaction |-> "none"]
  /\ cmd = [i \in Interaction |-> [name |-> "unregistered"]]
  /\ text = [i \in Interaction |-> "nothing"]
  /\ deferred = {} /\ acked = {} /\ expired = {}
  /\ shown = [i \in Interaction |-> "nothing"] /\ noted = {}
  /\ row = [t \in Task |-> Absent] /\ did = {}
  /\ faults = 0 /\ failed = [i \in Interaction |-> 0] /\ unsure = {}

Fault == faults < MaxFaults /\ faults' = faults + 1
Goto(i, to) == pc' = [pc EXCEPT ![i] = to]
Say(i, what, to) == text' = [text EXCEPT ![i] = what] /\ Goto(i, to)

----------------------------------------------------------------------------
(* Calls to Discord. *)

Succeeds(i) == i \notin expired /\ UNCHANGED <<faults, failed>>

\* A call that throws; "seen" if it has taken place and its response is lost.
Fails(i, seen) ==
  /\ failed' = [failed EXCEPT ![i] = @ + 1]
  /\ IF i \in expired THEN ~seen /\ UNCHANGED faults ELSE Fault

Shows(i) == shown' = [shown EXCEPT ![i] = text[i]]

\* Three seconds for the acknowledgement, or fifteen minutes for the rest, are over.
Expires(i) ==
  /\ pc[i] \notin {"none", "ended"} /\ i \notin expired
  /\ Fault
  /\ expired' = expired \cup {i}
  /\ UNCHANGED <<alive, pc, cmd, text, deferred, seenVars, serverVars, failed, unsure>>

----------------------------------------------------------------------------
(* index.ts and execute of each command. *)

\* InteractionCreate: an unknown command gets no reply at all.
Receive(i) ==
  /\ alive /\ pc[i] = "none"
  /\ \E c \in Command :
       /\ cmd' = [cmd EXCEPT ![i] = c]
       /\ Goto(i, IF c.name = "unregistered" THEN "ended" ELSE "received")
  /\ UNCHANGED <<alive, text, deferred, seenVars, expired, serverVars, faults, failed, unsure>>

\* deferReply, in no try of the command; then the repository is looked at, and what
\* is said of an invalid one is said outside of the try too.
Invalid(c) == c.name \in Spawns /\ c.repo = "invalid"
Defer(i) ==
  /\ alive /\ pc[i] = "received"
  /\ \/ /\ Succeeds(i)
        /\ deferred' = deferred \cup {i} /\ acked' = acked \cup {i}
        /\ IF Invalid(cmd[i]) THEN Say(i, "invalid", "last")
           ELSE /\ Goto(i, IF cmd[i].name = "spawn-file" THEN "fetch" ELSE "call")
                /\ UNCHANGED text
     \/ \E seen \in BOOLEAN :
          /\ Fails(i, seen)
          /\ acked' = IF seen THEN acked \cup {i} ELSE acked
          /\ Goto(i, "caught")
          /\ UNCHANGED <<deferred, text>>
  /\ UNCHANGED <<alive, cmd, shown, noted, expired, serverVars, unsure>>

\* spawn-file: the attachment is read, and may be too large.
Fetch(i) ==
  /\ alive /\ pc[i] = "fetch"
  /\ \/ Goto(i, "call") /\ UNCHANGED <<text, faults>>
     \/ Say(i, "too large", "reply") /\ UNCHANGED faults
     \/ Say(i, "failed", "last") /\ Fault
  /\ UNCHANGED <<alive, cmd, deferred, seenVars, expired, serverVars, failed, unsure>>

\* editReply at the end of the try; if it throws, so does what was done.
Reply(i) ==
  /\ alive /\ pc[i] = "reply"
  /\ \/ Succeeds(i) /\ Shows(i) /\ Goto(i, "ended") /\ UNCHANGED <<text, unsure>>
     \/ \E seen \in BOOLEAN :
          /\ Fails(i, seen)
          /\ IF seen THEN Shows(i) ELSE UNCHANGED shown
          /\ Say(i, "failed", "last")
          /\ unsure' = unsure \cup {i}
  /\ UNCHANGED <<alive, cmd, deferred, noted, acked, expired, serverVars>>

\* The end of the command; for an invalid repository this is a return.  Mutant: it is
\* missing.
AfterLastGoesOn(i) == IF text[i] = "invalid" THEN "call" ELSE "ended"
AfterLast(i) == "ended"

\* editReply in the catch of the command, or for an invalid repository: nothing in the
\* command catches what it throws.
LastReply(i) ==
  /\ alive /\ pc[i] = "last"
  /\ \/ Succeeds(i) /\ Shows(i) /\ Goto(i, AfterLast(i))
     \/ \E seen \in BOOLEAN :
          /\ Fails(i, seen)
          /\ IF seen THEN Shows(i) ELSE UNCHANGED shown
          /\ Goto(i, "caught")
  /\ UNCHANGED <<alive, cmd, text, deferred, noted, acked, expired, serverVars, unsure>>

\* Discord takes a followUp of what was acknowledged and a reply to what was not.
\* Mutant: it is always a reply.
TakenReply(i) == i \notin acked
Taken(i) == IF i \in deferred THEN i \in acked ELSE i \notin acked

\* The catch of index.ts: what its own call throws ends the process.
CatchAll(i) ==
  /\ alive /\ pc[i] = "caught"
  /\ \/ /\ Taken(i) /\ Succeeds(i)
        /\ noted' = noted \cup {i} /\ acked' = acked \cup {i}
        /\ Goto(i, "ended") /\ UNCHANGED alive
     \/ /\ IF Taken(i)
           THEN \E seen \in BOOLEAN :
                  Fails(i, seen) /\ noted' = IF seen THEN noted \cup {i} ELSE noted
           ELSE UNCHANGED <<noted, faults, failed>>
        /\ alive' = FALSE
        /\ Goto(i, "ended") /\ UNCHANGED acked
  /\ UNCHANGED <<cmd, text, deferred, shown, expired, serverVars, unsure>>

----------------------------------------------------------------------------
(* api-client.ts and the VM API. *)

\* What the API does for each request: it changes the table, or only reads it.  A task
\* that is created is one of Task, or one that no other command asks for.
CreateTask ==
  \/ \E t \in Task : row[t] = Absent /\ row' = [row EXCEPT ![t] = "starting"]
  \/ UNCHANGED row
GetTask(t) == row[t] # Absent /\ UNCHANGED row
ListTasks == UNCHANGED row
ResumeTask(t) == row[t] = "suspended" /\ row' = [row EXCEPT ![t] = "running"]
DeleteTask(t) == row[t] # Absent /\ row' = [row EXCEPT ![t] = "terminated"]

\* All the tasks of the user, the terminated ones too, or those of the status asked for.
Listed(c) == {t \in Task : row[t] # Absent /\ c.status \in {"all", row[t]}}

\* What each command asks of the API, and what it says when it has been done.
Spawn(c)     == c.name = "spawn" /\ CreateTask
SpawnFile(c) == c.name = "spawn-file" /\ CreateTask
Status(c)    == c.name = "status" /\ GetTask(c.task)
Resume(c)    == c.name = "resume" /\ ResumeTask(c.task)
Stop(c)      == c.name = "stop" /\ DeleteTask(c.task)
List(c)      == c.name = "list" /\ ListTasks
Does(c) == Spawn(c) \/ SpawnFile(c) \/ Status(c) \/ Resume(c) \/ Stop(c) \/ List(c)
SaysDone(c) == IF c.name = "list" /\ Listed(c) = {} THEN "no agents" ELSE "done"

\* The request of a command that has ended with the bot is answered all the same, and
\* nobody hears it.
ApiAnswers(i) ==
  /\ pc[i] = "call" /\ i \notin did
  /\ Does(cmd[i])
  /\ did' = did \cup {i}
  /\ \/ Say(i, SaysDone(cmd[i]), "reply") /\ UNCHANGED <<faults, unsure>>
     \/ Say(i, "failed", "last") /\ Fault /\ unsure' = unsure \cup {i}
  /\ UNCHANGED <<alive, cmd, deferred, seenVars, expired, failed>>

\* 404, or the status is not the one it must be; or the request is lost, or the API
\* cannot do it.
Refused(c) ==
  \/ c.name \in {"stop", "status"} /\ row[c.task] = Absent
  \/ c.name = "resume" /\ row[c.task] # "suspended"
ApiRefuses(i) ==
  /\ pc[i] = "call" /\ i \notin did
  /\ IF Refused(cmd[i]) THEN UNCHANGED faults ELSE Fault
  /\ Say(i, "failed", "last")
  /\ UNCHANGED <<alive, cmd, deferred, seenVars, expired, serverVars, failed, unsure>>

\* Meanwhile a boot ends, well or not, the web UI stops a task, or an operator
\* suspends one.
RowChanges(t) ==
  /\ \/ row[t] = "starting" /\ row' = [row EXCEPT ![t] = "running"]
     \/ row[t] = "running" /\ row' = [row EXCEPT ![t] = "suspended"]
     \/ row[t] \in TaskStatus \ {"terminated"} /\ row' = [row EXCEPT ![t] = "terminated"]
  /\ UNCHANGED <<alive, pc, cmd, text, deferred, seenVars, expired, did, faults, failed, unsure>>

----------------------------------------------------------------------------
Bot(i) == Defer(i) \/ Fetch(i) \/ Reply(i) \/ LastReply(i) \/ CatchAll(i)
Api(i) == ApiAnswers(i) \/ ApiRefuses(i)

Next ==
  \/ \E i \in Interaction : Receive(i) \/ Bot(i) \/ Api(i) \/ Expires(i)
  \/ \E t \in Task : RowChanges(t)

Spec == Init /\ [][Next]_vars

\* The event loop runs what is due, and the API answers.
FairSpec == Spec /\ \A i \in Interaction : WF_vars(Bot(i)) /\ WF_vars(Api(i))

----------------------------------------------------------------------------
(* Properties. *)

\* What users read is what has happened: a success only of what the API has done, a
\* failure only of what it has not.  The exception is a command whose response from
\* the API, or whose message of success, was lost: it says "Failed to ..." of
\* something done.  What is refused before the API is asked is never done.
SaysWhatItDid ==
  \A i \in Interaction :
    /\ shown[i] \in {"done", "no agents"} => i \in did
    /\ shown[i] = "failed" /\ i \in did => i \in unsure
    /\ shown[i] \in {"invalid", "too large"} => i \notin did

\* No command of the bot ends in silence: it leaves a reply or an error note, or took the
\* bot with it; and the bot ends only by a command two of whose calls Discord failed, or
\* whose acknowledgement it took while the bot was told it had not.
Abandoned(i) == failed[i] >= 2 \/ i \in acked \ deferred
NoSilentEnd ==
  /\ \A i \in Interaction :
       pc[i] = "ended" /\ cmd[i].name # "unregistered" =>
         shown[i] # "nothing" \/ i \in noted \/ ~alive
  /\ ~alive => \E i \in Interaction : Abandoned(i)

\* Every command is answered in the end, whatever the API does, with a reply or with
\* an error.  The exception is a bot that has ended.
Answered ==
  \A i \in Interaction :
    pc[i] = "received" ~>
      \/ shown[i] # "nothing" \/ i \in noted
      \/ ~alive /\ \E j \in Interaction : Abandoned(j)
=============================================================================
