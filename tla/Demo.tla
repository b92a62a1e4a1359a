-------------------------------- MODULE Demo --------------------------------
(***************************************************************************)
(* The actors that kernel_main() starts, src/src/core/main.c, as programs  *)
(* on the kernel of Actors.tla: the mailbox trio (receiver, sender,        *)
(* intruder), the coordinator with its workers, the storage pipeline       *)
(* (downloader, scanner, reader, and the inspectors of the scanner), and   *)
(* the shell with the jobs that its user starts, stops and kills.          *)
(*                                                                         *)
(* A program is a table of labels, one syscall after each; what it prints  *)
(* is left out.  Its actor takes the step at its label when it is on the   *)
(* processor, and the timer may take the processor away before any step.   *)
(* A syscall that is refused goes on to the next label as well.  The disk  *)
(* works, and no program faults.                                           *)
(*                                                                         *)
(* A definition introduced by `Mistake:' is a plausible bug, used only to  *)
(* see that the properties would notice it.                                *)
(***************************************************************************)
EXTENDS Actors

CONSTANTS
  Casts,           \* bound: the boot actors to look at while the rest wait; whether this is the
                   \* first boot from the disk (FALSE) or a later one; which actors the timer
                   \* interrupts and how often (Endless, or a number); and how many commands
                   \* the shell gets
  ShellQuota,      \* 6
  SHELL_MAX_JOBS,  \* 8
  CountYields      \* 30: how often actor_slow_counter() yields

Endless == -1

\* The slots and the object ids that main.c fixes, without the gaps.
MAILBOX_RECEIVER_SLOT == 0
MAILBOX_SENDER_SLOT == 1
INTRUDER_SLOT == 2
COORDINATOR_SLOT == 3
DOWNLOADER_SLOT == 4
SCANNER_SLOT == 5
READER_SLOT == 6
SHELL_SLOT == 7
PAYLOAD_OBJECT_ID == 0
SUSPICIOUS_OBJECT_ID == 1
HELLO_PROGRAM_OBJECT_ID == 2
Object == {PAYLOAD_OBJECT_ID, SUSPICIOUS_OBJECT_ID}

BootProgram ==
  <<"receiver", "sender", "intruder", "coordinator", "downloader", "scanner", "reader", "shell">>
FirstLabel ==
  [receiver |-> "receive", sender |-> "yield", intruder |-> "send",
   coordinator |-> "spawn", worker |-> "receive",
   downloader |-> "write", scanner |-> "receive", reader |-> "receive",
   inspector |-> "receive", waiter |-> "receive",
   shell |-> "prompt", sink |-> "receive", source |-> "receive", counter |-> "count"]
Program == DOMAIN FirstLabel

\* The messages: their types, and their data where a program looks at it.
DemoPayload ==
  [type : {"hello", "TASK_SQUARE", "TASK_RESULT"}, data : {0}]
    \cup [type : {"MSG_DOWNLOAD_DONE", "MSG_SCAN_DONE", "TASK_INSPECT",
                  "MSG_CHECK_PASS", "MSG_CHECK_FAIL"}, data : Object]
    \cup [type : {"MSG_PIPE_INIT"}, data : Slot] \cup [type : {"MSG_PIPE_DATA"}, data : 1 .. 5]
    \cup [type : {"MSG_PLEASE_STOP"}, data : {0}]

DemoOp ==
  {"SEND", "SPAWN", "TERMINATE", "READ_OBJECT", "WRITE_OBJECT", "PROMOTE_OBJECT",
   "CONSOLE", "LIST_NAMES"}
Can(op, target) == [op |-> op, target |-> target]

\* What the scanner is granted.  Mistake: not the sending of the acknowledgement.
ScannerCapsNoAck ==
  {Can("READ_OBJECT", o) : o \in Object}
    \cup {Can("PROMOTE_OBJECT", 0), Can("SPAWN", 0), Can("SEND", READER_SLOT)}

ScannerCaps ==
  {Can("READ_OBJECT", o) : o \in Object}
    \cup {Can("PROMOTE_OBJECT", 0), Can("SPAWN", 0),
          Can("SEND", READER_SLOT), Can("SEND", DOWNLOADER_SLOT)}

\* The grants of kernel_main().
DemoBootCaps == [s \in Slot |->
  CASE s = MAILBOX_SENDER_SLOT -> {Can("SEND", MAILBOX_RECEIVER_SLOT)}
    [] s = COORDINATOR_SLOT -> {Can("SPAWN", 0)}
    [] s = DOWNLOADER_SLOT ->
         {Can("WRITE_OBJECT", o) : o \in Object} \cup {Can("SEND", SCANNER_SLOT)}
    [] s = SCANNER_SLOT -> ScannerCaps
    [] s = READER_SLOT -> {Can("READ_OBJECT", o) : o \in Object}
    [] s = SHELL_SLOT ->
         {Can("CONSOLE", 0), Can("SPAWN", 0), Can("LIST_NAMES", 0),
          Can("READ_OBJECT", HELLO_PROGRAM_OBJECT_ID)}
    [] OTHER -> {}]

\* Mistake: a quota for which the shell's table of capabilities is too small.
DemoBootQuotaLavish == [s \in Slot |->
  IF s = SHELL_SLOT THEN MAX_CAPS_PER_ACTOR ELSE MAX_SPAWNS_PER_ACTOR]

\* actor_set_spawn_quota(), for the shell.
DemoBootQuota == [s \in Slot |->
  IF s = SHELL_SLOT THEN ShellQuota ELSE MAX_SPAWNS_PER_ACTOR]

VARIABLES
  program,   \* program[s]: what the actor in slot s runs
  pc,        \* pc[s]: the label it has reached
  local,     \* local[s]: its variables
  object,    \* object[o]: contents and trust, as the syscalls find them
  seen,      \* history: seen[o] is what the reader found when it read o
  passed,    \* history: the objects whose contents an inspector has passed
  shell,     \* its job_slots, the commands still to come from its user, and as history
             \* the sinks that it has left without a source
  knows,     \* history: the slots whose present actors the one in a slot has to do with
  misled,    \* history: the slots whose present actor was sent a message not meant for it
  mishaps,   \* history: which programs were refused a child, terminated or misled
  ticks      \* how many ticks of the timer are to come, and on whom
world == <<object, seen, passed, shell>>
history == <<knows, misled, mishaps>>
outside == <<world, history, ticks>>   \* what most steps leave alone
progvars == <<program, pc, local, outside>>
demovars == <<vars, progvars>>

\* The passes through a loop, the child spawned and the one before it, the
\* object scanned, the sum of a sink, and the message last received.
FirstLocal ==
  [round |-> 0, child |-> NoActor, first |-> NoActor, sum |-> 0, id |-> PAYLOAD_OBJECT_ID,
   sender |-> NoActor, type |-> "none", data |-> 0]
NotRead == [bad |-> FALSE, trust |-> "none"]
Trust == {"UNTRUSTED", "QUARANTINED", "ANALYZED", "TRUSTED", "REJECTED"}

-----------------------------------------------------------------------------
\* The syscalls, as the current actor makes them.
me == current_actor
At(p, label) == Running /\ program[me] = p /\ pc[me] = label
Goto(label) == pc' = [pc EXCEPT ![me] = label]

\* One pass more through a loop of n.
Count(n, again, done) ==
  /\ local' = [local EXCEPT ![me].round = IF @ + 1 = n THEN 0 ELSE @ + 1]
  /\ Goto(IF local[me].round + 1 = n THEN done ELSE again)

\* A slot is an address and its actors come and go: what was meant for one
\* may reach another.  Nobody expects to be told to stop.
Reaches(dest, type) ==
  LET stray == dest \notin knows[me] \/ type = "MSG_PLEASE_STOP"
  IN  /\ misled' = IF stray THEN misled \cup {dest} ELSE misled
      /\ mishaps' = IF stray THEN mishaps \cup {<<"misled", program[dest]>>} ELSE mishaps
      /\ UNCHANGED knows

user_send(dest, type, data) ==
  IF SendAllowed(dest)
  THEN actor_send(dest, [type |-> type, data |-> data]) /\ Reaches(dest, type)
  ELSE UNCHANGED <<vars, history>>

user_grant(dest, op, target) ==
  IF actor_has_cap(me, op, target)
  THEN /\ actor_delegate(dest, op, target)
       /\ knows' = IF op = "SEND" /\ {dest, target} \subseteq knows[me]
                   THEN [knows EXCEPT ![dest] = @ \cup {target}] ELSE knows
       /\ UNCHANGED <<misled, mishaps>>
  ELSE UNCHANGED <<vars, history>>

user_terminate(target) ==
  IF TerminateAllowed(target)
  THEN /\ actor_terminate(target)
       /\ mishaps' = IF state[target] = "DEAD" THEN mishaps
                     ELSE mishaps \cup {<<"terminated", program[target]>>}
       /\ UNCHANGED <<knows, misled>>
  ELSE UNCHANGED <<vars, history>>

\* SYS_RECEIVE returns, to the label, when there is a message.
user_receive(label) ==
  /\ actor_receive
  /\ IF mailbox[me] = << >>
     THEN UNCHANGED <<pc, local>>
     ELSE LET m == Head(mailbox[me])
          IN  /\ Goto(label)
              /\ local' = [local EXCEPT ![me].sender = m.sender,
                             ![me].type = m.payload.type, ![me].data = m.payload.data]

\* SYS_SPAWN goes on to one label or to the other.
SpawnRefused == ~(MaySpawn /\ CanSpawn)
user_spawn(entry, spawned, refused) ==
  IF SpawnRefused
  THEN /\ IF MaySpawn THEN SpawnFails ELSE UNCHANGED vars
       /\ Goto(refused)
       /\ mishaps' = mishaps \cup {<<"refused", program[me]>>}
       /\ UNCHANGED <<program, local, knows, misled>>
  ELSE /\ actor_spawn_child
       /\ program' = [program EXCEPT ![FirstDead] = entry]
       /\ pc' = [pc EXCEPT ![FirstDead] = FirstLabel[entry], ![me] = spawned]
       /\ local' = [local EXCEPT ![FirstDead] = FirstLocal,
                      ![me].child = FirstDead, ![me].first = local[me].child,
                      ![me].id = local[me].data]
       /\ knows' = [s \in Slot |-> CASE s = FirstDead -> {me}
                                     [] s = me -> knows[me] \cup {FirstDead}
                                     [] OTHER -> knows[s] \ {FirstDead}]
       /\ misled' = misled \ {FirstDead}
       /\ UNCHANGED mishaps

\* The SYS_OBJECT_ calls: the capability is the caller's, the trust decides
\* the rest.
ReadAllowed(o) == actor_has_cap(me, "READ_OBJECT", o) /\ object[o].trust # "REJECTED"
user_object_write(o, bad) ==
  IF actor_has_cap(me, "WRITE_OBJECT", o)
  THEN /\ object' = [object EXCEPT ![o] = [bad |-> bad, trust |-> "UNTRUSTED"]]
       /\ passed' = passed \ {o}
  ELSE UNCHANGED <<object, passed>>

Promoted == [UNTRUSTED |-> "QUARANTINED", QUARANTINED |-> "ANALYZED", ANALYZED |-> "TRUSTED",
             TRUSTED |-> "TRUSTED", REJECTED |-> "REJECTED"]

\* Mistake: nobody asks for the capability.
user_object_promote_anyone(o) == object' = [object EXCEPT ![o].trust = Promoted[@]]

user_object_promote(o) ==
  object' = IF actor_has_cap(me, "PROMOTE_OBJECT", 0)
            THEN [object EXCEPT ![o].trust = Promoted[@]]
            ELSE object
user_object_reject(o) ==
  object' = IF actor_has_cap(me, "PROMOTE_OBJECT", 0)
            THEN [object EXCEPT ![o].trust = "REJECTED"]
            ELSE object

\* A call after which the program goes on to the next label.
Then(label) == Goto(label) /\ UNCHANGED <<program, local, world, ticks>>
Receive(label) == user_receive(label) /\ UNCHANGED <<program, outside>>

-----------------------------------------------------------------------------
\* The programs.
user_exit ==
  /\ \E p \in Program : At(p, "exit")
  /\ actor_exit
  /\ local' = [local EXCEPT ![me] = FirstLocal]
  /\ UNCHANGED <<program, pc, outside>>

actor_mailbox_receiver ==
  \/ At("receiver", "receive") /\ Receive("got")
  \/ /\ At("receiver", "got") /\ Count(2, "receive", "exit")
     /\ UNCHANGED <<vars, program, outside>>

actor_mailbox_sender ==
  \/ /\ At("sender", "yield") /\ SysYield /\ Count(3, "yield", "send")
     /\ UNCHANGED <<program, outside>>
  \/ /\ At("sender", "send")
     /\ user_send(MAILBOX_RECEIVER_SLOT, "hello", 0) /\ Then("delegate")
  \/ /\ At("sender", "delegate")
     /\ user_grant(INTRUDER_SLOT, "SEND", MAILBOX_RECEIVER_SLOT) /\ Then("exit")

\* The read that it tries as well would change nothing.
actor_intruder ==
  \/ At("intruder", "send") /\ user_send(MAILBOX_RECEIVER_SLOT, "hello", 0) /\ Then("yield")
  \/ /\ At("intruder", "yield") /\ SysYield /\ Count(5, "yield", "send_again")
     /\ UNCHANGED <<program, outside>>
  \/ At("intruder", "send_again") /\ user_send(MAILBOX_RECEIVER_SLOT, "hello", 0) /\ Then("spawn")
  \/ /\ At("intruder", "spawn") /\ user_spawn("worker", "terminate", "terminate")
     /\ UNCHANGED <<world, ticks>>
  \/ At("intruder", "terminate") /\ user_terminate(MAILBOX_RECEIVER_SLOT) /\ Then("write")
  \/ /\ At("intruder", "write")
     /\ user_object_write(PAYLOAD_OBJECT_ID, FALSE) /\ Goto("promote")
     /\ UNCHANGED <<vars, program, local, seen, shell, history, ticks>>
  \/ /\ At("intruder", "promote")
     /\ user_object_promote(PAYLOAD_OBJECT_ID) /\ Goto("exit")
     /\ UNCHANGED <<vars, program, local, seen, passed, shell, history, ticks>>

actor_worker ==
  \/ At("worker", "receive") /\ Receive("reply")
  \/ At("worker", "reply") /\ user_send(local[me].sender, "TASK_RESULT", 0) /\ Then("exit")

actor_coordinator ==
  \/ /\ \E l \in {<<"spawn", "task">>, <<"spawn2", "task2">>, <<"spawn3", "exit">>} :
          At("coordinator", l[1]) /\ user_spawn("worker", l[2], "exit")
     /\ UNCHANGED <<world, ticks>>
  \/ /\ \E l \in {<<"task", "result">>, <<"task2", "yield">>} :
          /\ At("coordinator", l[1])
          /\ user_send(local[me].child, "TASK_SQUARE", 0) /\ Then(l[2])
  \/ At("coordinator", "result") /\ Receive("spawn2")
  \/ /\ At("coordinator", "yield") /\ SysYield /\ Count(2, "yield", "terminate")
     /\ UNCHANGED <<program, outside>>
  \/ /\ At("coordinator", "terminate")
     /\ user_terminate(local[me].child) /\ Then("spawn3")

\* Mistake: the second object does not wait for the first one's verdict.
actor_downloader_hasty ==
  \/ /\ \E l \in {<<"write", "signal", PAYLOAD_OBJECT_ID>>,
                  <<"write2", "signal2", SUSPICIOUS_OBJECT_ID>>} :
          /\ At("downloader", l[1])
          /\ user_object_write(l[3], l[3] = SUSPICIOUS_OBJECT_ID) /\ Goto(l[2])
     /\ UNCHANGED <<vars, program, local, seen, shell, history, ticks>>
  \/ \E l \in {<<"signal", "write2", PAYLOAD_OBJECT_ID>>,
               <<"signal2", "exit", SUSPICIOUS_OBJECT_ID>>} :
       At("downloader", l[1]) /\ user_send(SCANNER_SLOT, "MSG_DOWNLOAD_DONE", l[3]) /\ Then(l[2])

actor_downloader ==
  \/ /\ \E l \in {<<"write", "signal", PAYLOAD_OBJECT_ID>>,
                  <<"write2", "signal2", SUSPICIOUS_OBJECT_ID>>} :
          /\ At("downloader", l[1])
          /\ user_object_write(l[3], l[3] = SUSPICIOUS_OBJECT_ID) /\ Goto(l[2])
     /\ UNCHANGED <<vars, program, local, seen, shell, history, ticks>>
  \/ \E l \in {<<"signal", "ack", PAYLOAD_OBJECT_ID>>,
               <<"signal2", "exit", SUSPICIOUS_OBJECT_ID>>} :
       At("downloader", l[1]) /\ user_send(SCANNER_SLOT, "MSG_DOWNLOAD_DONE", l[3]) /\ Then(l[2])
  \/ At("downloader", "ack") /\ Receive("write2")

actor_inspector ==
  \/ At("inspector", "receive") /\ Receive("read")
  \/ /\ At("inspector", "read")
     /\ LET id == local[me].data
            bad == ReadAllowed(id) /\ object[id].bad
        IN  /\ passed' = IF ReadAllowed(id) /\ ~bad THEN passed \cup {id} ELSE passed
            /\ Goto(IF bad THEN "fail" ELSE "pass")
     /\ UNCHANGED <<vars, program, local, object, seen, shell, history, ticks>>
  \/ \E l \in {<<"fail", "MSG_CHECK_FAIL">>, <<"pass", "MSG_CHECK_PASS">>} :
       /\ At("inspector", l[1])
       /\ user_send(local[me].sender, l[2], local[me].data) /\ Then("exit")

\* The calls of actor_scan_object() after the verdict, in order.
\* Mistake: the reader is told before the last promotion.
AfterCallEarly ==
  [reject |-> "tell_reader", promote |-> "promote2", promote2 |-> "tell_reader",
   promote3 |-> "tell_downloader", tell_reader |-> "promote3", tell_downloader |-> "loop"]

AfterCall ==
  [reject |-> "tell_reader", promote |-> "promote2", promote2 |-> "promote3",
   promote3 |-> "tell_reader", tell_reader |-> "tell_downloader", tell_downloader |-> "loop"]

actor_scan_object ==
  \/ /\ At("scanner", "spawn") /\ user_spawn("inspector", "grant", "loop")
     /\ UNCHANGED <<world, ticks>>
  \/ /\ At("scanner", "grant")
     /\ user_grant(local[me].child, "READ_OBJECT", local[me].id) /\ Then("task")
  \/ /\ At("scanner", "task")
     /\ user_send(local[me].child, "TASK_INSPECT", local[me].id) /\ Then("receive_verdict")
  \/ At("scanner", "receive_verdict") /\ Receive("verdict")
  \/ /\ At("scanner", "verdict")
     /\ Then(IF local[me].type = "MSG_CHECK_FAIL" THEN "reject" ELSE "promote")
     /\ UNCHANGED <<vars, history>>
  \/ \E l \in {"reject", "promote", "promote2", "promote3"} :
       /\ At("scanner", l)
       /\ IF l = "reject" THEN user_object_reject(local[me].id)
                          ELSE user_object_promote(local[me].id)
       /\ Goto(AfterCall[l])
       /\ UNCHANGED <<vars, program, local, seen, passed, shell, history, ticks>>
  \/ \E l \in {<<"tell_reader", READER_SLOT>>, <<"tell_downloader", DOWNLOADER_SLOT>>} :
       /\ At("scanner", l[1])
       /\ user_send(l[2], "MSG_SCAN_DONE", local[me].id) /\ Then(AfterCall[l[1]])

actor_scanner ==
  \/ At("scanner", "receive") /\ Receive("spawn")
  \/ actor_scan_object
  \/ /\ At("scanner", "loop") /\ Count(2, "receive", "exit")
     /\ UNCHANGED <<vars, program, outside>>

actor_reader ==
  \/ At("reader", "receive") /\ Receive("read")
  \/ /\ At("reader", "read")
     /\ seen' = [seen EXCEPT ![local[me].data] = object[local[me].data]]
     /\ Count(2, "receive", "exit")
     /\ UNCHANGED <<vars, program, object, passed, shell, history, ticks>>

-----------------------------------------------------------------------------
\* The shell and its jobs.
actor_pipe_sink ==
  \/ At("sink", "receive") /\ Receive("got")
  \/ /\ At("sink", "got")
     /\ local' = [local EXCEPT ![me].sum = @ + local[me].data,
                              ![me].round = IF @ = 4 THEN 0 ELSE @ + 1]
     /\ Goto(IF local[me].round = 4 THEN "exit" ELSE "receive")
     /\ UNCHANGED <<vars, program, outside>>

\* Mistake: the values from 0 on.
actor_pipe_source_from_zero ==
  \/ At("source", "receive") /\ Receive("send")
  \/ /\ At("source", "send")
     /\ user_send(local[me].data, "MSG_PIPE_DATA", local[me].round) /\ Count(5, "send", "exit")
     /\ UNCHANGED <<program, world, ticks>>

actor_pipe_source ==
  \/ At("source", "receive") /\ Receive("send")
  \/ /\ At("source", "send")
     /\ user_send(local[me].data, "MSG_PIPE_DATA", local[me].round + 1) /\ Count(5, "send", "exit")
     /\ UNCHANGED <<program, world, ticks>>

\* It never looks at its mailbox.
actor_slow_counter ==
  /\ At("counter", "count") /\ SysYield /\ Count(CountYields, "count", "exit")
  /\ UNCHANGED <<program, outside>>

WirePipe == user_grant(local[me].child, "SEND", local[me].first)

\* job_slots
Listed(slots, room) ==
  shell' = [shell EXCEPT !.jobs = IF Len(@) + room <= SHELL_MAX_JOBS THEN @ \o slots ELSE @]

\* A command of the user.
Command ==
  /\ At("shell", "prompt") /\ shell.commands > 0
  /\ shell' = [shell EXCEPT !.commands = @ - 1]
  /\ UNCHANGED <<object, seen, passed, ticks>>
Stays == UNCHANGED <<program, pc, local>>

ShellCommands ==
  \/ Command /\ user_spawn("counter", "list", "prompt")
  \/ Command /\ user_spawn("sink", "pipe_source", "prompt")
  \/ \E t \in Slot : Command /\ user_send(t, "MSG_PLEASE_STOP", 0) /\ Stays
  \/ \E t \in Slot : Command /\ user_terminate(t) /\ Stays
  \/ Command /\ Goto("exit") /\ UNCHANGED <<vars, program, local, history>>

\* shell_read_line() yields until a key is there; `count', `pipe', `stop',
\* `kill' and `exit' change the state of the kernel.
actor_shell ==
  \/ At("shell", "prompt") /\ SysYield /\ UNCHANGED progvars
  \/ ShellCommands
  \/ /\ At("shell", "list") /\ Listed(<<local[me].child>>, 1) /\ Goto("prompt")
     /\ UNCHANGED <<vars, program, local, object, seen, passed, history, ticks>>
  \/ /\ At("shell", "pipe_source") /\ user_spawn("source", "pipe_grant", "prompt")
     /\ shell' = IF SpawnRefused THEN [shell EXCEPT !.sourceless = @ \cup {local[me].child}] ELSE shell
     /\ UNCHANGED <<object, seen, passed, ticks>>
  \/ At("shell", "pipe_grant") /\ WirePipe /\ Then("pipe_init")
  \/ /\ At("shell", "pipe_init")
     /\ user_send(local[me].child, "MSG_PIPE_INIT", local[me].first) /\ Then("pipe_list")
  \/ /\ At("shell", "pipe_list")
     /\ Listed(<<local[me].first, local[me].child>>, 2) /\ Goto("prompt")
     /\ UNCHANGED <<vars, program, local, object, seen, passed, history, ticks>>

\* A boot actor outside the cast waits for a message that nobody sends.
Wait == At("waiter", "receive") /\ Receive("receive")

-----------------------------------------------------------------------------
\* The objects are fresh, or as an earlier boot from this disk left them when
\* its actors had finished.
DemoInit ==
  /\ Init
  /\ \E cast \in Casts :
       /\ program = [s \in Slot |-> IF s \in cast.slots THEN BootProgram[s + 1] ELSE "waiter"]
       /\ object = [o \in Object |->
            IF ~cast.again THEN [bad |-> FALSE, trust |-> "UNTRUSTED"]
            ELSE IF o = PAYLOAD_OBJECT_ID THEN [bad |-> FALSE, trust |-> "TRUSTED"]
            ELSE [bad |-> TRUE, trust |-> "REJECTED"]]
       /\ passed = IF cast.again THEN {PAYLOAD_OBJECT_ID} ELSE {}
       /\ shell = [jobs |-> << >>, commands |-> cast.commands, sourceless |-> {}]
       /\ ticks = cast.ticks
  /\ pc = [s \in Slot |-> FirstLabel[program[s]]]
  /\ local = [s \in Slot |-> FirstLocal]
  /\ seen = [o \in Object |-> NotRead]
  /\ knows = [s \in Slot |-> 0 .. BOOT_ACTORS - 1]   \* the slots that main.c fixes
  /\ misled = {} /\ mishaps = {}

Programs ==
  \/ user_exit
  \/ actor_mailbox_receiver \/ actor_mailbox_sender \/ actor_intruder
  \/ actor_coordinator \/ actor_worker
  \/ actor_downloader \/ actor_scanner \/ actor_inspector \/ actor_reader
  \/ actor_shell \/ actor_pipe_sink \/ actor_pipe_source \/ actor_slow_counter
  \/ Wait
\* Bound: no tick between two actors that only wait.
Tick ==
  /\ TimerTick /\ program[me] # "waiter"
  /\ ticks.left # 0 /\ me \in ticks.on
  /\ ticks' = IF ticks.left = Endless THEN ticks ELSE [ticks EXCEPT !.left = @ - 1]
  /\ UNCHANGED <<program, pc, local, world, history>>
Kernel ==
  \/ Tick
  \/ (BootSpawn \/ BootStart \/ Halted) /\ UNCHANGED progvars
DemoNext == Programs \/ Kernel

\* The machine never stops.  A syscall takes much less than the 10ms between two
\* ticks of the timer: an actor that is on the processor again and again gets on
\* with its program.  That has to be assumed only when the ticks have no end, and
\* only of the actors on which WrittenGetsVerdict depends, the pipeline and the
\* spawned ones.
Diligent ==
  {DOWNLOADER_SLOT, SCANNER_SLOT} \cup (BOOT_ACTORS .. MAX_ACTORS - 1)
DemoSpec == DemoInit /\ [][DemoNext]_demovars
DemoFairSpec ==
  /\ DemoSpec
  /\ WF_demovars(DemoNext)
  /\ \A s \in Diligent : SF_demovars(ticks.left = Endless /\ current_actor = s /\ Programs)

-----------------------------------------------------------------------------
\* Nobody takes a message for another one, though each has one mailbox for all
\* that it hears: the correctness requirement of the comment on
\* actor_downloader(), for every receive of the pipeline and the workers.  That
\* is so of every actor but one that was sent something meant for an actor
\* which had its slot before, or told to stop by the user of the shell.  The
\* mailbox receiver hears the sender first and the intruder then, who cannot
\* send before the sender, having used its capability, delegates it.
Expected ==
  [worker |-> [reply |-> {"TASK_SQUARE"}],
   coordinator |-> [spawn2 |-> {"TASK_RESULT"}],
   downloader |-> [write2 |-> {"MSG_SCAN_DONE"}],
   scanner |-> [spawn |-> {"MSG_DOWNLOAD_DONE"}, verdict |-> {"MSG_CHECK_PASS", "MSG_CHECK_FAIL"}],
   inspector |-> [read |-> {"TASK_INSPECT"}],
   reader |-> [read |-> {"MSG_SCAN_DONE"}]]
SenderHeardFirst ==
  LET r == MAILBOX_RECEIVER_SLOT
  IN  program[r] = "receiver" /\ local[r].sender # NoActor =>
        local[r].sender = IF <<pc[r], local[r].round>> \in {<<"got", 0>>, <<"receive", 1>>}
                          THEN MAILBOX_SENDER_SLOT ELSE INTRUDER_SLOT
NoMessageMisread ==
  /\ \A s \in Slot \ misled : program[s] \in DOMAIN Expected =>
       \A l \in DOMAIN Expected[program[s]] :
         pc[s] = l => local[s].type \in Expected[program[s]][l]
  /\ SenderHeardFirst

\* Trust is earned: what is past UNTRUSTED, those very contents passed an
\* inspection and are not bad; what is rejected is bad.
TrustEarned ==
  \A o \in Object :
    /\ object[o].trust \in {"QUARANTINED", "ANALYZED", "TRUSTED"} => o \in passed /\ ~object[o].bad
    /\ object[o].trust = "REJECTED" => object[o].bad

\* What the reader reads is the scanner's final verdict, and stays so
\* (main.c's comment on actor_reader()).
ReadsFinalVerdict ==
  \A o \in Object :
    seen[o] # NotRead => seen[o] = object[o] /\ object[o].trust \in {"TRUSTED", "REJECTED"}

\* What the downloader writes gets its verdict, through all the waiting of the
\* pipeline (main.c's top comment on the storage pipeline).  There are three ways
\* to miss it: the scanner is refused an inspector, all slots being taken (it
\* then tells nobody); the inspector is terminated; or it hears something else
\* first.  The last two need somebody's capability for an earlier actor in the
\* inspector's slot.
Decided(o) == object[o].trust \in {"TRUSTED", "REJECTED"}
NoInspection ==
  {<<"refused", "scanner">>, <<"terminated", "inspector">>, <<"misled", "inspector">>}
WrittenGetsVerdict ==
  (program[SCANNER_SLOT] = "scanner" /\ \E o \in Object : ~Decided(o))
    ~> (\A o \in Object : Decided(o)) \/ mishaps \cap NoInspection # {}

Alive(s, p) == state[s] # "DEAD" /\ program[s] = p

\* No value of a pipe is lost, doubled or left behind: between what its source
\* has sent and what its sink has taken lies what is in the sink's mailbox, and
\* the sum comes to 15.  This holds unless a part of a pipe is terminated, by
\* the user or by the coordinator for the worker that had its slot before, or
\* hears what is no part of it: the user's `stop', or the scanner's message to
\* the downloader when that had its slot before.
TakenOrWaiting(t) ==
  local[t].round + Len(mailbox[t]) + (IF pc[t] = "got" THEN 1 ELSE 0)
PipeExact ==
  mishaps \cap ({"terminated", "misled"} \X {"source", "sink"}) = {} =>
    /\ \A s \in Slot : Alive(s, "source") /\ pc[s] = "send" /\ Alive(local[s].data, "sink") =>
         TakenOrWaiting(local[s].data) = local[s].round
    /\ \A t \in Slot : Alive(t, "sink") =>
         IF pc[t] = "exit" THEN local[t].sum = 15
         ELSE \/ TakenOrWaiting(t) \in {0, 5}
              \/ \E s \in Slot : Alive(s, "source") /\ pc[s] = "send" /\ local[s].data = t

\* The shell, while it lives, holds what `stop' and `kill' need for each of its
\* jobs that lives, and finds it among its `jobs': the quota leaves room in its
\* tables for every child.  The one job that is not listed is the sink of a pipe
\* whose source could not be spawned.  (That a job heeds `stop' is not said:
\* actor_slow_counter() never looks at its mailbox, against its comment.)
JobsInReach ==
  Alive(SHELL_SLOT, "shell") =>
    \A s \in Slot : state[s] # "DEAD" /\ program[s] \in {"sink", "source", "counter"} =>
      /\ actor_has_cap(SHELL_SLOT, "SEND", s) /\ actor_has_cap(SHELL_SLOT, "TERMINATE", s)
      /\ \/ pc[SHELL_SLOT] \in {"list", "pipe_source", "pipe_grant", "pipe_init", "pipe_list"}
         \/ \E j \in DOMAIN shell.jobs : shell.jobs[j] = s
         \/ s \in shell.sourceless
=============================================================================
