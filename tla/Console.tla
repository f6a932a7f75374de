------------------------------ MODULE Console ------------------------------
(***************************************************************************)
(* client/component/console.cpp and rcon.cpp: the way of a message.        *)
(*                                                                         *)
(* Any thread may print.  Its message goes to the sender of an rcon        *)
(* request while one is executed, else into the queue `messages', which    *)
(* the "Console" thread empties into the console's window.  What is        *)
(* written to stdout comes out of a pipe that the "Console IO" thread      *)
(* reads, and is printed by it.  Who flushes stdout holds stdio's lock     *)
(* until the pipe has taken every piece.  pre_destroy ends both threads:   *)
(* it writes to stdout, so that the reader, asleep in _read, wakes up and  *)
(* sees the flag.                                                          *)
(***************************************************************************)
EXTENDS Integers, Sequences, SequencesExt, FiniteSetsExt

CONSTANTS
  Printer,      \* threads that print
  MainThread,   \* the one of them that handles rcon requests
  MaxPrints,    \* BOUND: thread -> its messages
  MaxWrites,    \* BOUND: pieces written to stdout
  PipeSize      \* pieces the pipe holds, 1024 bytes

ASSUME ConsoleAssumption ==
  /\ MainThread \in Printer /\ "reader" \notin Printer
  /\ MaxPrints \in [Printer -> Nat] /\ MaxWrites \in Nat /\ PipeSize \in Nat \ {0}

VARIABLES
  messages,     \* the queue of messages
  logged,       \* messages in the console's window
  sent,         \* messages sent to the sender of an rcon request
  printing,     \* thread -> the message it is dispatching, <<>> if none
  printed,      \* thread -> how many it has printed
  redirecting,  \* is_redirecting_
  request,      \* the main thread executes an rcon request
  stdout,       \* pieces written and not yet flushed
  pipe,         \* pieces in the pipe
  reader,       \* where the "Console IO" thread is
  console_thread, \* where the "Console" thread is
  message_queue_copy, \* what it has taken out of the queue
  terminate_runner_,
  destroyer     \* how far pre_destroy is

messageVars == <<messages, logged, sent, printing, printed>>
stdoutVars == <<stdout, pipe>>
consoleVars == <<messageVars, redirecting, request, stdoutVars, reader, console_thread,
                 message_queue_copy, terminate_runner_, destroyer>>

Thread == Printer \cup {"reader"}
WakeUp == 0   \* the "\r\n" of pre_destroy, numbered below every piece

ConsoleInit ==
  /\ messages = <<>> /\ logged = <<>> /\ sent = <<>>
  /\ printing = [t \in Thread |-> <<>>]
  /\ printed = [t \in Thread |-> 0]
  /\ redirecting = FALSE /\ request = FALSE
  /\ stdout = <<>> /\ pipe = <<>>
  /\ reader = "none" /\ console_thread = "none"
  /\ message_queue_copy = <<>>
  /\ terminate_runner_ = FALSE
  /\ destroyer = "none"
-----------------------------------------------------------------------------
(* A message                                                               *)

\* print, append_text: dispatch_message is entered.
PrintMessage(t) ==
  /\ t = MainThread => destroyer \in {"none", "done"}
  /\ printing[t] = <<>> /\ printed[t] < MaxPrints[t]
  /\ printed' = [printed EXCEPT ![t] = @ + 1]
  /\ printing' = [printing EXCEPT ![t] = <<t, printed[t] + 1>>]
  /\ UNCHANGED <<messages, logged, sent, redirecting, request, stdoutVars, reader,
                 console_thread, message_queue_copy, terminate_runner_, destroyer>>

\* message_redirect sends it under the redirect's lock ...
Redirect(t) ==
  /\ printing[t] # <<>> /\ redirecting
  /\ sent' = Append(sent, printing[t])
  /\ printing' = [printing EXCEPT ![t] = <<>>]
  /\ UNCHANGED <<messages, logged, printed>>

\* ... or it is queued under the queue's.  A redirect that begins in between
\* does not look at the queue: the test and the queueing are one step.
Enqueue(t) ==
  /\ printing[t] # <<>> /\ ~redirecting
  /\ messages' = Append(messages, printing[t])
  /\ printing' = [printing EXCEPT ![t] = <<>>]
  /\ UNCHANGED <<logged, sent, printed>>

dispatch_message(t) ==
  /\ Redirect(t) \/ Enqueue(t)
  /\ UNCHANGED <<redirecting, request, stdoutVars, console_thread, message_queue_copy,
                 terminate_runner_, destroyer>>

\* The rcon request: redirect, the command, whose output are prints of the
\* main thread, and no redirect.
setup_redirect ==
  /\ console_thread # "none" /\ destroyer = "none"
  /\ ~request /\ printing[MainThread] = <<>> /\ printed[MainThread] < MaxPrints[MainThread]
  /\ request' = TRUE /\ redirecting' = TRUE
  /\ UNCHANGED <<messageVars, stdoutVars, reader, console_thread, message_queue_copy,
                 terminate_runner_, destroyer>>

clear_redirect ==
  /\ request /\ printing[MainThread] = <<>>
  /\ request' = FALSE /\ redirecting' = FALSE
  /\ UNCHANGED <<messageVars, stdoutVars, reader, console_thread, message_queue_copy,
                 terminate_runner_, destroyer>>
-----------------------------------------------------------------------------
(* stdout                                                                  *)

Written == Max(ToSet(stdout) \cup ToSet(pipe) \cup {printed["reader"]})

\* stdio's lock is held by who flushes.
Flushing == "flush" \in {console_thread, destroyer}

\* printf of the game or of ours; stdio keeps it until it is flushed.
Write ==
  /\ Written < MaxWrites /\ ~Flushing
  /\ stdout' = Append(stdout, Written + 1)
  /\ UNCHANGED <<messageVars, redirecting, request, pipe, reader, console_thread,
                 message_queue_copy, terminate_runner_, destroyer>>

\* The pipe takes a piece; a full one lets the writer wait.
FlushPiece ==
  /\ stdout # <<>> /\ Len(pipe) < PipeSize
  /\ pipe' = Append(pipe, Head(stdout))
  /\ stdout' = Tail(stdout)

\* runner: the flag is read, then the pipe, where the thread sleeps; what it
\* reads is one message, known by its last piece.
ReaderLoops ==
  /\ reader = "loop"
  /\ reader' = IF terminate_runner_ THEN "ended" ELSE "read"
  /\ UNCHANGED <<messageVars, pipe>>

ReaderReads ==
  /\ reader = "read" /\ pipe # <<>>
  /\ pipe' = <<>>
  /\ LET n == Max(ToSet(pipe))
     IN /\ printing' = [printing EXCEPT !["reader"] = <<"reader", n>>]
        /\ printed' = [printed EXCEPT !["reader"] = IF n = 0 THEN @ ELSE n]
  /\ reader' = "dispatch"
  /\ UNCHANGED <<messages, logged, sent>>

ReaderPrints ==
  /\ reader = "dispatch"
  /\ Redirect("reader") \/ Enqueue("reader")
  /\ reader' = "loop"
  /\ UNCHANGED pipe

runner ==
  /\ ReaderLoops \/ ReaderReads \/ ReaderPrints
  /\ UNCHANGED <<redirecting, request, stdout, console_thread, message_queue_copy,
                 terminate_runner_, destroyer>>
-----------------------------------------------------------------------------
(* The "Console" thread                                                    *)

\* Fault: the queue is moved from and not set to an empty one.
TakeKeeps ==
  /\ message_queue_copy' = messages
  /\ UNCHANGED messages

\* log_messages, under the lock.
TakeMessages ==
  /\ message_queue_copy' = messages
  /\ messages' = <<>>

\* The window's messages were looked at: there was none.
ConsoleLoops ==
  /\ console_thread = "loop"
  /\ IF terminate_runner_
     THEN console_thread' = "ended" /\ UNCHANGED <<messages, message_queue_copy>>
     ELSE console_thread' = "log" /\ TakeMessages
  /\ UNCHANGED <<logged, sent, printing, printed, stdoutVars>>

ConsoleLogs ==
  /\ console_thread = "log" /\ message_queue_copy # <<>>
  /\ logged' = Append(logged, Head(message_queue_copy))
  /\ message_queue_copy' = Tail(message_queue_copy)
  /\ UNCHANGED <<messages, sent, printing, printed, stdoutVars, console_thread>>

\* fflush: the lock, the pieces one by one, the lock given back.
ConsoleFlushes ==
  /\ \/ /\ console_thread = "log" /\ message_queue_copy = <<>> /\ ~Flushing
        /\ console_thread' = "flush" /\ UNCHANGED stdoutVars
     \/ /\ console_thread = "flush" /\ FlushPiece /\ UNCHANGED console_thread
     \/ /\ console_thread = "flush" /\ stdout = <<>>
        /\ console_thread' = "loop" /\ UNCHANGED stdoutVars
  /\ UNCHANGED <<messageVars, message_queue_copy>>

console_thread_ ==
  /\ ConsoleLoops \/ ConsoleLogs \/ ConsoleFlushes
  /\ UNCHANGED <<redirecting, request, reader, terminate_runner_, destroyer>>

\* WM_QUIT: the window was closed; "quit" is queued as a command of the game.
ConsoleQuits ==
  /\ console_thread = "loop"
  /\ console_thread' = "ended"
  /\ UNCHANGED <<messageVars, redirecting, request, stdoutVars, reader, message_queue_copy,
                 terminate_runner_, destroyer>>
-----------------------------------------------------------------------------
(* The component's life                                                    *)

\* post_start
ConsolePostStart ==
  /\ reader = "none" /\ destroyer = "none"
  /\ terminate_runner_' = FALSE
  /\ reader' = "loop"
  /\ UNCHANGED <<messageVars, redirecting, request, stdoutVars, console_thread,
                 message_queue_copy, destroyer>>

\* post_unpack
initialize ==
  /\ reader # "none" /\ console_thread = "none" /\ destroyer = "none"
  /\ console_thread' = "loop"
  /\ UNCHANGED <<messageVars, redirecting, request, stdoutVars, reader, message_queue_copy,
                 terminate_runner_, destroyer>>

\* pre_destroy is called by the main thread, outside of requests; also before
\* the threads are there, if the start was given up.
Terminate ==
  /\ destroyer = "none" /\ ~request /\ printing[MainThread] = <<>>
  /\ terminate_runner_' = TRUE
  /\ destroyer' = "print"
  /\ UNCHANGED <<messages, stdoutVars>>

\* Fault: the reader is left to itself.
DoNotWake ==
  /\ destroyer = "print" /\ ~Flushing
  /\ destroyer' = "printed"
  /\ UNCHANGED <<messages, stdoutVars, terminate_runner_>>

\* printf("\r\n")
Wake ==
  /\ destroyer = "print" /\ ~Flushing
  /\ stdout' = Append(stdout, WakeUp)
  /\ destroyer' = "printed"
  /\ UNCHANGED <<messages, pipe, terminate_runner_>>

\* _flushall(); what it finds may have been flushed meanwhile.
FlushAll ==
  /\ \/ destroyer = "printed" /\ ~Flushing /\ destroyer' = "flush" /\ UNCHANGED stdoutVars
     \/ destroyer = "flush" /\ FlushPiece /\ UNCHANGED destroyer
     \/ destroyer = "flush" /\ stdout = <<>> /\ destroyer' = "join" /\ UNCHANGED stdoutVars
  /\ UNCHANGED <<messages, terminate_runner_>>

Join ==
  /\ destroyer = "join"
  /\ {reader, console_thread} \subseteq {"none", "ended"}
  /\ messages' = <<>>
  /\ destroyer' = "done"
  /\ UNCHANGED <<stdoutVars, terminate_runner_>>

ConsolePreDestroy ==
  /\ Terminate \/ Wake \/ FlushAll \/ Join
  /\ UNCHANGED <<logged, sent, printing, printed, redirecting, request, reader,
                 console_thread, message_queue_copy>>

ConsoleNext ==
  \/ \E t \in Printer : PrintMessage(t) \/ (dispatch_message(t) /\ UNCHANGED reader)
  \/ setup_redirect
  \/ clear_redirect
  \/ Write
  \/ runner
  \/ console_thread_
  \/ ConsoleQuits
  \/ ConsolePostStart
  \/ initialize
  \/ ConsolePreDestroy
-----------------------------------------------------------------------------
(* Properties                                                              *)

Numbers(t, s) == {m[2] : m \in {m \in ToSet(s) : m[1] = t /\ m[2] # WakeUp}}
InOrder(s) ==
  \A i, j \in 1..Len(s) :
    i < j /\ s[i][1] = s[j][1] /\ WakeUp \notin {s[i][2], s[j][2]} => s[i][2] < s[j][2]

\* In the window, or on the way there.
Shown == logged \o (message_queue_copy \o messages)

\* However threads print, requests come and the window keeps up: every message
\* is in the window or on its way there, or was sent to the sender of a request,
\* never both and never twice, and the messages of a thread appear in the order
\* it printed them; none is lost before the console ends (dispatch_message,
\* log_messages, message_redirect).
MessagesInOrder ==
  /\ InOrder(Shown) /\ InOrder(sent)
  /\ \A t \in Thread : Numbers(t, Shown) \cap Numbers(t, sent) = {}
  /\ destroyer # "done" =>
       \A t \in Printer : Numbers(t, Shown) \cup Numbers(t, sent) =
                           (1..printed[t]) \ (IF printing[t] = <<>> THEN {} ELSE {printed[t]})

\* Nobody reads the pipe any more, it is full, and someone writes to it.
PipeLeftFull ==
  /\ reader \in {"none", "ended"} /\ Len(pipe) = PipeSize
  /\ stdout # <<>> /\ Flushing

\* Once pre_destroy has begun it ends, wherever the reader and the console's
\* thread are: the reader asleep in _read is woken, both threads are joined.
\* Only one thing keeps it from ending: the reader has seen the flag and ended,
\* and more is flushed than the pipe still takes, by _flushall or by the
\* console's thread, which is joined (console.cpp:90-106, 199-201).
ConsoleEnds == (destroyer = "print") ~> (destroyer = "done" \/ PipeLeftFull)
=============================================================================
