------------------------------- MODULE GrpcStream ------------------------------
(******************************************************************************)
(* One stream of the client (remote/grpc_stream.cc, grpc_completion.cc), on   *)
(* two threads.  The worker queue runs the client's calls and the callbacks   *)
(* of the operations the stream gives to gRPC; the thread that polls gRPC's   *)
(* completion queue sees operations come back in any order and puts their     *)
(* callbacks on the worker queue.  To finish, the worker blocks until every   *)
(* operation is back, while their callbacks may be queued behind it.          *)
(*                                                                            *)
(* The call itself (the server and the network) is not the client's code.     *)
(******************************************************************************)
EXTENDS Naturals, Sequences

CONSTANTS MaxMessages,  \* bound: messages of the server
          MaxWrites     \* bound: messages of the client

ASSUME StreamAssumption == MaxMessages \in Nat /\ MaxWrites \in Nat

VARIABLES
    (* The call and the gRPC thread. *)
    call,         \* "alive", "failed" or "cancelled"
    said,         \* messages of the server that have come
    inGrpc,       \* operations that are not yet off the completion queue
    (* Between the threads. *)
    tasks,        \* the worker queue: operations that are back, and how
    ops,          \* every GrpcCompletion issued: its type and message, what
                  \* follows its success, whether it still has a callback
    (* The stream. *)
    started,
    observer,     \* whether there is an observer_
    completions,  \* completions_
    finished,     \* is_grpc_call_finished_
    active,       \* has_active_write_ of the BufferedWriter
    buffer,       \* its queue_
    worker,       \* "idle", or what a call or callback is blocked in
    ending,       \* who is told when the stream has ended: "none", "nobody" or
                  \* "observer"
    (* History, as in DuplexStream. *)
    heard, written, arrived, told

grpc == <<call, said, inGrpc>>
stream == <<started, observer, completions, finished, active, buffer, ending>>
history == <<heard, written, arrived, told>>
vars == <<grpc, tasks, ops, stream, worker, history>>

--------------------------------------------------------------------------------
Op(type, message, next) ==
    [type |-> type, message |-> message, next |-> next, callback |-> TRUE]

NewId == Len(ops) + 1

\* Mutant: what is queued already still runs.
CancelledNever(S) == ops

\* GrpcCompletion::Cancel, for the completions in S.
Cancelled(S) == [i \in DOMAIN ops |-> IF i \in S
                                      THEN [ops[i] EXCEPT !.callback = FALSE]
                                      ELSE ops[i]]

\* NewCompletion, once the completions in done have been removed.
Issue(op, done) ==
    /\ ops' = Append(ops, op)
    /\ inGrpc' = inGrpc \cup {NewId}
    /\ completions' = (completions \ done) \cup {NewId}

RemoveCompletion(i) == completions' = completions \ {i}

\* Mutant: nothing is waited for.
DrainedAtOnce == TRUE

\* Every completion is off gRPC's queue: a blocked worker may go on.
Drained == completions \cap inGrpc = {}

Init ==
    /\ call = "alive" /\ said = 0 /\ inGrpc = {}
    /\ tasks = <<>> /\ ops = <<>>
    /\ started = FALSE /\ observer = TRUE
    /\ completions = {} /\ finished = FALSE
    /\ active = FALSE /\ buffer = <<>>
    /\ worker = "idle" /\ ending = "none"
    /\ heard = 0 /\ written = 0 /\ arrived = 0 /\ told = 0

--------------------------------------------------------------------------------
(* Calls of the client, on the worker queue.                                  *)

ClientCalls == worker = "idle" /\ observer

Start ==
    /\ ClientCalls
    /\ ~started
    /\ started' = TRUE
    /\ Issue(Op("read", 0, "read"), {})
    /\ UNCHANGED <<call, said, tasks, observer, finished, active, buffer, worker,
                   ending, history>>

\* Mutant: a message is handed to gRPC although a write is in progress.
WriteAtOnce ==
    /\ ClientCalls
    /\ started
    /\ written < MaxWrites
    /\ written' = written + 1
    /\ active' = TRUE
    /\ Issue(Op("write", written', "next"), {})
    /\ UNCHANGED <<call, said, tasks, started, observer, finished, buffer,
                   worker, ending, heard, arrived, told>>

\* EnqueueWrite: only one write may be with gRPC, the others wait.  The stream
\* stays open for the client until the observer hears of its end, so this may
\* come after a failure, beside "finish".
Write ==
    /\ ClientCalls
    /\ started
    /\ written < MaxWrites
    /\ written' = written + 1
    /\ IF active
       THEN /\ buffer' = Append(buffer, written')
            /\ UNCHANGED <<inGrpc, ops, completions, active>>
       ELSE /\ active' = TRUE
            /\ Issue(Op("write", written', "next"), {})
            /\ UNCHANGED buffer
    /\ UNCHANGED <<call, said, tasks, started, observer, finished, worker,
                   ending, heard, arrived, told>>

\* Mutant: the call is not cancelled.
ShutdownUncancelled(toTell) ==
    /\ ending' = toTell
    /\ ops' = Cancelled(completions)
    /\ IF completions # {} /\ ~finished
       THEN finished' = TRUE /\ worker' = "finishing"
       ELSE UNCHANGED finished /\ worker' = "draining"
    /\ UNCHANGED <<call, said, inGrpc, tasks, started, observer, completions,
                   active, buffer, heard, arrived, told>>

\* Shutdown up to its first wait: with operations of an unfinished call, that of
\* FinishGrpcCall; otherwise the last one.
Shutdown(toTell) ==
    /\ ending' = toTell
    /\ ops' = Cancelled(completions)
    /\ IF completions # {} /\ ~finished
       THEN /\ call' = IF call = "alive" THEN "cancelled" ELSE call
            /\ finished' = TRUE
            /\ worker' = "finishing"
       ELSE /\ UNCHANGED <<call, finished>>
            /\ worker' = "draining"
    /\ UNCHANGED <<said, inGrpc, tasks, started, observer, completions, active,
                   buffer, heard, arrived, told>>

FinishImmediately ==
    /\ ClientCalls
    /\ Shutdown("nobody")
    /\ UNCHANGED written

\* By the connection, when the connectivity changes.
FinishAndNotify ==
    /\ ClientCalls
    /\ Shutdown("observer")
    /\ UNCHANGED written

\* WriteAndFinish with a write in progress, or on a call that has failed: there
\* is no last write.
FinishWithoutWrite ==
    /\ ClientCalls
    /\ started /\ (active \/ finished)
    /\ Shutdown("nobody")
    /\ written' = IF finished THEN written ELSE written + 1

TryLastWrite ==
    /\ ClientCalls
    /\ started /\ ~active /\ ~finished
    /\ written' = written + 1
    /\ active' = TRUE
    /\ Issue(Op("write", written', "nothing"), {})
    /\ worker' = "writing"
    /\ ending' = "nobody"
    /\ UNCHANGED <<call, said, tasks, started, observer, finished, buffer, heard,
                   arrived, told>>

--------------------------------------------------------------------------------
(* What the worker does when it need not wait any more.                       *)

\* The write is off the queue, or 500 milliseconds have passed.
LastWriteOver ==
    /\ worker = "writing"
    /\ Shutdown("nobody")
    /\ UNCHANGED written

\* Mutant: nobody waits for the status of a call that failed.
FinishGrpcCallUnheard ==
    /\ worker \in {"failing", "finishing"}
    /\ Drained
    /\ ops' = Append(ops, [Op("finish", 0, "notify") EXCEPT !.callback = FALSE])
    /\ inGrpc' = inGrpc \cup {NewId}
    /\ completions' = {NewId}
    /\ worker' = IF worker = "failing" THEN "idle" ELSE "draining"
    /\ UNCHANGED <<call, said, tasks, started, observer, finished, active,
                   buffer, ending, history>>

\* FinishGrpcCall goes on: "finish" is now the only operation.  In Shutdown it
\* is waited for at once, otherwise its callback ends the stream.
FinishGrpcCall ==
    /\ worker \in {"failing", "finishing"}
    /\ Drained
    /\ ops' = Append(ops, [Op("finish", 0, "notify")
                               EXCEPT !.callback = (worker = "failing")])
    /\ inGrpc' = inGrpc \cup {NewId}
    /\ completions' = {NewId}
    /\ worker' = IF worker = "failing" THEN "idle" ELSE "draining"
    /\ UNCHANGED <<call, said, tasks, started, observer, finished, active,
                   buffer, ending, history>>

\* Mutant: the observer hears of ends the client made.
ToldAlways == told + 1

Told == IF ending = "observer" THEN told + 1 ELSE told

\* The stream has ended, and may be destroyed.
EndShutdown ==
    /\ worker = "draining"
    /\ Drained
    /\ completions' = {}
    /\ observer' = FALSE
    /\ told' = Told
    /\ worker' = "idle"
    /\ UNCHANGED <<grpc, tasks, ops, started, finished, active, buffer, ending,
                   heard, written, arrived>>

--------------------------------------------------------------------------------
(* Callbacks of operations, on the worker queue.                              *)

Back == Head(tasks)
BackOp == ops[Back.id]

Callback == /\ worker = "idle"
            /\ tasks # <<>>
            /\ tasks' = Tail(tasks)

\* A completion that was cancelled does nothing any more.
Ignored ==
    /\ Callback
    /\ ~BackOp.callback
    /\ UNCHANGED <<grpc, ops, stream, worker, history>>

Succeeded(next) == Callback /\ BackOp.callback /\ Back.ok /\ BackOp.next = next

\* Read is called again before the observer hears of the message.
OnRead ==
    /\ Succeeded("read")
    /\ Issue(Op("read", 0, "read"), {Back.id})
    /\ heard' = Back.message
    /\ UNCHANGED <<call, said, started, observer, finished, active, buffer,
                   worker, ending, written, arrived, told>>

\* DequeueNextWrite.
OnWrite ==
    /\ Succeeded("next")
    /\ IF buffer = <<>>
       THEN /\ active' = FALSE
            /\ RemoveCompletion(Back.id)
            /\ UNCHANGED <<inGrpc, ops, buffer>>
       ELSE /\ Issue(Op("write", Head(buffer), "next"), {Back.id})
            /\ buffer' = Tail(buffer)
            /\ UNCHANGED active
    /\ UNCHANGED <<call, said, started, observer, finished, worker, ending,
                   history>>

\* "Finish" came back after a failure: FinishAndNotify.  Its Shutdown has at most
\* a late write to wait for.
OnFinish ==
    /\ Succeeded("notify")
    /\ RemoveCompletion(Back.id)
    /\ ops' = Cancelled(completions \ {Back.id})
    /\ worker' = "draining"
    /\ ending' = "observer"
    /\ UNCHANGED <<grpc, started, observer, finished, active, buffer,
                   history>>

Failed == Callback /\ BackOp.callback /\ ~Back.ok

\* The first operation that fails makes no-ops of the others and finishes the
\* call.
OnOperationFailed ==
    /\ Failed
    /\ ~finished
    /\ RemoveCompletion(Back.id)
    /\ finished' = TRUE
    /\ ops' = Cancelled(completions \ {Back.id})
    /\ worker' = "failing"
    /\ UNCHANGED <<grpc, started, observer, active, buffer, ending, history>>

\* A write the client made after the failure has failed too.
OnLateFailure ==
    /\ Failed
    /\ finished
    /\ RemoveCompletion(Back.id)
    /\ UNCHANGED <<grpc, ops, started, observer, finished, active, buffer, ending,
                   worker, history>>

--------------------------------------------------------------------------------
(* The gRPC thread: GrpcCompletion::Complete.                                 *)

Complete(i, type, ok, message) ==
    /\ i \in inGrpc
    /\ ops[i].type = type
    /\ inGrpc' = inGrpc \ {i}
    /\ tasks' = Append(tasks, [id |-> i, ok |-> ok, message |-> message])

MessageCame(i) ==
    /\ call # "cancelled"
    /\ said < MaxMessages
    /\ said' = said + 1
    /\ Complete(i, "read", TRUE, said')
    /\ UNCHANGED <<call, ops, stream, worker, history>>

ReadFailed(i) ==
    /\ call # "alive"
    /\ Complete(i, "read", FALSE, 0)
    /\ UNCHANGED <<call, said, ops, stream, worker, history>>

WriteArrived(i) ==
    /\ call = "alive"
    /\ Complete(i, "write", TRUE, 0)
    /\ arrived' = ops[i].message
    /\ UNCHANGED <<call, said, ops, stream, worker, heard, written, told>>

\* It may have arrived all the same.
WriteFailed(i) ==
    /\ call # "alive"
    /\ Complete(i, "write", FALSE, 0)
    /\ arrived' \in {arrived, ops[i].message}
    /\ UNCHANGED <<call, said, ops, stream, worker, heard, written, told>>

CallOver(i) ==
    /\ call # "alive"
    /\ Complete(i, "finish", TRUE, 0)
    /\ UNCHANGED <<call, said, ops, stream, worker, history>>

\* The server ends the call, or the connection breaks.
CallFails ==
    /\ started /\ call = "alive"
    /\ call' = "failed"
    /\ UNCHANGED <<said, inGrpc, tasks, ops, stream, worker, history>>

--------------------------------------------------------------------------------
Client == \/ Start \/ Write \/ FinishImmediately \/ FinishAndNotify
          \/ FinishWithoutWrite \/ TryLastWrite

Unblocked == LastWriteOver \/ FinishGrpcCall \/ EndShutdown

Callbacks == Ignored \/ OnRead \/ OnWrite \/ OnFinish \/ OnOperationFailed
             \/ OnLateFailure

Polling == \E i \in inGrpc : \/ MessageCame(i) \/ ReadFailed(i)
                             \/ WriteArrived(i) \/ WriteFailed(i) \/ CallOver(i)

Next == Client \/ Unblocked \/ Callbacks \/ Polling \/ CallFails

\* Both threads run, and gRPC gives back the operations of a call that is over.
\* Nothing is assumed of the client, of the server or of a call that is alive.
Spec == /\ Init /\ [][Next]_vars
        /\ WF_vars(Unblocked) /\ WF_vars(Callbacks)
        /\ WF_vars(call # "alive" /\ Polling)

--------------------------------------------------------------------------------
\* The stream knows of every operation whose callback may run ("Missing
\* GrpcCompletion" otherwise), and what is buffered waits for a write.
TypeOK ==
    /\ completions \subseteq inGrpc \cup {tasks[t].id : t \in DOMAIN tasks}
    /\ inGrpc \subseteq completions
    /\ \A t \in DOMAIN tasks :
           ops[tasks[t].id].callback => tasks[t].id \in completions
    /\ buffer # <<>> => active
    /\ worker \in {"idle", "writing", "failing", "finishing", "draining"}
    /\ worker \in {"finishing", "draining"} => ending # "none"

\* gRPC's rules, which grpc_stream.cc keeps with its buffer and its waits: at
\* most one read and one write at a time, and one "finish", given to gRPC when
\* every operation before it is back.
GrpcRulesKept ==
    /\ \A i, j \in inGrpc : ops[i].type = ops[j].type => i = j
    /\ \A i, j \in inGrpc : ops[i].type = "finish" => i <= j
    /\ \A i, j \in DOMAIN ops :
           ops[i].type = "finish" /\ ops[j].type = "finish" => i = j

\* Once it has ended, a stream can be destroyed: no operation of it is with
\* gRPC and no callback that is still queued will touch it.
SafeToDestroy ==
    ~observer => /\ inGrpc = {} /\ completions = {}
                 /\ \A t \in DOMAIN tasks : ~ops[tasks[t].id].callback

\* The observer and the server see a stream that keeps DuplexStream's promise.
Promised == INSTANCE DuplexStream WITH
    phase <- IF ~observer THEN "over"
             ELSE IF ending = "nobody" THEN "closing"
             ELSE IF started THEN "open" ELSE "new"

KeepsPromise == Promised!Spec

\* The waits end: no call of the client, and no callback, blocks for good.
WorkerGoesOn == worker # "idle" ~> worker = "idle"

\* A call that has failed is noticed, although the client may not call again.
FailureNoticed == call = "failed" ~> ~observer

================================================================================
