---------------------------- MODULE GrpcStream_proofs --------------------------
(******************************************************************************)
(* What GrpcStream keeps, for any number of messages: its bookkeeping, gRPC's *)
(* rules, that an ended stream can be destroyed, and DuplexStream's promise.  *)
(******************************************************************************)
EXTENDS GrpcStream, TLAPS

Operation == [type: {"read", "write", "finish"}, message: Nat,
              next: {"read", "next", "nothing", "notify"}, callback: BOOLEAN]

Task == [id: Nat, ok: BOOLEAN, message: Nat]

\* What is back, with callbacks still to come.
Returned == {tasks[t] : t \in DOMAIN tasks}

Once == \A t, u \in DOMAIN tasks : tasks[t].id = tasks[u].id => t = u

Typed ==
    /\ call \in {"alive", "failed", "cancelled"}
    /\ said \in Nat /\ heard \in Nat /\ written \in Nat /\ arrived \in Nat
    /\ told \in Nat
    /\ ops \in Seq(Operation) /\ tasks \in Seq(Task) /\ buffer \in Seq(Nat)
    /\ completions \subseteq DOMAIN ops
    /\ \A r \in Returned : r.id \in DOMAIN ops
    /\ started \in BOOLEAN /\ observer \in BOOLEAN /\ finished \in BOOLEAN
    /\ active \in BOOLEAN
    /\ worker \in {"idle", "writing", "failing", "finishing", "draining"}
    /\ ending \in {"none", "nobody", "observer"}
    /\ \A i \in DOMAIN ops : /\ ops[i].next = "read" => ops[i].type = "read"
                             /\ ops[i].next = "next" => ops[i].type = "write"
                             /\ ops[i].next = "notify" => ops[i].type = "finish"

Located == \A i \in completions : i \in inGrpc \/ \E r \in Returned : r.id = i

\* An operation is with gRPC or back, once; one that is back is still among the
\* completions unless its callback was taken away; there is one of a type.
Tracked ==
    /\ inGrpc \subseteq completions
    /\ \A r \in Returned : r.id \notin inGrpc
    /\ \A r \in Returned : ops[r.id].callback => r.id \in completions
    /\ \A i, j \in completions : ops[i].type = ops[j].type => i = j

\* Where the worker is in the stream's life.
Staged ==
    /\ ~started => /\ ops = <<>> /\ said = 0 /\ heard = 0 /\ written = 0
                   /\ arrived = 0 /\ ~active
    /\ ~observer => completions = {} /\ worker = "idle"
    /\ ending = "none" <=> observer /\ worker \in {"idle", "failing"}
    /\ worker = "writing" => ending = "nobody"
    /\ worker \in {"writing", "failing", "finishing"} => started
    /\ worker \in {"failing", "finishing", "draining"} =>
           \A i \in completions : ~ops[i].callback
    /\ worker = "idle" => \A i \in completions : ops[i].callback

\* "finish" comes once, after everything else.
FinishedOnce ==
    /\ worker \in {"failing", "finishing"} => finished
    /\ ~finished \/ worker \in {"failing", "finishing"} =>
           \A i \in DOMAIN ops : ops[i].type # "finish"
    /\ \A i, j \in DOMAIN ops :
           ops[i].type = "finish" /\ ops[j].type = "finish" => i = j
    /\ \A i, j \in inGrpc : ops[i].type = "finish" => i <= j

\* The observer lacks at most the message of the one read that is out.
ReadInOrder ==
    /\ \A i \in inGrpc : ops[i].type = "read" /\ ops[i].callback => said = heard
    /\ \A r \in Returned :
           ops[r.id].type = "read" /\ ops[r.id].callback /\ r.ok =>
               r.message = said /\ said = heard + 1

\* The server lacks the message of the one write that is out, and the buffer.
WrittenInOrder ==
    /\ \A i \in completions : ops[i].type = "write" => active
    /\ buffer # <<>> => active
    /\ arrived <= written
    /\ ~active /\ ending = "none" => arrived = written
    /\ \A i \in inGrpc : ops[i].type = "write" =>
           ops[i].message = arrived + 1 /\ ops[i].message <= written
    /\ \A r \in Returned :
           ops[r.id].type = "write" /\ ops[r.id].callback /\ r.ok =>
               arrived = ops[r.id].message
    /\ ending = "none" =>
           /\ \A k \in DOMAIN buffer : buffer[k] = written - Len(buffer) + k
           /\ \A i \in completions : ops[i].type = "write" =>
                  ops[i].message = written - Len(buffer)

\* None of these is inductive alone: that a stream may end only when it is drained
\* needs the stage of the worker, which needs what is tracked of the operations.
IInv == /\ Typed /\ Once /\ Located /\ Tracked
        /\ Staged /\ FinishedOnce /\ ReadInOrder /\ WrittenInOrder

--------------------------------------------------------------------------------
(* Sequences, once and for all.                                               *)

LEMMA SeqFacts ==
    ASSUME NEW S, NEW s \in Seq(S)
    PROVE  /\ DOMAIN s = 1..Len(s) /\ Len(s) \in Nat
           /\ DOMAIN s \subseteq Nat
           /\ \A i \in DOMAIN s : s[i] \in S
           /\ s # <<>> => 1 \in DOMAIN s /\ Head(s) = s[1]
OBVIOUS

LEMMA AppendFacts ==
    ASSUME NEW S, NEW s \in Seq(S), NEW e \in S
    PROVE  /\ Append(s, e) \in Seq(S)
           /\ DOMAIN Append(s, e) = DOMAIN s \cup {Len(s) + 1}
           /\ Len(Append(s, e)) = Len(s) + 1
           /\ \A i \in DOMAIN s : Append(s, e)[i] = s[i]
           /\ Append(s, e)[Len(s) + 1] = e
OBVIOUS

LEMMA TailFacts ==
    ASSUME NEW S, NEW s \in Seq(S), s # <<>>
    PROVE  /\ Tail(s) \in Seq(S)
           /\ Len(Tail(s)) = Len(s) - 1
           /\ \A i \in DOMAIN Tail(s) : i + 1 \in DOMAIN s /\ Tail(s)[i] = s[i + 1]
           /\ \A i \in DOMAIN s : i # 1 => i - 1 \in DOMAIN Tail(s)
                                           /\ Tail(s)[i - 1] = s[i]
OBVIOUS

--------------------------------------------------------------------------------
(* What the sequences do in a step.                                           *)

CancelledOnes(S) ==
    /\ ops' \in Seq(Operation)
    /\ DOMAIN ops' = DOMAIN ops
    /\ Len(ops') = Len(ops)
    /\ \A i \in DOMAIN ops :
           /\ ops'[i].type = ops[i].type
           /\ ops'[i].message = ops[i].message
           /\ ops'[i].next = ops[i].next
           /\ ops'[i].callback <=> ops[i].callback /\ i \notin S

LEMMA CancelledFacts ==
    ASSUME Typed, NEW S, ops' = Cancelled(S)
    PROVE  CancelledOnes(S)
<1>0. ops \in Seq(Operation)
  BY DEF Typed
<1>1. DOMAIN ops = 1..Len(ops) /\ Len(ops) \in Nat
  BY <1>0, SeqFacts
<1>2. \A i \in DOMAIN ops : ops[i] \in Operation
  BY <1>0, SeqFacts
<1>3. ops' = [i \in 1..Len(ops) |-> IF i \in S
                                    THEN [ops[i] EXCEPT !.callback = FALSE]
                                    ELSE ops[i]]
  BY <1>1 DEF Cancelled
<1>4. \A i \in DOMAIN ops : ops'[i] \in Operation
  <2>1. TAKE i \in DOMAIN ops
  <2>2. CASE i \in S
    BY <1>1, <1>2, <1>3, <2>2 DEF Operation
  <2>3. CASE i \notin S
    BY <1>1, <1>2, <1>3, <2>3
  <2> QED BY <2>2, <2>3
<1>5. ops' \in [1..Len(ops) -> Operation]
  BY <1>1, <1>3, <1>4
<1>6. ops' \in Seq(Operation) /\ Len(ops') = Len(ops)
  BY <1>1, <1>5
<1>7. ASSUME NEW i \in DOMAIN ops
      PROVE  /\ ops'[i].type = ops[i].type
             /\ ops'[i].message = ops[i].message
             /\ ops'[i].next = ops[i].next
             /\ ops'[i].callback <=> ops[i].callback /\ i \notin S
  <2>1. CASE i \in S
    BY <1>1, <1>2, <1>3, <2>1 DEF Operation
  <2>2. CASE i \notin S
    BY <1>1, <1>2, <1>3, <2>2 DEF Operation
  <2> QED BY <2>1, <2>2
<1> QED BY <1>1, <1>3, <1>6, <1>7 DEF CancelledOnes

Appended(op) ==
    /\ ops' \in Seq(Operation)
    /\ DOMAIN ops \subseteq Nat /\ NewId \in Nat
    /\ DOMAIN ops' = DOMAIN ops \cup {NewId}
    /\ NewId \notin DOMAIN ops
    /\ \A i \in DOMAIN ops : i < NewId /\ ops'[i] = ops[i]
    /\ ops'[NewId] = op

LEMMA AppendedFacts ==
    ASSUME Typed, NEW op \in Operation, ops' = Append(ops, op)
    PROVE  Appended(op)
<1>1. ops \in Seq(Operation)
  BY DEF Typed
<1>2. /\ Len(ops) \in Nat /\ DOMAIN ops = 1..Len(ops)
      /\ DOMAIN ops \subseteq Nat
  BY <1>1, SeqFacts
<1>3. \A i \in DOMAIN ops : i < Len(ops) + 1
  BY <1>2
<1> QED BY <1>1, <1>2, <1>3, AppendFacts DEF Appended, NewId

Popped ==
    /\ tasks' \in Seq(Task)
    /\ Back \in Returned /\ Back.message \in Nat
    /\ Returned' = Returned \ {Back}
    /\ \A r \in Returned' : r.id # Back.id
    /\ Once'
    /\ worker = "idle"

LEMMA PoppedFacts ==
    ASSUME Typed, Once, Callback
    PROVE  Popped
<1>0. tasks \in Seq(Task) /\ tasks # <<>> /\ tasks' = Tail(tasks)
  BY DEF Typed, Callback
<1>1. Back = tasks[1] /\ 1 \in DOMAIN tasks /\ Back \in Task
  BY <1>0, SeqFacts DEF Back
<1>2. /\ tasks' \in Seq(Task)
      /\ \A t \in DOMAIN tasks' : t + 1 \in DOMAIN tasks /\ tasks'[t] = tasks[t + 1]
      /\ \A t \in DOMAIN tasks : t # 1 => t - 1 \in DOMAIN tasks'
                                          /\ tasks'[t - 1] = tasks[t]
      /\ DOMAIN tasks' \subseteq Nat /\ DOMAIN tasks \subseteq Nat
  BY <1>0, TailFacts, SeqFacts
<1>8. \A t \in DOMAIN tasks' : t + 1 # 1
  <2>1. DOMAIN tasks' = 1..Len(tasks') /\ Len(tasks') \in Nat
    BY <1>2, SeqFacts
  <2> QED BY <2>1
<1>3. Back \in Returned /\ Back \in Task
  BY <1>1 DEF Returned
<1>4. \A r \in Returned' : r \in Returned /\ r.id # Back.id
  <2>1. TAKE r \in Returned'
  <2>2. PICK t \in DOMAIN tasks' : r = tasks'[t]
    BY DEF Returned
  <2>3. t + 1 \in DOMAIN tasks /\ r = tasks[t + 1] /\ t + 1 # 1
    BY <1>2, <1>8, <2>2
  <2> QED BY <1>1, <2>3 DEF Once, Returned
<1>5. \A r \in Returned : r # Back => r \in Returned'
  <2>1. TAKE r \in Returned
  <2>2. PICK t \in DOMAIN tasks : r = tasks[t]
    BY DEF Returned
  <2>3. CASE t = 1
    BY <1>1, <2>2, <2>3
  <2>4. CASE t # 1
    BY <1>2, <2>2, <2>4 DEF Returned
  <2> QED BY <2>3, <2>4
<1>6. Once'
  <2>1. SUFFICES ASSUME NEW t \in DOMAIN tasks', NEW u \in DOMAIN tasks',
                        tasks'[t].id = tasks'[u].id
                 PROVE  t = u
    BY DEF Once
  <2>2. t + 1 = u + 1
    BY <1>2, <2>1 DEF Once
  <2> QED BY <1>2, <2>2
<1>7. Returned' = Returned \ {Back}
  BY <1>3, <1>4, <1>5
<1>9. Back.message \in Nat
  BY <1>3 DEF Task
<1> QED BY <1>2, <1>3, <1>4, <1>6, <1>7, <1>9 DEF Popped, Callback

LEMMA CameBackFacts ==
    ASSUME Typed, Once, Tracked, NEW i \in inGrpc, NEW type, NEW ok \in BOOLEAN,
           NEW message \in Nat, Complete(i, type, ok, message)
    PROVE  /\ tasks' \in Seq(Task)
           /\ Once'
           /\ i \in DOMAIN ops /\ ops[i].type = type
           /\ inGrpc' = inGrpc \ {i}
           /\ Returned' = Returned \cup {[id |-> i, ok |-> ok, message |-> message]}
<1> DEFINE task == [id |-> i, ok |-> ok, message |-> message]
<1>0. ops \in Seq(Operation) /\ tasks \in Seq(Task) /\ i \in DOMAIN ops
  BY DEF Typed, Tracked
<1>1. i \in Nat
  BY <1>0, SeqFacts
<1>9. task \in Task
  BY <1>1 DEF Task
<1>2. tasks' = Append(tasks, task) /\ inGrpc' = inGrpc \ {i} /\ ops[i].type = type
  BY DEF Complete
<1>3. task.id = i
  OBVIOUS
<1> HIDE DEF task
<1>4. /\ tasks' \in Seq(Task)
      /\ DOMAIN tasks' = DOMAIN tasks \cup {Len(tasks) + 1}
      /\ \A t \in DOMAIN tasks : tasks'[t] = tasks[t]
      /\ tasks'[Len(tasks) + 1] = task
  BY <1>0, <1>2, <1>9, AppendFacts
<1>5. Returned' = Returned \cup {task}
  BY <1>4 DEF Returned
<1>6. \A t \in DOMAIN tasks : tasks[t].id # i /\ t # Len(tasks) + 1
  <2>1. \A t \in DOMAIN tasks : tasks[t].id # i
    BY DEF Tracked, Returned
  <2>2. \A t \in DOMAIN tasks : t # Len(tasks) + 1
    <3>1. DOMAIN tasks = 1..Len(tasks) /\ Len(tasks) \in Nat
      BY <1>0, SeqFacts
    <3> QED BY <3>1
  <2> QED BY <2>1, <2>2
<1>7. Once'
  BY <1>3, <1>4, <1>6 DEF Once
<1> QED BY <1>0, <1>2, <1>4, <1>5, <1>7 DEF task

LEMMA OpsFields ==
    ASSUME Typed
    PROVE  \A i \in DOMAIN ops : ops[i].message \in Nat /\ ops[i] \in Operation
<1>1. ops \in Seq(Operation)
  BY DEF Typed
<1>2. \A i \in DOMAIN ops : ops[i] \in Operation
  BY <1>1, SeqFacts
<1> QED BY <1>2 DEF Operation

--------------------------------------------------------------------------------
(* Calls of the client.                                                       *)

LEMMA StartKeeps ==
    ASSUME IInv, Start
    PROVE  IInv'
<1> USE DEF IInv, grpc, stream, history
<1>a. Appended(Op("read", 0, "read"))
  BY AppendedFacts DEF Start, Issue, Op, Typed, Operation
<1>b. Returned' = Returned /\ Once'
  BY DEF Returned, Once, Start
<1>c. ops = <<>> /\ completions = {} /\ inGrpc = {} /\ Returned = {}
  <2>1. ops = <<>>
    BY DEF Start, Staged
  <2>2. DOMAIN ops = {}
    BY <2>1
  <2>3. completions = {} /\ Returned = {}
    BY <2>2 DEF Typed
  <2> QED BY <2>1, <2>3 DEF Tracked
<1>1. Typed'
  BY <1>a, <1>b DEF Typed, Start, Appended, Issue, Op
<1>2. Located'
  BY <1>c DEF Located, Start, Issue
<1>3. Tracked'
  BY <1>a, <1>b, <1>c DEF Tracked, Start, Appended, Issue, Op
<1>4. Staged'
  BY <1>a, <1>c DEF Staged, Start, ClientCalls, Appended, Issue, Op
<1>5. FinishedOnce'
  BY <1>a, <1>c DEF Typed, Staged, FinishedOnce, Start, Appended, Issue, Op
<1>6. ReadInOrder'
  BY <1>a, <1>b, <1>c DEF Staged, ReadInOrder, Start, Appended, Issue, Op
<1>7. WrittenInOrder'
  BY <1>a, <1>b, <1>c DEF WrittenInOrder, Start, Appended, Issue, Op
<1> QED BY <1>b, <1>1, <1>2, <1>3, <1>4, <1>5, <1>6, <1>7

LEMMA WriteKeeps ==
    ASSUME IInv, Write
    PROVE  IInv'
<1> USE DEF IInv, grpc, stream, history
<1>a. Returned' = Returned /\ Once'
  BY DEF Returned, Once, Write
<1>b. worker = "idle" /\ observer /\ started /\ ending = "none"
  BY DEF Write, ClientCalls, Staged
<1>c. written \in Nat /\ written' = written + 1 /\ written' \in Nat
  <2>1. written \in Nat /\ written' = written + 1
    BY DEF Typed, Write
  <2> QED BY <2>1
<1>1. CASE active
  <2>1. buffer' = Append(buffer, written')
        /\ UNCHANGED <<grpc, tasks, ops, started, observer, completions, finished,
                       active, worker, ending, heard, arrived, told>>
    BY <1>1 DEF Write
  <2>2. buffer \in Seq(Nat)
    BY DEF Typed
  <2>3. /\ Len(buffer) \in Nat /\ DOMAIN buffer \subseteq Nat
        /\ buffer' \in Seq(Nat)
        /\ DOMAIN buffer' = DOMAIN buffer \cup {Len(buffer) + 1}
        /\ Len(buffer') = Len(buffer) + 1
        /\ \A k \in DOMAIN buffer : buffer'[k] = buffer[k]
        /\ buffer'[Len(buffer) + 1] = written'
    BY <1>c, <2>1, <2>2, SeqFacts, AppendFacts
  <2>4. Typed'
    BY <1>a, <1>c, <2>1, <2>3 DEF Typed
  <2>5. Located' /\ Tracked'
    BY <1>a, <2>1 DEF Located, Tracked
  <2>6. Staged' /\ FinishedOnce' /\ ReadInOrder'
    BY <1>a, <1>b, <2>1 DEF Staged, FinishedOnce, ReadInOrder
  <2>7. WrittenInOrder'
    <3>1. \A k \in DOMAIN buffer' : buffer'[k] = written' - Len(buffer') + k
      BY <1>b, <1>c, <2>3 DEF WrittenInOrder
    <3>2. /\ \A i \in completions' : ops'[i].type = "write" =>
                 ops'[i].message = written' - Len(buffer')
          /\ arrived' <= written'
      BY <1>b, <1>c, <2>1, <2>3 DEF WrittenInOrder, Typed
    <3>3. \A i \in inGrpc' : ops'[i].type = "write" =>
              ops'[i].message = arrived' + 1 /\ ops'[i].message <= written'
      <4>1. ASSUME NEW i \in inGrpc, ops[i].type = "write"
            PROVE  ops[i].message = arrived + 1 /\ ops[i].message <= written + 1
        <5>1. ops[i].message = arrived + 1 /\ ops[i].message <= written
          BY <4>1 DEF WrittenInOrder
        <5> QED BY <1>c, <5>1 DEF Typed
      <4> QED BY <1>c, <2>1, <4>1
    <3> QED BY <1>1, <1>a, <2>1, <3>1, <3>2, <3>3 DEF WrittenInOrder
  <2> QED BY <1>a, <2>4, <2>5, <2>6, <2>7
<1>2. CASE ~active
  <2>1. /\ active' = TRUE
        /\ Issue(Op("write", written + 1, "next"), {})
        /\ UNCHANGED <<call, said, tasks, started, observer, finished, buffer,
                       worker, ending, heard, arrived, told>>
    BY <1>2 DEF Write
  <2>2. Appended(Op("write", written + 1, "next"))
    <3>1. Op("write", written + 1, "next") \in Operation
      BY <1>c DEF Op, Operation
    <3> QED BY <2>1, <3>1, AppendedFacts DEF Issue
  <2>3. \A i \in completions : ops[i].type # "write"
    BY <1>2 DEF WrittenInOrder
  <2>4. Typed'
    BY <1>a, <1>c, <2>1, <2>2 DEF Typed, Appended, Issue, Op
  <2>5. Located'
    BY <1>a, <2>1 DEF Located, Issue
  <2>6. Tracked'
    BY <1>a, <2>1, <2>2, <2>3 DEF Typed, Tracked, Appended, Issue, Op
  <2>7. Staged'
    BY <1>b, <2>1, <2>2 DEF Typed, Staged, Appended, Issue, Op
  <2>8. FinishedOnce'
    BY <1>b, <2>1, <2>2 DEF Typed, Tracked, FinishedOnce, Appended, Issue, Op
  <2>9. ReadInOrder'
    BY <1>a, <2>1, <2>2 DEF Typed, Tracked, ReadInOrder, Appended, Issue, Op
  <2>10. WrittenInOrder'
    <3>1. buffer = <<>> /\ buffer' = <<>> /\ arrived = written
      BY <1>2, <1>b, <2>1 DEF WrittenInOrder
    <3>2. Len(buffer') = 0 /\ DOMAIN buffer' = {}
      BY <3>1
    <3>3. \A i \in completions' : ops'[i].type = "write" => i = NewId
      BY <2>1, <2>2, <2>3 DEF Appended, Issue, Typed
    <3>4. ops'[NewId].message = written + 1 /\ ops'[NewId].type = "write"
      BY <2>2 DEF Appended, Op
    <3>5. \A r \in Returned' : ~(ops'[r.id].type = "write" /\ ops'[r.id].callback)
      BY <1>a, <2>2, <2>3 DEF Appended, Typed, Tracked
    <3>6. inGrpc' \subseteq completions'
      BY <2>6 DEF Tracked
    <3>7. /\ \A i \in completions' : ops'[i].type = "write" =>
                 ops'[i].message = written' - Len(buffer')
          /\ \A i \in inGrpc' : ops'[i].type = "write" =>
                 ops'[i].message = arrived' + 1 /\ ops'[i].message <= written'
          /\ arrived' <= written'
      BY <1>c, <2>1, <3>1, <3>2, <3>3, <3>4, <3>6
    <3> QED BY <2>1, <3>1, <3>2, <3>5, <3>7 DEF WrittenInOrder
  <2> QED BY <1>a, <2>4, <2>5, <2>6, <2>7, <2>8, <2>9, <2>10
<1> QED BY <1>1, <1>2 DEF Typed

LEMMA TryLastWriteKeeps ==
    ASSUME IInv, TryLastWrite
    PROVE  IInv'
<1> USE DEF IInv, grpc, stream, history
<1>a. Returned' = Returned /\ Once'
  BY DEF Returned, Once, TryLastWrite
<1>b. Appended(Op("write", written + 1, "nothing"))
  <2>1. written + 1 \in Nat
    BY DEF Typed
  <2>2. Op("write", written + 1, "nothing") \in Operation
    BY <2>1 DEF Op, Operation
  <2> QED BY <2>2, AppendedFacts DEF TryLastWrite, Issue
<1>c. ~active /\ \A i \in completions : ops[i].type # "write"
  BY DEF TryLastWrite, WrittenInOrder
<1>1. Typed'
  BY <1>a, <1>b DEF Typed, TryLastWrite, Appended, Issue, Op
<1>2. Located'
  BY <1>a DEF Located, TryLastWrite, Issue
<1>3. Tracked'
  BY <1>a, <1>b, <1>c DEF Typed, Tracked, TryLastWrite, Appended, Issue, Op
<1>4. Staged'
  BY <1>b DEF Typed, Staged, TryLastWrite, ClientCalls, Appended, Issue, Op
<1>5. FinishedOnce'
  BY <1>b DEF Typed, Tracked, FinishedOnce, TryLastWrite, ClientCalls, Appended, Issue, Op
<1>6. ReadInOrder'
  BY <1>a, <1>b DEF Typed, Tracked, ReadInOrder, TryLastWrite, Appended, Issue, Op
<1>7. WrittenInOrder'
  BY <1>a, <1>b DEF Typed, Tracked, Staged, WrittenInOrder, TryLastWrite, ClientCalls,
                    Appended, Issue, Op
<1> QED BY <1>a, <1>1, <1>2, <1>3, <1>4, <1>5, <1>6, <1>7

LEMMA ShutdownKeeps ==
    ASSUME IInv, NEW toTell \in {"nobody", "observer"}, Shutdown(toTell),
           observer, worker \in {"idle", "writing"},
           written' \in {written, written + 1}, started \/ written' = written
    PROVE  IInv'
<1> USE DEF IInv, grpc, stream, history
<1>a. Returned' = Returned /\ Once'
  BY DEF Returned, Once, Shutdown
<1>b. CancelledOnes(completions)
  BY CancelledFacts DEF Shutdown
<1>c. UNCHANGED <<said, inGrpc, tasks, started, observer, completions, active,
                  buffer, heard, arrived, told>> /\ ending' = toTell
  BY DEF Shutdown
<1>d. /\ call' \in {"alive", "failed", "cancelled"}
      /\ finished' \in BOOLEAN
      /\ worker' \in {"finishing", "draining"}
  BY DEF Shutdown, Typed
<1>e. written' \in Nat /\ written' >= written /\ written \in Nat
  BY DEF Typed
<1>1. Typed'
  BY <1>a, <1>b, <1>c, <1>d, <1>e DEF Typed, CancelledOnes
<1>2. Located'
  BY <1>a, <1>c DEF Located
<1>3. Tracked'
  BY <1>a, <1>b, <1>c DEF Typed, Tracked, CancelledOnes
<1>4. Staged'
  <2>1. ~started => /\ ops' = <<>> /\ said = 0 /\ heard = 0 /\ written = 0
                    /\ arrived = 0 /\ ~active
    <3>1. \A s : s \in Seq(Operation) /\ Len(s) = 0 => s = <<>>
      OBVIOUS
    <3>2. CASE ~started
      <4>1. /\ ops = <<>> /\ said = 0 /\ heard = 0 /\ written = 0
            /\ arrived = 0 /\ ~active
        BY <3>2 DEF Staged
      <4>2. Len(ops) = 0
        BY <4>1
      <4>3. ops' = <<>>
        BY <1>b, <3>1, <4>2 DEF CancelledOnes
      <4> QED BY <4>1, <4>3
    <3> QED BY <3>2
  <2>2. worker' = "finishing" => started
    <3>1. worker' = "finishing" => completions # {}
      BY DEF Shutdown
    <3>2. ops = <<>> => completions = {}
      BY DEF Typed
    <3> QED BY <3>1, <3>2 DEF Staged
  <2>3. \A i \in completions' : ~ops'[i].callback
    BY <1>b, <1>c DEF Typed, CancelledOnes
  <2> QED BY <1>a, <1>c, <1>d, <2>1, <2>2, <2>3 DEF Staged
<1>5. FinishedOnce'
  <2>1. /\ worker' = "finishing" => ~finished /\ finished'
        /\ ~finished' => ~finished
    BY DEF Shutdown, Typed
  <2>2. inGrpc \subseteq DOMAIN ops
    BY DEF Typed, Tracked
  <2>3. /\ DOMAIN ops' = DOMAIN ops /\ inGrpc' = inGrpc
        /\ \A i \in DOMAIN ops : ops'[i].type = ops[i].type
    BY <1>b, <1>c DEF CancelledOnes
  <2>4. /\ ~finished => \A i \in DOMAIN ops : ops[i].type # "finish"
        /\ \A i, j \in DOMAIN ops :
               ops[i].type = "finish" /\ ops[j].type = "finish" => i = j
        /\ \A i, j \in inGrpc : ops[i].type = "finish" => i <= j
    BY DEF FinishedOnce
  <2>5. ~finished' \/ worker' \in {"failing", "finishing"} => ~finished
    BY <1>d, <2>1
  <2>6. worker' \in {"failing", "finishing"} => finished'
    BY <1>d, <2>1
  <2>7. ~finished' \/ worker' \in {"failing", "finishing"} =>
            \A i \in DOMAIN ops' : ops'[i].type # "finish"
    BY <2>3, <2>4, <2>5
  <2>8. \A i, j \in DOMAIN ops' :
            ops'[i].type = "finish" /\ ops'[j].type = "finish" => i = j
    BY <2>3, <2>4
  <2>9. \A i, j \in inGrpc' : ops'[i].type = "finish" => i <= j
    BY <2>2, <2>3, <2>4
  <2> HIDE DEF IInv
  <2> QED BY <2>6, <2>7, <2>8, <2>9 DEF FinishedOnce
<1>6. ReadInOrder'
  BY <1>a, <1>b, <1>c DEF Typed, Tracked, ReadInOrder, CancelledOnes
<1>7. WrittenInOrder'
  <2>1. \A i \in inGrpc : ops[i].type = "write" =>
            ops[i].message = arrived + 1 /\ ops[i].message <= written'
    BY <1>e, OpsFields DEF Typed, Tracked, WrittenInOrder
  <2>2. arrived <= written'
    BY <1>e DEF Typed, WrittenInOrder
  <2>3. /\ completions \subseteq DOMAIN ops /\ inGrpc \subseteq completions
        /\ \A r \in Returned : r.id \in DOMAIN ops
    BY DEF Typed, Tracked
  <2>4. \A i \in DOMAIN ops : /\ ops'[i].type = ops[i].type
                              /\ ops'[i].message = ops[i].message
                              /\ ops'[i].callback => ops[i].callback
    BY <1>b DEF CancelledOnes
  <2>5. /\ \A i \in completions : ops[i].type = "write" => active
        /\ buffer # <<>> => active
        /\ \A r \in Returned :
               ops[r.id].type = "write" /\ ops[r.id].callback /\ r.ok =>
                   arrived = ops[r.id].message
    BY DEF WrittenInOrder
  <2>6. ending' # "none"
    BY <1>c
  <2>7. \A i \in inGrpc' : ops'[i].type = "write" =>
            ops'[i].message = arrived' + 1 /\ ops'[i].message <= written'
    BY <1>c, <2>1, <2>3, <2>4
  <2>8. \A r \in Returned' :
            ops'[r.id].type = "write" /\ ops'[r.id].callback /\ r.ok =>
                arrived' = ops'[r.id].message
    BY <1>a, <1>c, <2>3, <2>4, <2>5
  <2>9. (\A i \in completions' : ops'[i].type = "write" => active')
        /\ (buffer' # <<>> => active')
    BY <1>c, <2>3, <2>4, <2>5
  <2> HIDE DEF IInv
  <2> QED BY <1>c, <2>2, <2>6, <2>7, <2>8, <2>9 DEF WrittenInOrder
<1> QED BY <1>a, <1>1, <1>2, <1>3, <1>4, <1>5, <1>6, <1>7

LEMMA FinishingKeeps ==
    ASSUME IInv, FinishImmediately \/ FinishAndNotify \/ FinishWithoutWrite
                 \/ LastWriteOver
    PROVE  IInv'
<1>1. /\ \E toTell \in {"nobody", "observer"} : Shutdown(toTell)
      /\ worker \in {"idle", "writing"}
      /\ observer
      /\ written' \in {written, written + 1}
      /\ started \/ written' = written
  BY DEF FinishImmediately, FinishAndNotify, FinishWithoutWrite, LastWriteOver,
         ClientCalls, IInv, Staged
<1> QED BY <1>1, ShutdownKeeps

--------------------------------------------------------------------------------
(* The worker goes on.                                                        *)

LEMMA FinishGrpcCallKeeps ==
    ASSUME IInv, FinishGrpcCall
    PROVE  IInv'
<1> USE DEF IInv, grpc, stream, history
<1>a. Returned' = Returned /\ Once'
  BY DEF Returned, Once, FinishGrpcCall
<1> DEFINE finish == [type |-> "finish", message |-> 0, next |-> "notify",
                      callback |-> (worker = "failing")]
<1>b. Appended(finish)
  <2>1. finish \in Operation
    BY DEF Operation
  <2>2. ops' = Append(ops, finish)
    BY DEF FinishGrpcCall, Op
  <2> QED BY <2>1, <2>2, AppendedFacts
<1>c. /\ ops'[NewId].type = "finish" /\ ops'[NewId].next = "notify"
      /\ ops'[NewId].callback <=> worker = "failing"
  <2>1. ops'[NewId] = finish
    BY <1>b DEF Appended
  <2>2. /\ finish.type = "finish" /\ finish.next = "notify"
        /\ finish.callback = (worker = "failing")
    OBVIOUS
  <2> QED BY <2>1, <2>2
<1>d. /\ ops' \in Seq(Operation) /\ NewId \in Nat
      /\ DOMAIN ops' = DOMAIN ops \cup {NewId}
      /\ NewId \notin DOMAIN ops
      /\ \A i \in DOMAIN ops : ops'[i] = ops[i]
  BY <1>b DEF Appended
<1> HIDE DEF finish
<1>e. /\ worker \in {"failing", "finishing"}
      /\ inGrpc' = {NewId} /\ completions' = {NewId}
      /\ worker' = IF worker = "failing" THEN "idle" ELSE "draining"
      /\ UNCHANGED <<call, said, tasks, started, observer, finished, active,
                     buffer, ending, history>>
  BY DEF FinishGrpcCall, Drained, Tracked
<1>f. \A r \in Returned : r.id \in DOMAIN ops /\ ~ops[r.id].callback
  BY <1>e DEF Typed, Tracked, Staged
<1>g. /\ observer /\ finished
      /\ \A i \in DOMAIN ops : ops[i].type # "finish"
  BY <1>e DEF Staged, FinishedOnce
<1>1. Typed'
  BY <1>a, <1>c, <1>d, <1>e DEF Typed
<1>2. Located'
  BY <1>e DEF Located
<1>3. Tracked'
  BY <1>a, <1>d, <1>e, <1>f DEF Tracked
<1>4. Staged'
  <2>1. started
    BY <1>e DEF Staged
  <2> QED BY <1>c, <1>e, <1>g, <2>1 DEF Staged
<1>5. FinishedOnce'
  BY <1>c, <1>d, <1>e, <1>g DEF FinishedOnce
<1>6. ReadInOrder'
  BY <1>a, <1>c, <1>d, <1>e, <1>f DEF ReadInOrder
<1>7. WrittenInOrder'
  BY <1>a, <1>c, <1>d, <1>e, <1>f DEF WrittenInOrder
<1> QED BY <1>a, <1>1, <1>2, <1>3, <1>4, <1>5, <1>6, <1>7

LEMMA EndShutdownKeeps ==
    ASSUME IInv, EndShutdown
    PROVE  IInv'
<1> USE DEF IInv, grpc, stream, history
<1>a. Returned' = Returned /\ Once'
  BY DEF Returned, Once, EndShutdown
<1>b. inGrpc = {}
  BY DEF EndShutdown, Drained, Tracked
<1>c. /\ worker = "draining" /\ worker' = "idle"
      /\ completions' = {} /\ observer' = FALSE
      /\ UNCHANGED <<grpc, tasks, ops, started, finished, active, buffer, ending,
                     heard, written, arrived>>
  BY DEF EndShutdown
<1>d. told' \in Nat
  BY DEF EndShutdown, Told, Typed
<1>e. \A r \in Returned : ~ops[r.id].callback
  BY <1>c DEF Tracked, Staged
<1>1. Typed'
  BY <1>a, <1>c, <1>d DEF Typed
<1>2. Located'
  BY <1>c DEF Located
<1>3. Tracked'
  BY <1>a, <1>b, <1>c, <1>e DEF Tracked
<1>4. Staged'
  BY <1>c DEF Staged
<1>5. FinishedOnce'
  BY <1>c DEF FinishedOnce, Typed
<1>6. ReadInOrder'
  BY <1>a, <1>c DEF ReadInOrder
<1>7. WrittenInOrder'
  BY <1>a, <1>c DEF WrittenInOrder, Staged
<1> QED BY <1>a, <1>1, <1>2, <1>3, <1>4, <1>5, <1>6, <1>7

--------------------------------------------------------------------------------
(* Callbacks.                                                                 *)

LEMMA IgnoredKeeps ==
    ASSUME IInv, Ignored
    PROVE  IInv'
<1> USE DEF IInv, grpc, stream, history
<1>a. Popped
  BY PoppedFacts DEF Ignored
<1>b. ~ops[Back.id].callback /\ UNCHANGED <<grpc, ops, stream, worker, history>>
  BY DEF Ignored, BackOp
<1>c. Back.id \notin completions
  BY <1>a, <1>b DEF Popped, Staged
<1>1. Typed'
  BY <1>a, <1>b DEF Typed, Popped
<1>2. Located'
  BY <1>a, <1>b, <1>c DEF Located, Popped
<1>3. Tracked'
  BY <1>a, <1>b DEF Tracked, Popped
<1>4. Staged' /\ FinishedOnce'
  BY <1>b DEF Staged, FinishedOnce
<1>5. ReadInOrder' /\ WrittenInOrder'
  BY <1>a, <1>b DEF ReadInOrder, WrittenInOrder, Popped
<1> QED BY <1>a, <1>1, <1>2, <1>3, <1>4, <1>5 DEF Popped

\* The operation whose callback runs is the one of its type.
LEMMA BackIsTheOne ==
    ASSUME IInv, Callback, BackOp.callback
    PROVE  /\ Popped
           /\ Back.id \in completions /\ Back.id \in DOMAIN ops
           /\ Back.id \notin inGrpc
           /\ observer /\ started /\ ending = "none"
           /\ \A i \in completions \ {Back.id} : ops[i].type # BackOp.type
<1> USE DEF IInv
<1>1. Popped
  BY PoppedFacts
<1>2. /\ Back.id \in completions /\ Back.id \in DOMAIN ops
      /\ Back.id \notin inGrpc
  BY <1>1 DEF Popped, Typed, Tracked, BackOp
<1>3. observer /\ ending = "none"
  BY <1>1, <1>2 DEF Popped, Staged
<1>4. started
  <2>1. ops # <<>>
    BY <1>2
  <2> QED BY <2>1 DEF Staged
<1>5. \A i \in completions \ {Back.id} : ops[i].type # BackOp.type
  BY <1>2 DEF Tracked, BackOp
<1> QED BY <1>1, <1>2, <1>3, <1>4, <1>5

LEMMA OnReadKeeps ==
    ASSUME IInv, OnRead
    PROVE  IInv'
<1> USE DEF IInv, grpc, stream, history
<1>a. /\ Callback /\ BackOp.callback /\ Back.ok /\ BackOp.next = "read"
      /\ Issue(Op("read", 0, "read"), {Back.id})
      /\ heard' = Back.message
      /\ UNCHANGED <<call, said, started, observer, finished, active, buffer,
                     worker, ending, written, arrived, told>>
  BY DEF OnRead, Succeeded
<1>b. /\ Popped
      /\ Back.id \in completions /\ Back.id \in DOMAIN ops
      /\ Back.id \notin inGrpc
      /\ observer /\ started /\ ending = "none"
      /\ \A i \in completions \ {Back.id} : ops[i].type # BackOp.type
  BY <1>a, BackIsTheOne
<1>c. BackOp.type = "read"
  BY <1>a, <1>b DEF Typed, BackOp
<1>d. Appended(Op("read", 0, "read"))
  BY <1>a, AppendedFacts DEF Issue, Op, Operation
<1>e. /\ inGrpc' = inGrpc \cup {NewId}
      /\ completions' = (completions \ {Back.id}) \cup {NewId}
      /\ ops'[NewId].type = "read" /\ ops'[NewId].next = "read"
      /\ ops'[NewId].callback
  BY <1>a, <1>d DEF Issue, Appended, Op
<1>f. /\ ops' \in Seq(Operation)
      /\ DOMAIN ops \subseteq Nat /\ NewId \in Nat
      /\ DOMAIN ops' = DOMAIN ops \cup {NewId}
      /\ NewId \notin DOMAIN ops
      /\ \A i \in DOMAIN ops : i < NewId /\ ops'[i] = ops[i]
  BY <1>d DEF Appended
<1>g. Back.message = said /\ said = heard + 1
  BY <1>a, <1>b, <1>c DEF ReadInOrder, Popped, BackOp
<1>h. /\ completions \subseteq DOMAIN ops /\ inGrpc \subseteq completions
      /\ \A r \in Returned : r.id \in DOMAIN ops
  BY DEF Typed, Tracked
<1>i. /\ tasks' \in Seq(Task) /\ Back.message \in Nat /\ Once'
      /\ Returned' = Returned \ {Back}
      /\ \A r \in Returned' : r.id # Back.id
      /\ worker = "idle"
  BY <1>b DEF Popped
<1>1. Typed'
  BY <1>a, <1>e, <1>f, <1>i DEF Typed
<1>2. Located'
  BY <1>e, <1>i DEF Located
<1>3. Tracked'
  <2>1. \A i, j \in completions' : ops'[i].type = ops'[j].type => i = j
    BY <1>b, <1>c, <1>e, <1>f, <1>h DEF Tracked
  <2> QED BY <1>b, <1>e, <1>f, <1>h, <1>i, <2>1 DEF Tracked
<1>4. Staged'
  BY <1>a, <1>b, <1>e, <1>f, <1>h, <1>i DEF Staged
<1>5. FinishedOnce'
  BY <1>a, <1>e, <1>f, <1>h, <1>i DEF FinishedOnce
<1>6. ReadInOrder'
  <2>1. \A r \in Returned' : ~(ops'[r.id].type = "read" /\ ops'[r.id].callback)
    BY <1>b, <1>c, <1>f, <1>h, <1>i DEF Tracked
  <2>2. said' = heard'
    BY <1>a, <1>g
  <2> QED BY <2>1, <2>2 DEF ReadInOrder
<1>7. WrittenInOrder'
  BY <1>a, <1>e, <1>f, <1>h, <1>i DEF WrittenInOrder
<1> QED BY <1>i, <1>1, <1>2, <1>3, <1>4, <1>5, <1>6, <1>7

LEMMA OnWriteKeeps ==
    ASSUME IInv, OnWrite
    PROVE  IInv'
<1> USE DEF IInv, grpc, stream, history
<1>a. /\ Callback /\ BackOp.callback /\ Back.ok /\ BackOp.next = "next"
      /\ UNCHANGED <<call, said, started, observer, finished, worker, ending,
                     history>>
  BY DEF OnWrite, Succeeded
<1>b. /\ Popped
      /\ Back.id \in completions /\ Back.id \in DOMAIN ops
      /\ Back.id \notin inGrpc
      /\ observer /\ started /\ ending = "none"
      /\ \A i \in completions \ {Back.id} : ops[i].type # BackOp.type
  BY <1>a, BackIsTheOne
<1>c. BackOp.type = "write" /\ ops[Back.id].type = "write"
  BY <1>a, <1>b DEF Typed, BackOp
<1>d. /\ completions \subseteq DOMAIN ops /\ inGrpc \subseteq completions
      /\ \A r \in Returned : r.id \in DOMAIN ops
  BY DEF Typed, Tracked
<1>e. /\ tasks' \in Seq(Task) /\ Once'
      /\ Back \in Returned
      /\ Returned' = Returned \ {Back}
      /\ \A r \in Returned' : r.id # Back.id
      /\ worker = "idle"
  BY <1>b DEF Popped
<1>f. /\ active
      /\ arrived = ops[Back.id].message
      /\ ops[Back.id].message = written - Len(buffer)
      /\ \A k \in DOMAIN buffer : buffer[k] = written - Len(buffer) + k
  BY <1>a, <1>b, <1>c, <1>e DEF WrittenInOrder, BackOp
<1>g. /\ written \in Nat /\ arrived \in Nat /\ buffer \in Seq(Nat)
      /\ Len(buffer) \in Nat /\ DOMAIN buffer = 1..Len(buffer)
  <2>1. written \in Nat /\ arrived \in Nat /\ buffer \in Seq(Nat)
    BY DEF Typed
  <2> QED BY <2>1, SeqFacts
<1>h. /\ \A i \in completions \ {Back.id} : ops[i].type # "write"
      /\ \A r \in Returned' : ops[r.id].callback => ops[r.id].type # "write"
  BY <1>b, <1>c, <1>e DEF Tracked
<1>1. CASE buffer = <<>>
  <2>1. /\ active' = FALSE
        /\ completions' = completions \ {Back.id}
        /\ UNCHANGED <<inGrpc, ops, buffer>>
    BY <1>1 DEF OnWrite, RemoveCompletion
  <2>2. Typed'
    BY <1>a, <1>e, <2>1 DEF Typed
  <2>3. Located'
    BY <1>e, <2>1 DEF Located
  <2>4. Tracked'
    BY <1>b, <1>e, <2>1 DEF Tracked
  <2>5. Staged' /\ FinishedOnce'
    BY <1>a, <1>b, <1>e, <2>1 DEF Staged, FinishedOnce
  <2>6. ReadInOrder'
    BY <1>a, <1>e, <2>1 DEF ReadInOrder
  <2>7. WrittenInOrder'
    <3>1. Len(buffer) = 0 /\ DOMAIN buffer = {}
      BY <1>1
    <3>2. arrived = written
      BY <1>f, <1>g, <3>1
    <3> QED BY <1>1, <1>a, <1>d, <1>e, <1>g, <1>h, <2>1, <3>1, <3>2 DEF WrittenInOrder
  <2> QED BY <1>e, <2>2, <2>3, <2>4, <2>5, <2>6, <2>7
<1>2. CASE buffer # <<>>
  <2>1. /\ Issue(Op("write", Head(buffer), "next"), {Back.id})
        /\ buffer' = Tail(buffer)
        /\ UNCHANGED active
    BY <1>2 DEF OnWrite
  <2>2. /\ Head(buffer) = buffer[1] /\ 1 \in DOMAIN buffer
        /\ Head(buffer) \in Nat
    BY <1>2, <1>g, SeqFacts
  <2>3. /\ buffer' \in Seq(Nat)
        /\ Len(buffer') = Len(buffer) - 1
        /\ \A k \in DOMAIN buffer' : k + 1 \in DOMAIN buffer
                                     /\ buffer'[k] = buffer[k + 1]
        /\ DOMAIN buffer' \subseteq Nat
    BY <1>2, <1>g, <2>1, TailFacts, SeqFacts
  <2>4. Appended(Op("write", Head(buffer), "next"))
    <3>1. Op("write", Head(buffer), "next") \in Operation
      BY <2>2 DEF Op, Operation
    <3> QED BY <2>1, <3>1, AppendedFacts DEF Issue
  <2>5. /\ inGrpc' = inGrpc \cup {NewId}
        /\ completions' = (completions \ {Back.id}) \cup {NewId}
        /\ ops'[NewId].type = "write" /\ ops'[NewId].next = "next"
        /\ ops'[NewId].callback /\ ops'[NewId].message = Head(buffer)
    BY <2>1, <2>4 DEF Issue, Appended, Op
  <2>6. /\ ops' \in Seq(Operation)
        /\ DOMAIN ops \subseteq Nat /\ NewId \in Nat
        /\ DOMAIN ops' = DOMAIN ops \cup {NewId}
        /\ NewId \notin DOMAIN ops
        /\ \A i \in DOMAIN ops : i < NewId /\ ops'[i] = ops[i]
    BY <2>4 DEF Appended
  <2>7. Typed'
    BY <1>a, <1>e, <2>1, <2>3, <2>5, <2>6 DEF Typed
  <2>8. Located'
    BY <1>e, <2>5 DEF Located
  <2>9. Tracked'
    <3>1. \A i, j \in completions' : ops'[i].type = ops'[j].type => i = j
      BY <1>d, <1>h, <2>5, <2>6 DEF Tracked
    <3> QED BY <1>b, <1>d, <1>e, <2>5, <2>6, <3>1 DEF Tracked
  <2>10. Staged'
    BY <1>a, <1>b, <1>d, <1>e, <2>1, <2>5, <2>6 DEF Staged
  <2>11. FinishedOnce'
    BY <1>a, <1>d, <1>e, <2>5, <2>6 DEF FinishedOnce
  <2>12. ReadInOrder'
    BY <1>a, <1>d, <1>e, <2>5, <2>6 DEF ReadInOrder
  <2>13. WrittenInOrder'
    <3>1. \A k \in DOMAIN buffer' : buffer'[k] = written - Len(buffer') + k
      BY <1>f, <1>g, <2>3
    <3>2. /\ Head(buffer) = written - Len(buffer')
          /\ Head(buffer) = arrived + 1 /\ Head(buffer) <= written
      BY <1>f, <1>g, <2>2, <2>3
    <3>3. /\ \A i \in completions' : ops'[i].type = "write" => i = NewId
          /\ \A r \in Returned' : ops'[r.id].callback => ops'[r.id].type # "write"
      BY <1>d, <1>e, <1>h, <2>5, <2>6
    <3>4. inGrpc' \subseteq completions' /\ arrived <= written
      BY <2>9 DEF Tracked, WrittenInOrder
    <3> QED BY <1>a, <1>f, <2>1, <2>5, <3>1, <3>2, <3>3, <3>4 DEF WrittenInOrder
  <2> QED BY <1>e, <2>7, <2>8, <2>9, <2>10, <2>11, <2>12, <2>13
<1> QED BY <1>1, <1>2

\* A callback ends the stream's use: the other operations are cancelled.
LEMMA EndingCallbackKeeps ==
    ASSUME IInv, OnFinish \/ OnOperationFailed
    PROVE  IInv'
<1> USE DEF IInv, grpc, stream, history
<1>a. /\ Callback /\ BackOp.callback
      /\ completions' = completions \ {Back.id}
      /\ ops' = Cancelled(completions \ {Back.id})
      /\ UNCHANGED <<grpc, started, observer, active, buffer, history>>
  BY DEF OnFinish, OnOperationFailed, Succeeded, Failed, RemoveCompletion
<1>b. /\ Popped
      /\ Back.id \in completions /\ Back.id \in DOMAIN ops
      /\ Back.id \notin inGrpc
      /\ observer /\ started /\ ending = "none"
      /\ \A i \in completions \ {Back.id} : ops[i].type # BackOp.type
  BY <1>a, BackIsTheOne
<1>c. /\ tasks' \in Seq(Task) /\ Once'
      /\ Returned' = Returned \ {Back}
      /\ \A r \in Returned' : r.id # Back.id
  BY <1>b DEF Popped
<1>d. CancelledOnes(completions \ {Back.id})
  BY <1>a, CancelledFacts
<1>e. \/ /\ worker' = "draining" /\ ending' = "observer" /\ finished' = finished
      \/ /\ worker' = "failing" /\ ending' = ending /\ ~finished /\ finished' = TRUE
  BY DEF OnFinish, OnOperationFailed, Succeeded, Failed
<1>f. /\ completions \subseteq DOMAIN ops /\ inGrpc \subseteq completions
      /\ \A r \in Returned : r.id \in DOMAIN ops
  BY DEF Typed, Tracked
<1>1. Typed'
  <2>1. /\ ops' \in Seq(Operation) /\ DOMAIN ops' = DOMAIN ops
        /\ \A i \in DOMAIN ops : ops'[i].type = ops[i].type
                                 /\ ops'[i].next = ops[i].next
    BY <1>d DEF CancelledOnes
  <2>2. \A i \in DOMAIN ops' : /\ ops'[i].next = "read" => ops'[i].type = "read"
                               /\ ops'[i].next = "next" => ops'[i].type = "write"
                               /\ ops'[i].next = "notify" => ops'[i].type = "finish"
    BY <2>1 DEF Typed
  <2>3. (\A r \in Returned' : r.id \in DOMAIN ops') /\ completions' \subseteq DOMAIN ops'
    BY <1>a, <1>c, <1>f, <2>1
  <2>4. /\ finished' \in BOOLEAN /\ ending' \in {"none", "nobody", "observer"}
        /\ worker' \in {"idle", "writing", "failing", "finishing", "draining"}
    BY <1>b, <1>e DEF Typed
  <2>5. Typed
    OBVIOUS
  <2> HIDE DEF IInv
  <2> QED BY <1>a, <1>c, <2>1, <2>2, <2>3, <2>4, <2>5 DEF Typed
<1>2. Located'
  BY <1>a, <1>c DEF Located
<1>3. Tracked'
  <2>1. \A i \in DOMAIN ops : /\ ops'[i].type = ops[i].type
                              /\ ops'[i].callback => ops[i].callback
    BY <1>d DEF CancelledOnes
  <2>2. Tracked
    OBVIOUS
  <2>3. inGrpc' = inGrpc
    BY <1>a
  <2> HIDE DEF IInv
  <2>4. inGrpc' \subseteq completions'
    BY <1>a, <1>b, <1>f, <2>3
  <2>5. \A r \in Returned' : r.id \notin inGrpc'
    BY <1>c, <2>2, <2>3 DEF Tracked
  <2>6. \A r \in Returned' : ops'[r.id].callback => r.id \in completions'
    BY <1>a, <1>c, <1>f, <2>1, <2>2 DEF Tracked
  <2>7. ASSUME NEW i \in completions', NEW j \in completions',
               ops'[i].type = ops'[j].type
        PROVE  i = j
    <3>1. i \in completions /\ j \in completions
      BY <1>a
    <3>2. i \in DOMAIN ops /\ j \in DOMAIN ops
      BY <1>f, <3>1
    <3>3. ops[i].type = ops[j].type
      BY <2>1, <2>7, <3>2
    <3> QED BY <2>2, <3>1, <3>3 DEF Tracked
  <2> QED BY <2>4, <2>5, <2>6, <2>7 DEF Tracked
<1>4. Staged'
  BY <1>a, <1>b, <1>d, <1>e, <1>f DEF Staged, CancelledOnes
<1>5. FinishedOnce'
  <2>1. DOMAIN ops' = DOMAIN ops /\ \A i \in DOMAIN ops : ops'[i].type = ops[i].type
    BY <1>d DEF CancelledOnes
  <2>2. /\ worker' \in {"failing", "finishing"} => finished'
        /\ ~finished' \/ worker' \in {"failing", "finishing"} => ~finished
    BY <1>e
  <2>3. FinishedOnce /\ inGrpc \subseteq DOMAIN ops
    BY <1>f
  <2> HIDE DEF IInv
  <2> QED BY <1>a, <2>1, <2>2, <2>3 DEF FinishedOnce
<1>6. ReadInOrder'
  BY <1>a, <1>c, <1>d, <1>f DEF ReadInOrder, CancelledOnes
<1>7. WrittenInOrder'
  <2>1. ending' = "none" => ending = "none"
    BY <1>b
  <2>2. \A i \in DOMAIN ops : /\ ops'[i].type = ops[i].type
                              /\ ops'[i].message = ops[i].message
                              /\ ops'[i].callback => ops[i].callback
    BY <1>d DEF CancelledOnes
  <2>3. /\ completions' \subseteq completions /\ Returned' \subseteq Returned
        /\ UNCHANGED <<inGrpc, active, buffer, arrived, written>>
    BY <1>a, <1>c
  <2>4. WrittenInOrder
    OBVIOUS
  <2> HIDE DEF IInv
  <2> QED BY <1>b, <1>f, <2>1, <2>2, <2>3, <2>4 DEF WrittenInOrder
<1> QED BY <1>c, <1>1, <1>2, <1>3, <1>4, <1>5, <1>6, <1>7

LEMMA OnLateFailureKeeps ==
    ASSUME IInv, OnLateFailure
    PROVE  IInv'
<1> USE DEF IInv, grpc, stream, history
<1>a. Popped
  BY PoppedFacts DEF OnLateFailure, Failed
<1>b. /\ completions' = completions \ {Back.id}
      /\ UNCHANGED <<grpc, ops, started, observer, finished, active, buffer,
                     ending, worker, history>>
  BY DEF OnLateFailure, RemoveCompletion
<1>c. Back.id \notin inGrpc
  BY <1>a DEF Popped, Tracked
<1>1. Typed'
  BY <1>a, <1>b DEF Typed, Popped
<1>2. Located'
  BY <1>a, <1>b DEF Located, Popped
<1>3. Tracked'
  BY <1>a, <1>b, <1>c DEF Tracked, Popped
<1>4. Staged' /\ FinishedOnce'
  BY <1>a, <1>b DEF Staged, FinishedOnce, Popped
<1>5. ReadInOrder' /\ WrittenInOrder'
  BY <1>a, <1>b DEF ReadInOrder, WrittenInOrder, Popped
<1> QED BY <1>a, <1>1, <1>2, <1>3, <1>4, <1>5 DEF Popped

--------------------------------------------------------------------------------
(* The gRPC thread.                                                           *)

\* Whatever comes back, and how, the bookkeeping is kept.
LEMMA CompleteKeeps ==
    ASSUME IInv, NEW i \in inGrpc, NEW type, NEW ok \in BOOLEAN,
           NEW message \in Nat, Complete(i, type, ok, message),
           UNCHANGED <<ops, stream, worker>>
    PROVE  /\ i \in completions /\ i \in DOMAIN ops /\ ops[i].type = type
           /\ started
           /\ inGrpc' = inGrpc \ {i}
           /\ tasks' \in Seq(Task)
           /\ \A r \in Returned' : r.id \in DOMAIN ops
           /\ \A r \in Returned' : \/ r \in Returned /\ r.id # i
                                   \/ r.id = i /\ r.ok = ok /\ r.message = message
           /\ Once' /\ Located' /\ Tracked' /\ FinishedOnce'
<1> USE DEF IInv, stream
<1> DEFINE back == [id |-> i, ok |-> ok, message |-> message]
<1>1. /\ tasks' \in Seq(Task) /\ Once'
      /\ i \in DOMAIN ops /\ ops[i].type = type
      /\ inGrpc' = inGrpc \ {i}
      /\ Returned' = Returned \cup {[id |-> i, ok |-> ok, message |-> message]}
  <2>1. Typed /\ Once /\ Tracked
    OBVIOUS
  <2> HIDE DEF IInv
  <2> QED BY <2>1, CameBackFacts
<1>2. /\ Returned' = Returned \cup {back}
      /\ back.id = i /\ back.ok = ok /\ back.message = message
  BY <1>1
<1> HIDE DEF back
<1>3. /\ i \in completions /\ inGrpc \subseteq completions
      /\ \A r \in Returned : r.id # i /\ r.id \in DOMAIN ops
  BY DEF Tracked, Typed
<1>4. started
  <2>1. ops # <<>>
    BY <1>1
  <2> QED BY <2>1 DEF Staged
<1>5. Located'
  BY <1>1, <1>2 DEF Located
<1>6. Tracked'
  BY <1>1, <1>2, <1>3 DEF Tracked
<1>7. FinishedOnce'
  BY <1>1 DEF FinishedOnce
<1> QED BY <1>1, <1>2, <1>3, <1>4, <1>5, <1>6, <1>7

LEMMA MessageCameKeeps ==
    ASSUME IInv, NEW i \in inGrpc, MessageCame(i)
    PROVE  IInv'
<1> USE DEF IInv, stream, history
<1>a. /\ Complete(i, "read", TRUE, said + 1)
      /\ UNCHANGED <<call, ops, stream, worker>>
      /\ said' = said + 1 /\ UNCHANGED history
  BY DEF MessageCame
<1>b. /\ i \in completions /\ i \in DOMAIN ops /\ ops[i].type = "read"
      /\ started
      /\ inGrpc' = inGrpc \ {i}
      /\ tasks' \in Seq(Task)
      /\ \A r \in Returned' : r.id \in DOMAIN ops
      /\ \A r \in Returned' : \/ r \in Returned /\ r.id # i
                              \/ r.id = i /\ r.ok = TRUE /\ r.message = said + 1
      /\ Once' /\ Located' /\ Tracked' /\ FinishedOnce'
  <2>1. said + 1 \in Nat
    BY DEF Typed
  <2> QED BY <1>a, <2>1, CompleteKeeps
<1>1. Typed'
  BY <1>a, <1>b DEF Typed
<1>2. Staged'
  BY <1>a, <1>b DEF Staged
<1>3. ReadInOrder'
  <2>1. \A j \in completions : ops[j].type = "read" => j = i
    BY <1>b DEF Tracked
  <2>2. \A j \in inGrpc' : ops'[j].type # "read"
    BY <1>a, <1>b, <2>1 DEF Tracked
  <2>3. ASSUME NEW r \in Returned', ops'[r.id].type = "read", ops'[r.id].callback
        PROVE  r.message = said' /\ said' = heard' + 1
    <3>1. r.id = i
      BY <1>a, <1>b, <2>1, <2>3 DEF Tracked
    <3> QED BY <1>a, <1>b, <2>3, <3>1 DEF ReadInOrder
  <2> QED BY <2>2, <2>3 DEF ReadInOrder
<1>4. WrittenInOrder'
  BY <1>a, <1>b DEF WrittenInOrder
<1> QED BY <1>b, <1>1, <1>2, <1>3, <1>4

LEMMA ReadFailedKeeps ==
    ASSUME IInv, NEW i \in inGrpc, ReadFailed(i)
    PROVE  IInv'
<1> USE DEF IInv, stream, history
<1>a. /\ Complete(i, "read", FALSE, 0)
      /\ UNCHANGED <<call, ops, stream, worker>>
      /\ UNCHANGED <<said, history>>
  BY DEF ReadFailed
<1>b. /\ i \in completions /\ i \in DOMAIN ops /\ ops[i].type = "read"
      /\ started
      /\ inGrpc' = inGrpc \ {i}
      /\ tasks' \in Seq(Task)
      /\ \A r \in Returned' : r.id \in DOMAIN ops
      /\ \A r \in Returned' : \/ r \in Returned /\ r.id # i
                              \/ r.id = i /\ r.ok = FALSE /\ r.message = 0
      /\ Once' /\ Located' /\ Tracked' /\ FinishedOnce'
  <2>1. 0 \in Nat
    BY DEF Typed
  <2> QED BY <1>a, <2>1, CompleteKeeps
<1>1. Typed'
  BY <1>a, <1>b DEF Typed
<1>2. Staged'
  BY <1>a, <1>b DEF Staged
<1>3. ReadInOrder'
  BY <1>a, <1>b DEF ReadInOrder
<1>4. WrittenInOrder'
  BY <1>a, <1>b DEF WrittenInOrder
<1> QED BY <1>b, <1>1, <1>2, <1>3, <1>4

LEMMA WriteArrivedKeeps ==
    ASSUME IInv, NEW i \in inGrpc, WriteArrived(i)
    PROVE  IInv'
<1> USE DEF IInv, stream, history
<1>a. /\ Complete(i, "write", TRUE, 0)
      /\ UNCHANGED <<call, ops, stream, worker>>
      /\ arrived' = ops[i].message
      /\ UNCHANGED <<said, heard, written, told>>
  BY DEF WriteArrived
<1>b. /\ i \in completions /\ i \in DOMAIN ops /\ ops[i].type = "write"
      /\ started
      /\ inGrpc' = inGrpc \ {i}
      /\ tasks' \in Seq(Task)
      /\ \A r \in Returned' : r.id \in DOMAIN ops
      /\ \A r \in Returned' : \/ r \in Returned /\ r.id # i
                              \/ r.id = i /\ r.ok = TRUE /\ r.message = 0
      /\ Once' /\ Located' /\ Tracked' /\ FinishedOnce'
  <2>1. 0 \in Nat
    BY DEF Typed
  <2> QED BY <1>a, <2>1, CompleteKeeps
<1>c. ops[i].message \in Nat
  BY <1>b, OpsFields
<1>1. Typed'
  BY <1>a, <1>b, <1>c DEF Typed
<1>2. Staged'
  BY <1>a, <1>b DEF Staged
<1>3. ReadInOrder'
  BY <1>a, <1>b DEF ReadInOrder
<1>4. WrittenInOrder'
  <2>1. \A j \in completions : ops[j].type = "write" => j = i
    BY <1>b DEF Tracked
  <2>2. \A j \in inGrpc' : ops'[j].type # "write"
    BY <1>a, <1>b, <2>1 DEF Tracked
  <2>3. ops[i].message = arrived + 1 /\ ops[i].message <= written /\ active
    BY <1>b DEF WrittenInOrder
  <2>4. arrived' <= written'
    BY <1>a, <2>3 DEF WrittenInOrder
  <2>5. ASSUME NEW r \in Returned', ops'[r.id].type = "write", ops'[r.id].callback,
               r.ok
        PROVE  arrived' = ops'[r.id].message
    <3>1. r.id = i
      BY <1>a, <1>b, <2>1, <2>5 DEF Tracked
    <3> QED BY <1>a, <1>b, <2>5, <3>1
  <2> QED BY <1>a, <2>2, <2>3, <2>4, <2>5 DEF WrittenInOrder
<1> QED BY <1>b, <1>1, <1>2, <1>3, <1>4

LEMMA WriteFailedKeeps ==
    ASSUME IInv, NEW i \in inGrpc, WriteFailed(i)
    PROVE  IInv'
<1> USE DEF IInv, stream, history
<1>a. /\ Complete(i, "write", FALSE, 0)
      /\ UNCHANGED <<call, ops, stream, worker>>
      /\ arrived' \in {arrived, ops[i].message}
      /\ UNCHANGED <<said, heard, written, told>>
  BY DEF WriteFailed
<1>b. /\ i \in completions /\ i \in DOMAIN ops /\ ops[i].type = "write"
      /\ started
      /\ inGrpc' = inGrpc \ {i}
      /\ tasks' \in Seq(Task)
      /\ \A r \in Returned' : r.id \in DOMAIN ops
      /\ \A r \in Returned' : \/ r \in Returned /\ r.id # i
                              \/ r.id = i /\ r.ok = FALSE /\ r.message = 0
      /\ Once' /\ Located' /\ Tracked' /\ FinishedOnce'
  <2>1. 0 \in Nat
    BY DEF Typed
  <2> QED BY <1>a, <2>1, CompleteKeeps
<1>c. ops[i].message \in Nat
  BY <1>b, OpsFields
<1>1. Typed'
  BY <1>a, <1>b, <1>c DEF Typed
<1>2. Staged'
  BY <1>a, <1>b DEF Staged
<1>3. ReadInOrder'
  BY <1>a, <1>b DEF ReadInOrder
<1>4. WrittenInOrder'
  <2>1. \A j \in completions : ops[j].type = "write" => j = i
    BY <1>b DEF Tracked
  <2>2. \A j \in inGrpc' : ops'[j].type # "write"
    BY <1>a, <1>b, <2>1 DEF Tracked
  <2>3. ops[i].message = arrived + 1 /\ ops[i].message <= written /\ active
    BY <1>b DEF WrittenInOrder
  <2>4. arrived' <= written'
    BY <1>a, <2>3 DEF WrittenInOrder
  <2>5. ASSUME NEW r \in Returned', ops'[r.id].type = "write", ops'[r.id].callback,
               r.ok
        PROVE  arrived' = ops'[r.id].message
    <3>1. r.id = i
      BY <1>a, <1>b, <2>1, <2>5 DEF Tracked
    <3> QED BY <1>a, <1>b, <2>5, <3>1
  <2> QED BY <1>a, <2>2, <2>3, <2>4, <2>5 DEF WrittenInOrder
<1> QED BY <1>b, <1>1, <1>2, <1>3, <1>4

LEMMA CallOverKeeps ==
    ASSUME IInv, NEW i \in inGrpc, CallOver(i)
    PROVE  IInv'
<1> USE DEF IInv, stream, history
<1>a. /\ Complete(i, "finish", TRUE, 0)
      /\ UNCHANGED <<call, ops, stream, worker>>
      /\ UNCHANGED <<said, history>>
  BY DEF CallOver
<1>b. /\ i \in completions /\ i \in DOMAIN ops /\ ops[i].type = "finish"
      /\ started
      /\ inGrpc' = inGrpc \ {i}
      /\ tasks' \in Seq(Task)
      /\ \A r \in Returned' : r.id \in DOMAIN ops
      /\ \A r \in Returned' : \/ r \in Returned /\ r.id # i
                              \/ r.id = i /\ r.ok = TRUE /\ r.message = 0
      /\ Once' /\ Located' /\ Tracked' /\ FinishedOnce'
  <2>1. 0 \in Nat
    BY DEF Typed
  <2> QED BY <1>a, <2>1, CompleteKeeps
<1>1. Typed'
  BY <1>a, <1>b DEF Typed
<1>2. Staged'
  BY <1>a, <1>b DEF Staged
<1>3. ReadInOrder'
  BY <1>a, <1>b DEF ReadInOrder
<1>4. WrittenInOrder'
  BY <1>a, <1>b DEF WrittenInOrder
<1> QED BY <1>b, <1>1, <1>2, <1>3, <1>4

LEMMA CallFailsKeeps ==
    ASSUME IInv, CallFails
    PROVE  IInv'
<1> USE DEF IInv, stream, history
<1>1. /\ Returned' = Returned
      /\ call' = "failed"
      /\ UNCHANGED <<said, inGrpc, tasks, ops, stream, worker, history>>
  BY DEF Returned, CallFails
<1>2. Typed'
  BY <1>1 DEF Typed
<1>3. Once' /\ Located' /\ Tracked'
  BY <1>1 DEF Once, Located, Tracked
<1>4. Staged' /\ FinishedOnce'
  BY <1>1 DEF Staged, FinishedOnce
<1>5. ReadInOrder' /\ WrittenInOrder'
  BY <1>1 DEF ReadInOrder, WrittenInOrder
<1> QED BY <1>2, <1>3, <1>4, <1>5


--------------------------------------------------------------------------------
(* Every step.                                                                *)

LEMMA InitHolds == Init => IInv
<1> SUFFICES ASSUME Init PROVE IInv
  OBVIOUS
<1>1. /\ ops = <<>> /\ tasks = <<>> /\ buffer = <<>>
      /\ completions = {} /\ inGrpc = {}
      /\ DOMAIN ops = {} /\ DOMAIN tasks = {} /\ DOMAIN buffer = {}
      /\ ops \in Seq(Operation) /\ tasks \in Seq(Task) /\ buffer \in Seq(Nat)
  BY DEF Init
<1>2. Returned = {}
  BY <1>1 DEF Returned
<1>3. Typed /\ Once
  BY <1>1, <1>2 DEF Init, Typed, Once
<1>4. Located /\ Tracked /\ Staged /\ FinishedOnce
  BY <1>1, <1>2 DEF Init, Located, Tracked, Staged, FinishedOnce
<1>5. ReadInOrder /\ WrittenInOrder
  BY <1>1, <1>2 DEF Init, ReadInOrder, WrittenInOrder
<1> QED BY <1>3, <1>4, <1>5 DEF IInv

LEMMA StepKeeps == IInv /\ [Next]_vars => IInv'
<1> SUFFICES ASSUME IInv, [Next]_vars PROVE IInv'
  OBVIOUS
<1>1. CASE Client
  BY <1>1, StartKeeps, WriteKeeps, FinishingKeeps, TryLastWriteKeeps DEF Client
<1>2. CASE Unblocked
  BY <1>2, FinishingKeeps, FinishGrpcCallKeeps, EndShutdownKeeps DEF Unblocked
<1>3. CASE Callbacks
  BY <1>3, IgnoredKeeps, OnReadKeeps, OnWriteKeeps, EndingCallbackKeeps,
     OnLateFailureKeeps DEF Callbacks
<1>4. CASE Polling
  BY <1>4, MessageCameKeeps, ReadFailedKeeps, WriteArrivedKeeps, WriteFailedKeeps,
     CallOverKeeps DEF Polling
<1>5. CASE CallFails
  BY <1>5, CallFailsKeeps
<1>6. CASE UNCHANGED vars
  BY <1>6 DEF vars, grpc, stream, history, IInv, Typed, Returned, Once, Located,
              Tracked, Staged, FinishedOnce, ReadInOrder, WrittenInOrder
<1> QED BY <1>1, <1>2, <1>3, <1>4, <1>5, <1>6 DEF Next

LEMMA Invariance == Spec => []IInv
BY InitHolds, StepKeeps, PTL DEF Spec

--------------------------------------------------------------------------------
(* What follows.                                                              *)

\* The stream's own bookkeeping: completions_ and the operations that are with
\* gRPC or have a callback to come always agree, and nothing stays in the
\* writer's buffer when no write is out.
THEOREM TypeCorrect == Spec => []TypeOK
<1>1. IInv => TypeOK
  <2> SUFFICES ASSUME IInv PROVE TypeOK
    OBVIOUS
  <2>1. completions \subseteq inGrpc \cup {tasks[t].id : t \in DOMAIN tasks}
    BY DEF IInv, Located, Returned
  <2>2. \A t \in DOMAIN tasks :
            ops[tasks[t].id].callback => tasks[t].id \in completions
    BY DEF IInv, Tracked, Returned
  <2>3. inGrpc \subseteq completions /\ (buffer # <<>> => active)
    BY DEF IInv, Tracked, WrittenInOrder
  <2>4. /\ worker \in {"idle", "writing", "failing", "finishing", "draining"}
        /\ worker \in {"finishing", "draining"} => ending # "none"
    BY DEF IInv, Typed, Staged
  <2> QED BY <2>1, <2>2, <2>3, <2>4 DEF TypeOK
<1> QED BY <1>1, Invariance, PTL

\* Whatever the client calls and in whatever order operations come back, gRPC
\* never has two reads, two writes or a second "finish" of the stream, and never
\* anything older than "finish" beside it.
THEOREM RulesKept == Spec => []GrpcRulesKept
<1>1. IInv => GrpcRulesKept
  BY DEF IInv, Tracked, FinishedOnce, GrpcRulesKept
<1> QED BY <1>1, Invariance, PTL

\* When Shutdown has returned the stream can be destroyed: gRPC has none of its
\* operations, and the callbacks still on the worker queue do nothing.
THEOREM Destroyable == Spec => []SafeToDestroy
<1>1. IInv => SafeToDestroy
  <2> SUFFICES ASSUME IInv, ~observer PROVE SafeToDestroy
    BY DEF SafeToDestroy
  <2>1. completions = {} /\ inGrpc = {}
    BY DEF IInv, Staged, Tracked
  <2>2. \A t \in DOMAIN tasks : ~ops[tasks[t].id].callback
    BY <2>1 DEF IInv, Tracked, Returned
  <2> QED BY <2>1, <2>2 DEF SafeToDestroy
<1> QED BY <1>1, Invariance, PTL

--------------------------------------------------------------------------------
(* The promise.                                                               *)

Phase == IF ~observer THEN "over"
         ELSE IF ending = "nobody" THEN "closing"
         ELSE IF started THEN "open" ELSE "new"

PromisedStep == [Promised!Next]_<<Phase, heard, written, arrived, told>>

LEMMA ClientRefines == ASSUME IInv, Client PROVE PromisedStep
<1> USE DEF PromisedStep, Phase
<1>0. worker = "idle" /\ observer /\ ending = "none"
  <2>1. ClientCalls
    BY DEF Client, Start, Write, FinishImmediately, FinishAndNotify,
           FinishWithoutWrite, TryLastWrite
  <2> QED BY <2>1 DEF ClientCalls, IInv, Staged
<1>1. CASE Start
  BY <1>0, <1>1 DEF Start, history, Promised!Next, Promised!Start
<1>2. CASE Write
  BY <1>0, <1>2 DEF Write, Promised!Next, Promised!Write
<1>3. CASE FinishImmediately
  BY <1>0, <1>3 DEF FinishImmediately, Shutdown, Promised!Next, Promised!Close
<1>4. CASE FinishAndNotify
  BY <1>0, <1>4 DEF FinishAndNotify, Shutdown
<1>5. CASE FinishWithoutWrite
  BY <1>0, <1>5 DEF FinishWithoutWrite, Shutdown, Promised!Next, Promised!Close
<1>6. CASE TryLastWrite
  BY <1>0, <1>6 DEF TryLastWrite, Promised!Next, Promised!Close
<1> QED BY <1>1, <1>2, <1>3, <1>4, <1>5, <1>6 DEF Client

LEMMA UnblockedRefines == ASSUME IInv, Unblocked PROVE PromisedStep
<1> USE DEF PromisedStep, Phase
<1>1. CASE LastWriteOver
  <2>1. ending = "nobody"
    BY <1>1 DEF LastWriteOver, IInv, Staged
  <2> QED BY <1>1, <2>1 DEF LastWriteOver, Shutdown
<1>2. CASE FinishGrpcCall
  BY <1>2 DEF FinishGrpcCall, history
<1>3. CASE EndShutdown
  <2>1. observer /\ ending \in {"nobody", "observer"}
    BY <1>3 DEF EndShutdown, IInv, Staged, Typed
  <2>2. CASE ending = "nobody"
    BY <1>3, <2>1, <2>2 DEF EndShutdown, Told, Promised!Next, Promised!Closed
  <2>3. CASE ending = "observer"
    BY <1>3, <2>1, <2>3 DEF EndShutdown, Told, Promised!Next, Promised!Fail
  <2> QED BY <2>1, <2>2, <2>3
<1> QED BY <1>1, <1>2, <1>3 DEF Unblocked

LEMMA CallbacksRefine == ASSUME IInv, Callbacks PROVE PromisedStep
<1> USE DEF PromisedStep, Phase
<1>1. CASE Ignored
  BY <1>1 DEF Ignored, stream, history
<1>2. CASE OnRead
  <2>1. /\ Callback /\ BackOp.callback /\ Back.ok /\ BackOp.next = "read"
        /\ heard' = Back.message
        /\ UNCHANGED <<started, observer, ending, written, arrived, told>>
    BY <1>2 DEF OnRead, Succeeded
  <2>2. /\ observer /\ started /\ ending = "none"
        /\ Back \in Returned /\ Back.id \in DOMAIN ops
    BY <2>1, BackIsTheOne DEF Popped
  <2>3. ops[Back.id].type = "read"
    BY <2>1, <2>2 DEF IInv, Typed, BackOp
  <2>4. heard' = heard + 1
    BY <2>1, <2>2, <2>3 DEF IInv, ReadInOrder, BackOp
  <2> QED BY <2>1, <2>2, <2>4 DEF Promised!Next, Promised!Hear
<1>3. CASE OnWrite
  BY <1>3 DEF OnWrite, history
<1>4. CASE OnFinish
  <2>1. /\ Callback /\ BackOp.callback /\ ending' = "observer"
        /\ UNCHANGED <<started, observer, heard, written, arrived, told>>
    BY <1>4 DEF OnFinish, Succeeded, history
  <2>2. ending = "none"
    BY <2>1, BackIsTheOne
  <2> QED BY <2>1, <2>2
<1>5. CASE OnOperationFailed \/ OnLateFailure
  BY <1>5 DEF OnOperationFailed, OnLateFailure, history
<1> QED BY <1>1, <1>2, <1>3, <1>4, <1>5 DEF Callbacks

LEMMA PollingRefines == ASSUME IInv, Polling PROVE PromisedStep
<1> USE DEF PromisedStep, Phase
<1>1. PICK i \in inGrpc : \/ MessageCame(i) \/ ReadFailed(i)
                          \/ WriteArrived(i) \/ WriteFailed(i) \/ CallOver(i)
  BY DEF Polling
<1>2. CASE MessageCame(i) \/ ReadFailed(i) \/ CallOver(i)
  <2>1. UNCHANGED stream /\ UNCHANGED history
    BY <1>2 DEF MessageCame, ReadFailed, CallOver
  <2> QED BY <2>1 DEF stream, history
<1>3. CASE WriteArrived(i) \/ WriteFailed(i)
  <2>1. /\ UNCHANGED <<started, observer, ending, heard, written, told>>
        /\ arrived' \in {arrived, ops[i].message}
        /\ ops[i].type = "write"
    BY <1>3 DEF WriteArrived, WriteFailed, Complete, stream
  <2>2. ops[i].message = arrived + 1 /\ ops[i].message <= written
    BY <2>1 DEF IInv, WrittenInOrder
  <2>3. i \in completions /\ observer
    BY DEF IInv, Tracked, Staged
  <2>4. started
    <3>1. ops # <<>>
      BY <2>3 DEF IInv, Typed
    <3> QED BY <3>1 DEF IInv, Staged
  <2>5. arrived + 1 <= written => arrived < written
    BY DEF IInv, Typed
  <2> QED BY <2>1, <2>2, <2>3, <2>4, <2>5 DEF Promised!Next, Promised!Arrive
<1> QED BY <1>1, <1>2, <1>3

\* The stream of grpc_stream.cc keeps the promise of grpc_stream.h: the observer
\* hears the server's messages in order and nothing after the end, is told of the
\* end once unless the client made it, and the server gets the client's messages
\* in order.
THEOREM Refinement == Spec => KeepsPromise
<1>1. Init => Promised!Init
  BY DEF Init, Promised!Init
<1>2. IInv /\ [Next]_vars => PromisedStep
  <2> SUFFICES ASSUME IInv, [Next]_vars PROVE PromisedStep
    OBVIOUS
  <2>1. CASE CallFails
    BY <2>1 DEF CallFails, stream, history, PromisedStep, Phase
  <2>2. CASE UNCHANGED vars
    BY <2>2 DEF vars, stream, history, PromisedStep, Phase
  <2> QED BY <2>1, <2>2, ClientRefines, UnblockedRefines, CallbacksRefine,
             PollingRefines DEF Next
<1>3. IInv /\ [Next]_vars =>
          [Promised!Next]_<<IF ~observer THEN "over"
                            ELSE IF ending = "nobody" THEN "closing"
                            ELSE IF started THEN "open" ELSE "new",
                            heard, written, arrived, told>>
  BY <1>2 DEF PromisedStep, Phase
<1> QED BY <1>1, <1>3, Invariance, PTL DEF Spec, KeepsPromise, Promised!Spec

================================================================================
