------------------------------ MODULE DuplexStream -----------------------------
(******************************************************************************)
(* What a stream promises its two ends (remote/grpc_stream.h): the observer   *)
(* hears the server's messages in order and nothing once the stream is over;  *)
(* it is told of the end once, unless the client made the end; the server     *)
(* gets the client's messages in order, up to some point.                     *)
(******************************************************************************)
EXTENDS Naturals

VARIABLES
    phase,     \* "new", "open", "closing" (by the client) or "over"
    heard,     \* how many of the server's messages the observer has heard
    written,   \* how many messages the client has written
    arrived,   \* how many of these the server has
    told       \* how often the observer was told of the end

Init == phase = "new" /\ heard = 0 /\ written = 0 /\ arrived = 0 /\ told = 0

Start == /\ phase = "new" /\ phase' = "open"
         /\ UNCHANGED <<heard, written, arrived, told>>

\* The next message: none twice, and none left out.
Hear == /\ phase = "open" /\ heard' = heard + 1
        /\ UNCHANGED <<phase, written, arrived, told>>

Write == /\ phase = "open" /\ written' = written + 1
         /\ UNCHANGED <<phase, heard, arrived, told>>

Arrive == /\ phase \in {"open", "closing"}
          /\ arrived < written /\ arrived' = arrived + 1
          /\ UNCHANGED <<phase, heard, written, told>>

\* The client ends it, perhaps with a last message.
Close == /\ phase \in {"new", "open"} /\ phase' = "closing"
         /\ written' \in {written} \cup (IF phase = "open" THEN {written + 1} ELSE {})
         /\ UNCHANGED <<heard, arrived, told>>

Closed == /\ phase = "closing" /\ phase' = "over"
          /\ UNCHANGED <<heard, written, arrived, told>>

\* It ends for another reason.
Fail == /\ phase \in {"new", "open"} /\ phase' = "over"
        /\ told' = told + 1
        /\ UNCHANGED <<heard, written, arrived>>

Next == Start \/ Hear \/ Write \/ Arrive \/ Close \/ Closed \/ Fail

Spec == Init /\ [][Next]_<<phase, heard, written, arrived, told>>

================================================================================
