---------------------------- MODULE NestedCalls ----------------------------
(***************************************************************************)
(* One connection of an RPC session and the calls nested on it              *)
(* (client_transact, serve_once_on_slot, execute_dispatched and send_reply  *)
(* in rsbinder/src/rpc/session.rs).  A WireReply carries no transaction id:  *)
(* a caller takes the next REPLY on its connection for its own, and runs a   *)
(* TRANSACT that arrives first inline, as a nested dispatch.  A handler that *)
(* calls back re-enters the connection its thread drives (DRIVING).          *)
(*                                                                         *)
(* stack[e] is the call stack of the thread that drives the connection at    *)
(* end e; its bottom frame owns the slot and every other one is reentrant.   *)
(* A worker of the server pins the slot for one frame at a time; between two *)
(* frames another thread of the server may claim it for an outer call.       *)
(***************************************************************************)
EXTENDS Integers, Sequences, FiniteSets

CONSTANTS Calls,       \* the transactions
          Oneway,      \* those sent with FLAG_ONEWAY
          Initiators,  \* the ends whose threads make outer calls here
          Outer,       \* those a thread may make outside of a handler
          Inner,       \* those a handler may make
          Timed,       \* those made while set_timeout is in force
          MaxDepth,    \* how many frames a stack may have
          None         \* no reply

Ends == {"client", "server"}
Peer(e) == IF e = "client" THEN "server" ELSE "client"

ASSUME NestedAssumption ==
    /\ Oneway \subseteq Calls /\ Outer \subseteq Calls /\ Inner \subseteq Calls
    /\ Timed \subseteq Calls /\ Initiators \subseteq Ends
    /\ MaxDepth \in Nat /\ None \notin Calls

VARIABLES stack,  \* stack[e]: the frames of the driving thread, outermost first
          inbox,  \* inbox[e]: the messages on their way to e
          open,   \* open[e]: the slot is in e's pool
          st,     \* st[c]: "new", "out", then "replied" or "failed"
          got     \* got[c]: the call whose REPLY c returned with
vars == <<stack, inbox, open, st, got>>

Msg(kind, c) == [kind |-> kind, call |-> c]
Loop == Msg("loop", None)

Init ==
    /\ stack = [e \in Ends |-> <<>>]
    /\ inbox = [e \in Ends |-> <<>>]
    /\ open = [e \in Ends |-> TRUE]
    /\ st = [c \in Calls |-> "new"]
    /\ got = [c \in Calls |-> None]

Top(e, kind) == stack[e] # <<>> /\ stack[e][Len(stack[e])].kind = kind
TopCall(e) == stack[e][Len(stack[e])].call
Push(e, kind, c) == stack' = [stack EXCEPT ![e] = Append(@, Msg(kind, c))]

\* The stack below the top n frames.
Under(e, n) == SubSeq(stack[e], 1, Len(stack[e]) - n)

\* Fault model: the slot is retired whoever owns it.
UnwindFault(e, n) ==
    /\ stack' = [stack EXCEPT ![e] = Under(e, n)]
    /\ open' = [open EXCEPT ![e] = FALSE]

\* The top n frames return; the slot is retired with the frame that owns it.
Unwind(e, n) ==
    /\ stack' = [stack EXCEPT ![e] = Under(e, n)]
    /\ open' = [open EXCEPT ![e] = @ /\ Under(e, n) # <<>>]

Send(e, m) == inbox' = [inbox EXCEPT ![Peer(e)] = Append(@, m)]

-----------------------------------------------------------------------------
(* client_transact *)

\* A call is made by a thread that claims the slot for it or by a handler that
\* runs on the slot.
MayCall(e, c) ==
    /\ st[c] = "new" /\ open[e]
    /\ (stack[e] = <<>> /\ e \in Initiators /\ c \in Outer) \/ (Top(e, "serve") /\ c \in Inner)
    /\ Len(stack[e]) < MaxDepth

\* The request goes out; a twoway caller then waits.
Transact(e, c) ==
    /\ MayCall(e, c) /\ open[Peer(e)]
    /\ Send(e, Msg("transact", c))
    /\ \/ c \in Oneway /\ st' = [st EXCEPT ![c] = "replied"] /\ UNCHANGED stack
       \/ c \notin Oneway /\ st' = [st EXCEPT ![c] = "out"] /\ Push(e, "call", c)
    /\ UNCHANGED <<open, got>>

\* The request cannot be sent: the call fails, and the slot stays in the pool.
SendFails(e, c) ==
    /\ MayCall(e, c) /\ ~open[Peer(e)]
    /\ st' = [st EXCEPT ![c] = "failed"]
    /\ UNCHANGED <<stack, inbox, open, got>>

\* The caller reads a REPLY and returns with it.
TakeReply(e) ==
    /\ Top(e, "call") /\ inbox[e] # <<>> /\ Head(inbox[e]).kind = "reply"
    /\ inbox' = [inbox EXCEPT ![e] = Tail(@)]
    /\ got' = [got EXCEPT ![TopCall(e)] = Head(inbox[e]).call]
    /\ st' = [st EXCEPT ![TopCall(e)] = "replied"]
    /\ stack' = [stack EXCEPT ![e] = Under(e, 1)]
    /\ UNCHANGED open

\* The caller, or the worker in its serve loop, reads a TRANSACT and
\* dispatches it.
Dispatch(e) ==
    /\ Top(e, "call") \/ Top(e, "loop")
    /\ inbox[e] # <<>> /\ Head(inbox[e]).kind = "transact"
    /\ inbox' = [inbox EXCEPT ![e] = Tail(@)]
    /\ Push(e, "serve", Head(inbox[e]).call)
    /\ UNCHANGED <<open, st, got>>

\* Fault model: the deadline is not armed for the wait.
ExpiresFault(e) == FALSE

\* ReplyDeadlineGuard arms the deadline for the wait of a call, and
\* NestedDeadlineGuard lifts it while a dispatch runs above the call.
Expires(e) == Top(e, "call") /\ TopCall(e) \in Timed

\* Fault model: the slot stays in the pool.
CallFailsKeepFault(e) ==
    /\ Top(e, "call") /\ inbox[e] = <<>>
    /\ ~open[Peer(e)] \/ Expires(e)
    /\ st' = [st EXCEPT ![TopCall(e)] = "failed"]
    /\ stack' = [stack EXCEPT ![e] = Under(e, 1)]
    /\ UNCHANGED <<inbox, open, got>>

\* recv_msg failed, because the peer closed or the deadline passed: the call
\* returns an error, and poison_slot retires the slot if this call owns it.
CallFails(e) ==
    /\ Top(e, "call") /\ inbox[e] = <<>>
    /\ ~open[Peer(e)] \/ Expires(e)
    /\ st' = [st EXCEPT ![TopCall(e)] = "failed"]
    /\ Unwind(e, 1)
    /\ UNCHANGED <<inbox, got>>

-----------------------------------------------------------------------------
(* The worker of the server, and the end of a dispatch *)

\* serve_once_on_slot pins the slot for one frame.
Pin ==
    /\ stack["server"] = <<>> /\ open["server"]
    /\ Push("server", "loop", None)
    /\ UNCHANGED <<inbox, open, st, got>>

\* "RPC server received an unexpected REPLY; ignoring".
IgnoreReply ==
    /\ Top("server", "loop") /\ inbox["server"] # <<>> /\ Head(inbox["server"]).kind = "reply"
    /\ inbox' = [inbox EXCEPT !["server"] = Tail(@)]
    /\ stack' = [stack EXCEPT !["server"] = <<>>]
    /\ UNCHANGED <<open, st, got>>

\* The peer closed: the serve loop ends and removes its slot.
ServeEnds ==
    /\ Top("server", "loop") /\ inbox["server"] = <<>> /\ ~open["client"]
    /\ Unwind("server", 1)
    /\ UNCHANGED <<inbox, st, got>>

\* How many frames end with a dispatch: the worker gives the slot back too.
Ending(e) == IF Len(stack[e]) = 2 /\ stack[e][1] = Loop THEN 2 ELSE 1

\* Fault model: the error arm answers although a reply has gone out.
FinishTwiceFault(e) ==
    /\ Top(e, "serve") /\ open[Peer(e)]
    /\ inbox' = [inbox EXCEPT ![Peer(e)] = @ \o [i \in 1 .. 2 |-> Msg("reply", TopCall(e))]]
    /\ stack' = [stack EXCEPT ![e] = Under(e, Ending(e))]
    /\ UNCHANGED <<open, st, got>>

\* The handler returned; a twoway is answered on the same connection.
Finish(e) ==
    /\ Top(e, "serve")
    /\ \/ TopCall(e) \in Oneway /\ UNCHANGED inbox
       \/ TopCall(e) \notin Oneway /\ open[Peer(e)] /\ Send(e, Msg("reply", TopCall(e)))
    /\ stack' = [stack EXCEPT ![e] = Under(e, Ending(e))]
    /\ UNCHANGED <<open, st, got>>

\* The reply cannot be sent: the frame that dispatched fails with it.
FinishFails(e) ==
    /\ Top(e, "serve") /\ TopCall(e) \notin Oneway /\ ~open[Peer(e)]
    /\ LET below == stack[e][Len(stack[e]) - 1]
       IN st' = IF below.kind = "call" THEN [st EXCEPT ![below.call] = "failed"] ELSE st
    /\ Unwind(e, 2)
    /\ UNCHANGED <<inbox, got>>

-----------------------------------------------------------------------------
Step(e) == TakeReply(e) \/ Dispatch(e) \/ CallFails(e) \/ Finish(e) \/ FinishFails(e)
Worker  == Pin \/ IgnoreReply \/ ServeEnds

Next ==
    \/ \E e \in Ends : Step(e) \/ \E c \in Calls : Transact(e, c) \/ SendFails(e, c)
    \/ Worker

Spec == Init /\ [][Next]_vars

\* The handler of a call with a deadline may hang for ever.
Hangs(e) == Top(e, "serve") /\ TopCall(e) \in Timed

\* All other handlers return, callers and workers read what arrives.  Nobody
\* has to call.
FairSpec == Spec /\ WF_vars(Worker) /\ \A e \in Ends : WF_vars(~Hangs(e) /\ Step(e))

-----------------------------------------------------------------------------
(* Properties *)

Frames == [kind : {"call", "serve"}, call : Calls] \cup {Loop}
Messages == [kind : {"transact", "reply"}, call : Calls]

TypeOK ==
    /\ stack \in [Ends -> Seq(Frames)]
    /\ inbox \in [Ends -> Seq(Messages)]
    /\ open \in [Ends -> BOOLEAN]
    /\ st \in [Calls -> {"new", "out", "replied", "failed"}]
    /\ got \in [Calls -> Calls \cup {None}]

\* A call returns with the reply to itself: no REPLY is misread by an outer, a
\* nested or a later call on the same connection (client_transact: "so the
\* desynced stream is never reused").
OwnReply == \A c \in Calls : got[c] \in {c, None}

\* Wherever a REPLY to c is: on the wire, or with the call that took it.
Replies(c) ==
    LET wire == {p \in Ends \X (1 .. Cardinality(Calls)) :
                    p[2] <= Len(inbox[p[1]]) /\ inbox[p[1]][p[2]] = Msg("reply", c)}
    IN wire \cup {<<"taken by", d>> : d \in {b \in Calls : got[b] = c}}

\* Even where replies cross or come late, a call is answered at most once and
\* not before its handler returned, and a oneway never.
AnsweredOnce ==
    \A c \in Calls :
        /\ Cardinality(Replies(c)) <= 1
        /\ Replies(c) # {} =>
              /\ c \notin Oneway
              /\ \A e \in Ends, i \in 1 .. MaxDepth + 1 :
                    i <= Len(stack[e]) => stack[e][i] # Msg("serve", c)

\* A slot leaves the pool with the frame that owns it and never under a
\* running one (poison_slot: "A reentrant guard does not own the slot (the
\* outer frame does), so it never retires it").
RetiredIsIdle == \A e \in Ends : ~open[e] => stack[e] = <<>>

\* Whatever crosses, comes late or fails: one answer per call, and no slot retired
\* under a running frame.
AnswersKept == AnsweredOnce /\ RetiredIsIdle

\* Every call returns, also when the two ends keep calling each other back:
\* nobody waits for a reply that went to somebody else; and a call with a
\* deadline (set_timeout) also when the peer's handler never returns.  A call is
\* made once, so that one that hangs would be out from some point on.
EveryCallReturns == []<>(\A c \in Calls : st[c] # "out")
=============================================================================
