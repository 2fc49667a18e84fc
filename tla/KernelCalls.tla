---------------------------- MODULE KernelCalls ----------------------------
(***************************************************************************)
(* One binder thread (thread_state.rs): outgoing transactions, the         *)
(* transactions the driver hands it, nested in any order, and the calling  *)
(* identity a handler sees.  Thread state is thread local, so one thread   *)
(* is modelled; the driver keeps a stack of the transactions the thread is *)
(* part of and a FIFO of return commands for it.                           *)
(*                                                                         *)
(* `stack' is the thread's call stack, innermost frame last:               *)
(*   call   a transact() waiting in wait_for_response                      *)
(*   serve  a BR_TRANSACTION in its handler, or awaiting the completion    *)
(*          of its reply                                                   *)
(*   rpc    an RPC dispatch, which stamps RPC_CALLING                      *)
(***************************************************************************)
EXTENDS Integers, Sequences, FiniteSets, SequencesExt

CONSTANTS
    Senders,        \* sender pids of incoming transactions; the uid is 1 + pid
    SelfPid,        \* this process
    IdBits,         \* width of a pid in a token (32)
    MaxFrames,      \* bound: depth of the stack
    MaxTransacts,   \* bound: transact() calls
    MaxIncoming,    \* bound: transactions delivered to the thread
    MaxClears,      \* bound: clear_calling_identity calls
    MixedDispatch,  \* whether a transaction may arrive inside an RPC dispatch
    PeerDeaths      \* bound: callees that die

VARIABLES txn,         \* THREAD_STATE.transaction
          strict,      \* strict_mode_policy, and (history) what the thread's own code set
          rpcCalling,  \* RPC_CALLING
          stack,       \* the frames above
          callRestriction, \* "none" or "fatal" (FatalIfNotOneway)
          outParcel,   \* commands not yet sent
          kstack,      \* the driver's transaction stack of the thread (external)
          todo,        \* the driver's return commands for the thread (external)
          wrong,       \* history: a call was given the outcome of another
          crossed,     \* history: a call died under a reply in progress
          callBudget

callVars == <<txn, strict, rpcCalling, stack, outParcel, kstack, todo, wrong, crossed, callRestriction, callBudget>>

UidOf(p) == 1 + p
NoTxn == [pid |-> 0, uid |-> 0, sid |-> FALSE, explicit |-> FALSE, oneway |-> FALSE,
          ws |-> 0, some |-> FALSE]
NoPeer == [pid |-> 0, uid |-> 0, some |-> FALSE]

----------------------------------------------------------------------------
(* Calling identity tokens: uid | pid sign | explicit | pid, in IdBits.    *)

Modulus == 2^IdBits
Bit(n, i) == (n \div 2^i) % 2
SetBit(n, i) == IF Bit(n, i) = 1 THEN n ELSE n + 2^i
ClearBit(n, i) == IF Bit(n, i) = 0 THEN n ELSE n - 2^i
Signed(n) == IF n >= 2^(IdBits - 1) THEN n - Modulus ELSE n

PackCallingIdentity(explicit, uid, pid) ==
    LET low == pid % Modulus IN
    uid * Modulus + (IF explicit THEN SetBit(low, IdBits - 2) ELSE ClearBit(low, IdBits - 2))

UnpackHasExplicit(token) == Bit(token % Modulus, IdBits - 2) = 1
UnpackUid(token) == token \div Modulus

\* Fault model: the sign is not looked at.
UnpackPidUnsigned(token) == Signed(ClearBit(token % Modulus, IdBits - 2))
\* The sign bit says what the bit of hasExplicitIdentity was in the pid.
UnpackPid(token) ==
    LET low == token % Modulus IN
    Signed(IF Bit(low, IdBits - 1) = 1 THEN SetBit(low, IdBits - 2)
                                       ELSE ClearBit(low, IdBits - 2))

----------------------------------------------------------------------------
(* What the accessors answer.                                              *)

Identity(x) == [uid |-> x.uid, pid |-> x.pid]

IsHandlingTransaction == rpcCalling.some \/ txn.some

\* get_calling_uid, get_calling_pid, CallingContext: an RPC dispatch first.
Calling == IF rpcCalling.some THEN Identity(rpcCalling) ELSE Identity(txn)
CallingSid == ~rpcCalling.some /\ txn.sid

\* get_calling_uid_or_self
CallingUidOrSelf ==
    IF IsHandlingTransaction THEN Calling.uid ELSE UidOf(SelfPid)

----------------------------------------------------------------------------
(* Frames                                                                  *)

Frame(k, id) == [k |-> k, id |-> id, oneway |-> FALSE, at |-> "wait", old |-> NoTxn,
                 prev |-> NoPeer, mine |-> Identity(NoTxn), ws |-> 0, policy |-> 0, tokens |-> <<>>]
Top == IF stack = <<>> THEN [Frame("none", 0) EXCEPT !.at = "handler"] ELSE Last(stack)
Below == Front(stack)
\* Outside any frame the thread either runs user code or reads a transaction.
InUserCode ==
    /\ Top.at = "handler"
    /\ stack = <<>> => \A i \in DOMAIN todo : todo[i][1] # "TRANSACTION"
Waiting == Top.at = "wait"
Nested == Len(stack) < MaxFrames
\* Fault model: a one-way call waits for a reply.
UntilReply(f) == f.k = "serve"

\* What wait_for_response waits for: a one-way call and a reply only for
\* their completion.
UntilComplete(f) == f.k = "serve" \/ f.oneway

Spend(what) == /\ callBudget[what] > 0
               /\ callBudget' = [callBudget EXCEPT ![what] = @ - 1]

\* The identity a BR_TRANSACTION delivers.
FromTransactionData(p, oneway, sid) ==
    [pid |-> p, uid |-> UidOf(p), sid |-> sid, explicit |-> FALSE, oneway |-> oneway,
     ws |-> 0, some |-> TRUE]

----------------------------------------------------------------------------
(* Outgoing calls                                                          *)

\* A handler's result, an error or a caught panic: a two-way transaction is
\* replied to, a one-way one is over and the saved state comes back.
HandlerEnds(f) ==
    IF f.oneway
    THEN stack' = Below /\ txn' = f.old /\ UNCHANGED outParcel
    ELSE /\ stack' = Append(Below, [f EXCEPT !.at = "wait"])
         /\ outParcel' = Append(outParcel, <<"BC_REPLY", f.id>>)
         /\ UNCHANGED txn

\* Fault model: the restriction panics after the command was queued.
TransactUnchecked(oneway) ==
    LET id == callBudget.calls IN
    /\ InUserCode /\ Nested /\ Spend("calls")
    /\ IF callRestriction = "fatal" /\ ~oneway
       THEN /\ Top.k = "serve"
            /\ stack' = Append(Below, [Top EXCEPT !.at = "wait"])
            /\ outParcel' = outParcel \o <<<<"BC_TRANSACTION", id>>, <<"BC_REPLY", Top.id>>>>
            /\ UNCHANGED txn
       ELSE /\ stack' = Append(stack, [Frame("call", id) EXCEPT !.oneway = oneway])
            /\ outParcel' = Append(outParcel, <<"BC_TRANSACTION", id>>)
            /\ UNCHANGED txn
    /\ UNCHANGED <<strict, rpcCalling, kstack, todo, wrong, crossed>>

\* transact: the restriction is enforced before anything is queued; its
\* panic ends the handler it happens in.
Transact(oneway) ==
    LET id == callBudget.calls IN
    /\ InUserCode /\ Nested /\ Spend("calls")
    /\ IF callRestriction = "fatal" /\ ~oneway
       THEN Top.k = "serve" /\ HandlerEnds(Top)
       ELSE /\ stack' = Append(stack, [Frame("call", id) EXCEPT !.oneway = oneway])
            /\ outParcel' = Append(outParcel, <<"BC_TRANSACTION", id>>)
            /\ UNCHANGED txn
    /\ UNCHANGED <<strict, rpcCalling, kstack, todo, wrong, crossed>>

\* talk_with_driver: the driver takes the commands.  A two-way call enters
\* its stack; a reply leaves it and completes even if nobody waits for it.
TalkWithDriverTakes ==
    LET c == Head(outParcel) IN
    /\ Waiting /\ outParcel # <<>>
    /\ outParcel' = Tail(outParcel)
    /\ \/ /\ c[1] = "BC_TRANSACTION" /\ ~Top.oneway
          /\ \/ kstack' = Append(kstack, <<"out", c[2]>>) /\ todo' = Append(todo, <<"COMPLETE", c[2]>>)
             \/ kstack' = kstack /\ todo' = Append(todo, <<"FAILED", c[2]>>)
       \/ /\ c[1] = "BC_TRANSACTION" /\ Top.oneway
          /\ kstack' = kstack
          /\ \E r \in {"COMPLETE", "SPAM", "PENDING_FROZEN", "FAILED"} :
                todo' = Append(todo, <<r, c[2]>>)
       \/ /\ c[1] = "BC_REPLY"
          /\ kstack' = SelectSeq(kstack, LAMBDA e : e # <<"in", c[2]>>)
          /\ todo' = Append(todo, <<"COMPLETE", c[2]>>)
    /\ UNCHANGED <<txn, strict, rpcCalling, stack, wrong, crossed, callBudget>>

----------------------------------------------------------------------------
(* wait_for_response, execute_command                                      *)

NextCommand(r) == (Waiting \/ stack = <<>>) /\ outParcel = <<>> /\ todo # <<>>
                  /\ Head(todo)[1] \in r

\* The innermost frame is over.  An error of a reply leaves execute_command,
\* and so also ends the wait of the call that dispatched it.
ReturnsTo(err) ==
    IF Top.k = "serve" /\ err /\ Below # <<>> /\ Last(Below).k = "call"
    THEN Front(Below) ELSE Below
FinishFrame(err, id) ==
    /\ stack' = ReturnsTo(err)
    /\ txn' = IF Top.k = "serve" THEN Top.old ELSE txn
    /\ wrong' = (wrong \/ (Top.k = "call" /\ Top.id # id))
SkipCommand == UNCHANGED <<stack, txn, wrong>>

\* BR_TRANSACTION_COMPLETE and BR_ONEWAY_SPAM_SUSPECT.
\* Fault model: every completion ends the wait.
CompleteEarly ==
    /\ NextCommand({"COMPLETE", "SPAM"})
    /\ todo' = Tail(todo)
    /\ IF stack # <<>> THEN FinishFrame(FALSE, Head(todo)[2]) ELSE SkipCommand
    /\ UNCHANGED <<strict, rpcCalling, outParcel, kstack, crossed, callBudget>>
Complete ==
    /\ NextCommand({"COMPLETE", "SPAM"})
    /\ todo' = Tail(todo)
    /\ IF UntilComplete(Top) THEN FinishFrame(FALSE, Head(todo)[2])
                                             ELSE SkipCommand
    /\ UNCHANGED <<strict, rpcCalling, outParcel, kstack, crossed, callBudget>>

\* BR_TRANSACTION_PENDING_FROZEN ends the wait whatever it is for.
PendingFrozen ==
    /\ NextCommand({"PENDING_FROZEN"})
    /\ todo' = Tail(todo)
    /\ IF stack # <<>> THEN FinishFrame(FALSE, Head(todo)[2]) ELSE SkipCommand
    /\ UNCHANGED <<strict, rpcCalling, outParcel, kstack, crossed, callBudget>>

\* BR_DEAD_REPLY, BR_FAILED_REPLY, BR_FROZEN_REPLY.
ErrorReply ==
    /\ NextCommand({"DEAD", "FAILED"})
    /\ todo' = Tail(todo)
    /\ IF stack # <<>> THEN FinishFrame(TRUE, Head(todo)[2]) ELSE SkipCommand
    /\ UNCHANGED <<strict, rpcCalling, outParcel, kstack, crossed, callBudget>>

\* BR_REPLY, a parcel or a status; a wait for something else frees it.
Reply ==
    /\ NextCommand({"REPLY"})
    /\ todo' = Tail(todo)
    /\ IF Top.k # "none" /\ ~UntilComplete(Top) THEN FinishFrame(FALSE, Head(todo)[2])
                                              ELSE SkipCommand
    /\ UNCHANGED <<strict, rpcCalling, outParcel, kstack, crossed, callBudget>>

\* BR_TRANSACTION: the transaction state is saved in the frame and replaced.
Transaction ==
    LET c == Head(todo) IN
    /\ NextCommand({"TRANSACTION"})
    /\ todo' = Tail(todo)
    /\ stack' = Append(stack, [Frame("serve", c[2]) EXCEPT
                    !.oneway = c[4], !.at = "handler", !.old = txn,
                    !.mine = [uid |-> UidOf(c[3]), pid |-> c[3]], !.policy = strict.now])
    /\ txn' = FromTransactionData(c[3], c[4], c[5])
    /\ UNCHANGED <<strict, rpcCalling, outParcel, kstack, wrong, crossed, callBudget>>

----------------------------------------------------------------------------
(* Inside a handler                                                        *)

InHandler == Top.k = "serve" /\ Top.at = "handler"

\* The handler returns, fails or panics (dispatch_transact_caught).
HandlerReturns ==
    /\ InHandler
    /\ HandlerEnds(Top)
    /\ UNCHANGED <<strict, rpcCalling, kstack, todo, wrong, crossed, callBudget>>

\* The reply path panics: what it queued is dropped, the state restored,
\* and the error ends the wait it happened in.
ReplyPathPanics ==
    /\ Top.k = "serve" /\ Top.at = "wait" /\ outParcel # <<>>
    /\ Spend("panics")
    /\ outParcel' = <<>>
    /\ kstack' = SelectSeq(kstack, LAMBDA e : e # <<"in", Top.id>>)
    /\ crossed' = (crossed \/ ReturnsTo(TRUE) # Below)
    /\ FinishFrame(TRUE, 0)
    /\ UNCHANGED <<strict, rpcCalling, todo>>

\* Fault model: the context of the caller survives the clear.
ClearedKeepingSid(t) ==
    [t EXCEPT !.uid = UidOf(SelfPid), !.pid = SelfPid, !.explicit = TRUE]
Cleared(t) ==
    [t EXCEPT !.uid = UidOf(SelfPid), !.pid = SelfPid, !.sid = FALSE, !.explicit = TRUE]

ClearCallingIdentity ==
    /\ InHandler /\ Spend("clears")
    /\ LET token == PackCallingIdentity(txn.explicit, txn.uid, txn.pid) IN
       stack' = Append(Below, [Top EXCEPT
                    !.tokens = Append(@, [token |-> token, was |-> txn]),
                    !.mine = [uid |-> UidOf(SelfPid), pid |-> SelfPid]])
    /\ txn' = Cleared(txn)
    /\ UNCHANGED <<strict, rpcCalling, outParcel, kstack, todo, wrong, crossed>>

RestoreCallingIdentity ==
    /\ InHandler /\ Top.tokens # <<>>
    /\ LET t == Last(Top.tokens) IN
       /\ txn' = [txn EXCEPT !.uid = UnpackUid(t.token), !.pid = UnpackPid(t.token),
                             !.explicit = UnpackHasExplicit(t.token), !.sid = FALSE]
       /\ stack' = Append(Below, [Top EXCEPT !.tokens = Front(@),
                                             !.mine = Identity(t.was)])
    /\ UNCHANGED <<strict, rpcCalling, outParcel, kstack, todo, wrong, crossed, callBudget>>

\* check_interface: the header sets the work source of this transaction and
\* the strict mode policy of the thread, which a one-way call does not.
CheckInterface(ws, policy) ==
    LET now == IF txn.oneway THEN 0 ELSE policy IN
    /\ InHandler /\ Spend("headers")
    /\ strict' = [strict EXCEPT !.now = now]
    /\ txn' = [txn EXCEPT !.ws = ws]
    /\ stack' = Append(Below, [Top EXCEPT !.ws = ws, !.policy = now])
    /\ UNCHANGED <<rpcCalling, outParcel, kstack, todo, wrong, crossed>>

SetStrictModePolicy(policy) ==
    /\ stack = <<>> /\ InUserCode /\ Spend("policies")
    /\ strict' = [now |-> policy, own |-> policy]
    /\ UNCHANGED <<txn, rpcCalling, stack, outParcel, kstack, todo, wrong, crossed>>

\* RpcCallingGuard::install, and its drop.
RpcDispatch(p) ==
    /\ InUserCode /\ Nested /\ Spend("rpcs")
    /\ stack' = Append(stack, [Frame("rpc", 0) EXCEPT !.at = "handler", !.prev = rpcCalling,
                                 !.mine = Identity(p), !.ws = txn.ws, !.policy = strict.now])
    /\ rpcCalling' = p
    /\ UNCHANGED <<txn, strict, outParcel, kstack, todo, wrong, crossed>>
\* Fault model: the previous peer is not put back.
RpcForgets ==
    /\ Top.k = "rpc"
    /\ stack' = Below
    /\ UNCHANGED <<strict, rpcCalling, txn, outParcel, kstack, todo, wrong, crossed, callBudget>>
RpcReturns ==
    /\ Top.k = "rpc"
    /\ stack' = Below
    /\ rpcCalling' = Top.prev
    /\ UNCHANGED <<txn, strict, outParcel, kstack, todo, wrong, crossed, callBudget>>

----------------------------------------------------------------------------
(* The driver and the other processes                                      *)

\* A transaction reaches the thread: nested in a call it waits for, or, for
\* an idle looper, on its own.
Incoming(p, oneway, sid) ==
    LET id == 100 + callBudget.incoming IN
    /\ Nested /\ Spend("incoming")
    /\ \/ stack = <<>> /\ todo = <<>> /\ kstack = <<>>
       \/ kstack # <<>> /\ Last(kstack)[1] = "out" /\ ~oneway
    /\ MixedDispatch \/ \A i \in DOMAIN stack : stack[i].k # "rpc"
    /\ kstack' = IF oneway THEN kstack ELSE Append(kstack, <<"in", id>>)
    /\ todo' = Append(todo, <<"TRANSACTION", id, p, oneway, sid>>)
    /\ UNCHANGED <<txn, strict, rpcCalling, stack, outParcel, wrong, crossed>>

CalleeReplies ==
    /\ kstack # <<>> /\ Last(kstack)[1] = "out"
    /\ kstack' = Front(kstack)
    /\ todo' = Append(todo, <<"REPLY", Last(kstack)[2]>>)
    /\ UNCHANGED <<txn, strict, rpcCalling, stack, outParcel, wrong, crossed, callBudget>>

\* A callee dies; the call may have transactions nested above it.
CalleeDies ==
    /\ Spend("deaths")
    /\ \E i \in DOMAIN kstack :
          /\ kstack[i][1] = "out"
          /\ kstack' = RemoveAt(kstack, i)
          /\ todo' = Append(todo, <<"DEAD", kstack[i][2]>>)
          /\ crossed' = (crossed \/ i < Len(kstack))
    /\ UNCHANGED <<txn, strict, rpcCalling, stack, outParcel, wrong>>

----------------------------------------------------------------------------
CallsStart(restriction) ==
    /\ txn = NoTxn /\ rpcCalling = NoPeer /\ strict = [now |-> 0, own |-> 0]
    /\ stack = <<>> /\ outParcel = <<>> /\ kstack = <<>> /\ todo = <<>>
    /\ wrong = FALSE /\ crossed = FALSE /\ callRestriction = restriction
    /\ callBudget = [calls |-> MaxTransacts, incoming |-> MaxIncoming, clears |-> MaxClears,
                     rpcs |-> 1, headers |-> 1, policies |-> 1, deaths |-> PeerDeaths, panics |-> 1]

Restrictions == {"none", "fatal"}
CallsInit == \E restriction \in Restrictions : CallsStart(restriction)

\* peer_uid_pid: a peer without a uid has the last one, and pid -1.
RpcUnknown == [pid |-> -1, uid |-> Modulus - 1, some |-> TRUE]

Thread ==
    \/ \E oneway \in BOOLEAN : Transact(oneway)
    \/ TalkWithDriverTakes \/ Complete \/ PendingFrozen \/ ErrorReply \/ Reply \/ Transaction
    \/ HandlerReturns \/ ReplyPathPanics \/ ClearCallingIdentity \/ RestoreCallingIdentity
    \/ \E h \in 0..1 : CheckInterface(h, h)
    \/ SetStrictModePolicy(2)
    \/ RpcDispatch(RpcUnknown)
    \/ RpcReturns
Driver ==
    \/ \E p \in Senders, oneway, sid \in BOOLEAN : Incoming(p, oneway, sid)
    \/ CalleeReplies \/ CalleeDies

CallsNext == (Thread \/ Driver) /\ UNCHANGED callRestriction

\* Commands the driver has queued are read, handlers return, callees answer.
CallsMove == /\ \/ TalkWithDriverTakes \/ Complete \/ PendingFrozen \/ ErrorReply \/ Reply
                \/ Transaction \/ HandlerReturns \/ RpcReturns \/ CalleeReplies
             /\ UNCHANGED callRestriction

CallsSpec == CallsInit /\ [][CallsNext]_callVars /\ WF_callVars(CallsMove)

----------------------------------------------------------------------------
(* Properties                                                              *)

\* "Returns the sender UID delivered by the kernel ... when this thread is
\* dispatching a BR_TRANSACTION" (get_calling_uid): the innermost handler
\* sees the identity of its own transaction, or its own process between
\* clear and restore, whatever was dispatched inside its calls; outside any
\* dispatch there is no caller.
CallerSeen ==
    LET handlers == SelectSeq(stack, LAMBDA f : f.k # "call") IN
    InUserCode =>
        IF handlers = <<>> THEN ~IsHandlingTransaction
        ELSE Calling = Last(handlers).mine /\ txn.ws = Last(handlers).ws

\* restore_calling_identity brings back what clear_calling_identity saved,
\* for every pid the token has room for, negative ones included.
TokenRestores ==
    \A i \in DOMAIN stack : \A j \in DOMAIN stack[i].tokens :
        LET t == stack[i].tokens[j] IN
        /\ UnpackUid(t.token) = t.was.uid
        /\ UnpackPid(t.token) = t.was.pid
        /\ UnpackHasExplicit(t.token) = t.was.explicit

\* The SELinux context is never seen together with an identity it does not
\* belong to: not after a clear, not in an RPC dispatch.
SidBelongsToCaller ==
    CallingSid => ~rpcCalling.some /\ ~txn.explicit /\ txn.uid = UidOf(txn.pid)

\* A call returns on its own completion, reply or error and not on that of
\* another, although completions, replies and nested transactions share one
\* queue.  Exempt: a callee that dies while a transaction nested in the call
\* is being replied to.
OwnOutcome == ~crossed => ~wrong

\* A BC_TRANSACTION is in the out parcel only while the call that owns its
\* data waits: the panic of a call restriction leaves none behind.
NoStrayTransaction ==
    \A i \in DOMAIN outParcel : outParcel[i][1] = "BC_TRANSACTION" =>
        Waiting /\ Top.k = "call" /\ Top.id = outParcel[i][2]

\* A reply answers the transaction the driver has on top of its stack: the
\* nesting the thread and the driver keep is the same.
ReplyAnswersInnermost ==
    \A i \in DOMAIN outParcel : outParcel[i][1] = "BC_REPLY" /\ ~crossed =>
        kstack # <<>> /\ Last(kstack) = <<"in", outParcel[i][2]>>

\* Nothing a thread does inside a transaction shows outside of it: callers see
\* their own identity and their own outcome, and the thread's stack and the
\* driver's agree (transact, wait_for_response, execute_command).
CallsKeptApart ==
    /\ CallerSeen /\ TokenRestores /\ SidBelongsToCaller
    /\ OwnOutcome /\ NoStrayTransaction /\ ReplyAnswersInnermost

\* Every nesting unwinds: no wait is for a command that never comes, with the
\* same exemption.
Unwinds == []<>(stack = <<>> \/ crossed)

============================================================================
