------------------------ MODULE HandshakeClientProofs ------------------------
(***************************************************************************)
(* Proofs about RpcHandshake: what the two ends agree on while they set a  *)
(* session up holds on every connection of it, for every set of versions,  *)
(* every number of connections and calls, every reconfiguration of the     *)
(* server and every connection that dies.                                  *)
(*                                                                         *)
(* HandshakeAgrees is far from inductive.  HsInv adds what is under way:   *)
(* which tokens of the handshake a worker has still to read and for which  *)
(* version they were written (UpStream), what the client may find in its   *)
(* own direction (DownStream), that a slot carries one request or its one  *)
(* reply (Outstanding), where the client and the workers may be (Phase,    *)
(* Workers), that both versions are the one of the founding (Versions),    *)
(* who receives descriptors (Descriptors) and why a founding connection is *)
(* gone (Founds).  This module defines HsInv and shows that the client's   *)
(* steps preserve it; HandshakeProofs has the server's and the theorems.   *)
(***************************************************************************)
EXTENDS RpcHandshake, TLAPS

\* What is under way: connection headers, "cci" and messages of the session.
MsgKinds == {"response", "reply", "fd", "GET_MAX_THREADS", "GET_SESSION_ID", "GET_FD_MODE",
             "GET_ROOT"}
Tokens ==
    [k : {"header"}, v : Int, new : BOOLEAN, incoming : BOOLEAN, unix : BOOLEAN]
    \union [k : {"cci"}, v : Int]
    \union [k : MsgKinds, v : Int, val : Int]

CliLabels == {"connect", "read_init", "read_resp", "ask_max", "wait_max", "ask_id", "wait_id",
              "attached", "wait_fd", "wait_root", "ready", "failed"}
SrvLabels == {"idle", "accept", "header", "new_init", "attach_init", "recv", "to_unix", "to_none",
              "callback", "refused", "ended"}

\* The client in a call, the client sizing the fan-out; a worker that has not
\* read the header, one in the serve loop, one that reads at all.
Waiting == {"wait_max", "wait_id", "wait_fd", "wait_root"}
Sizing == {"ask_max", "wait_max", "ask_id", "wait_id"}
Early == {"idle", "accept", "header"}
Serving == {"recv", "to_unix", "to_none"}
Reading == {"accept", "header", "new_init", "attach_init"} \union Serving

\* Type correctness.
HsType ==
    /\ setup \in Setups /\ (setup.entry \in {"r34", "fd"} => setup.local = 1)
    /\ smax \in Offers /\ cli \in CliLabels /\ cur \in HsConns /\ want \in 1 .. MaxConns
    /\ cver \in Int /\ cfd \in BOOLEAN /\ pool \subseteq HsConns /\ on \in HsConns
    /\ armed \in BOOLEAN /\ inc \in [HsConns -> BOOLEAN]
    /\ up \in [HsConns -> Seq(Tokens)] /\ down \in [HsConns -> Seq(Tokens)]
    /\ dead \subseteq HsConns
    /\ srv \in [HsConns -> SrvLabels] /\ offer \in [HsConns -> Offers \union {NoVersion}]
    /\ sver \in Int /\ sfd \in BOOLEAN /\ slots \subseteq HsConns
    /\ rmode \in [HsConns -> BOOLEAN] /\ lost \in BOOLEAN
    /\ calls \in Nat /\ reconfigs \in Nat /\ faults \in Nat

\* The version the two ends of the session agree on.
Agreed == IF setup.entry = "r34" THEN R34Wire ELSE Least(setup.max, offer[1])
\* May the client send descriptors in it?
FdAgreed == Agreed = R34Wire \/ Agreed >= 1
\* The descriptor mode of the founding, and whether it is the one for good.
Fixed == setup.unix /\ setup.fdUnix /\ Agreed >= 1
Steady == ~LateFdMode /\ setup.entry # "r34"
\* The founding worker finds no version both ends implement.
NoCommon == offer[1] # NoVersion /\ Least(setup.max, offer[1]) \notin Implemented

\* Where the client is.
Phase ==
    /\ cver = NoVersion =>
        cur = 1 /\ pool = {} /\ cli \in {"connect", "read_init", "read_resp", "failed"}
    /\ cli = "connect" => srv[cur] = "idle" /\ (cur = 1 => cver = NoVersion)
    /\ cli = "read_init" => inc[cur] /\ srv[cur] # "idle" /\ (cur = 1 => cver = NoVersion)
    /\ cli = "read_resp" => cver = NoVersion /\ ~inc[1]
    /\ cli \in Sizing => cur = 1 /\ setup.local > 1
    /\ cli \in {"ask_id", "wait_id"} => want > 1
    /\ cli = "attached" => cur > 1 /\ srv[cur] # "idle"
    /\ cli \in Waiting => on \in pool
    /\ cli = "failed" => pool = {}
    /\ cver # NoVersion => 1 \in pool \union dead
    /\ cli = "wait_fd" => ~Steady
    /\ cur > 1 => setup.local > 1 /\ sver = cver
    /\ setup.entry = "a13" => cur <= want /\ \A c \in HsConns : ~inc[c]
    /\ want <= setup.threads
    /\ armed => setup.entry = "fd" /\ cver = NoVersion

\* Both ends of the session have its version, and it came from the founding.
Versions ==
    /\ cver \in {NoVersion, Agreed} /\ sver \in {NoVersion, Agreed}
    /\ setup.entry # "r34" /\ (cver # NoVersion \/ sver # NoVersion \/ srv[1] = "new_init") =>
        offer[1] # NoVersion /\ Agreed \in Implemented /\ srv[1] \notin Early
    /\ setup.entry = "r34" => sver = cver
    /\ reconfigs = 0 => \A c \in HsConns : offer[c] \in {NoVersion, smax}

\* Where the workers are.
WorkerOk(c) ==
    /\ c > cur => srv[c] = "idle"
    /\ srv[c] \in {"idle", "accept"} => offer[c] = NoVersion
    /\ srv[c] \in {"header", "new_init", "attach_init"} => offer[c] # NoVersion
    /\ srv[c] = "new_init" => c = 1 /\ ~inc[c] /\ sver = NoVersion
    /\ srv[c] = "attach_init" => c # 1 /\ ~inc[c]
    /\ srv[c] \in Serving \union {"callback"} => sver # NoVersion
    /\ srv[c] = "idle" => up[c] = <<>> /\ ~inc[c]
    /\ srv[c] \in Early => down[c] = <<>>
    /\ srv[c] = "to_unix" => sver # 0
    /\ srv[c] \in {"to_unix", "to_none"} => ~Steady
    /\ srv[c] \in {"accept", "header", "new_init", "attach_init"} => setup.entry # "r34"

Workers ==
    /\ \A c \in HsConns : WorkerOk(c)
    /\ \A c \in slots : srv[c] \in Serving \union {"callback"}
    /\ \A c \in pool : c <= cur /\ srv[c] # "idle" /\ ~inc[c]

\* How much of the handshake the worker of c has read.
Gone(c) == IF srv[c] \in {"accept", "header"} THEN 0
           ELSE IF srv[c] \in {"new_init", "attach_init"} THEN 1 ELSE 2
\* What the client writes on c first.
Version(c) == IF c = 1 THEN setup.max ELSE cver
Header(c) == [k |-> "header", v |-> Version(c), new |-> c = 1, incoming |-> inc[c],
              unix |-> setup.unix]
Cci(c) == [k |-> "cci", v |-> Version(c)]
\* What it may write behind it: messages of the session's version.
Requests == {"GET_MAX_THREADS", "GET_SESSION_ID", "GET_FD_MODE", "GET_ROOT"}

MsgOk(t) ==
    /\ t.k \in Requests \union {"fd"}
    /\ t.v = cver /\ cver # NoVersion
    /\ t.k = "GET_FD_MODE" => ~Steady
    /\ t.k = "fd" => FdAgreed /\ (Steady => setup.unix)

\* The i-th token that the worker of c has still to read.
UpOk(c, i) ==
    /\ i + Gone(c) = 1 => up[c][i] = Header(c)
    /\ i + Gone(c) = 2 => up[c][i] = Cci(c) /\ ~inc[c]
    /\ i + Gone(c) > 2 => MsgOk(up[c][i])

\* Nothing follows a request: the client waits for its reply.  A living connection
\* the client writes first on has its whole handshake under way.
StreamOk(c) == srv[c] \in Reading =>
    /\ \A i \in 1 .. Len(up[c]) : UpOk(c, i)
    /\ \A i \in 1 .. Len(up[c]) : up[c][i].k \in Requests => i = Len(up[c])
    /\ ~inc[c] /\ c \notin dead => Len(up[c]) + Gone(c) >= 2

UpStream == \A c \in HsConns : StreamOk(c)

\* What the client may find: the response of the founding, then replies.
Response == [k |-> "response", v |-> Agreed, val |-> Agreed]

FoundingOk == cver = NoVersion =>
    \/ down[1] = <<>>
    \/ down[1] = <<Response>> /\ Agreed \in Implemented /\ offer[1] # NoVersion

RepliesOk(c) == \A i \in 1 .. Len(down[c]) : sver # NoVersion /\ down[c][i].v = sver

DownStream == FoundingOk /\ \A c \in pool : RepliesOk(c)

\* A slot carries one request, or the one reply to it.
WaitFor(k) == CASE k = "GET_MAX_THREADS" -> "wait_max"
                [] k = "GET_SESSION_ID" -> "wait_id"
                [] k = "GET_FD_MODE" -> "wait_fd"
                [] OTHER -> "wait_root"

Reply(c) ==
    /\ on = c /\ cli \in Waiting /\ Len(down[c]) = 1
    /\ cli = "wait_max" => down[c][1].val = setup.threads
    /\ cli = "wait_fd" /\ down[c][1].val = 1 => FdAgreed

SlotOk(c) ==
    /\ \A i \in 1 .. Len(up[c]) : up[c][i].k \in Requests =>
        /\ on = c /\ cli = WaitFor(up[c][i].k) /\ down[c] = <<>>
        /\ \A j \in 1 .. Len(up[c]) : up[c][j].k \in Requests => i = j
    /\ down[c] # <<>> => Reply(c)

Outstanding ==
    /\ \A c \in pool : SlotOk(c)
    /\ cver = NoVersion \/ cli \in {"read_init", "attached"} =>
        \A i \in 1 .. Len(up[cur]) : up[cur][i].k \in {"header", "cci"}
    /\ cli = "attached" /\ ~inc[cur] => down[cur] = <<>>

\* Descriptors.  As long as GET_FD_MODE is not used every worker receives in the
\* mode of the founding.  A connection that is the only one may change it: the mode
\* its worker will read the next token in (Will) fits what is under way, and what
\* the client may still send.
Will == CASE srv[1] = "to_unix" -> TRUE
          [] srv[1] = "to_none" -> FALSE
          [] srv[1] = "recv" -> rmode[1]
          [] OTHER -> Fixed
Replied == cli = "wait_fd" /\ on = 1 /\ down[1] # <<>>

Alone ==
    /\ srv[1] \in Reading /\ (\E i \in 1 .. Len(up[1]) : up[1][i].k = "fd") => Will
    /\ 1 \notin dead /\ ~Replied /\ cfd => Will
    /\ 1 \notin dead /\ Replied /\ down[1][1].val = 1 => Will
    /\ cver = NoVersion /\ Fixed => Will

Descriptors ==
    /\ cfd => FdAgreed /\ cver # NoVersion /\ (Steady => setup.unix)
    /\ sfd => sver # 0
    /\ sver = NoVersion => ~sfd /\ \A c \in HsConns : ~rmode[c]
    /\ FdLostOnlyAcross
    /\ Steady /\ sver # NoVersion => sfd = Fixed
    /\ \A c \in HsConns : (Steady \/ cur = 1) /\ srv[c] = "recv" => rmode[c] = sfd
    /\ cur = 1 /\ ~OneSided => Alone

\* Why the founding connection may be gone before there is a session.
Founds ==
    1 \in dead /\ cver = NoVersion =>
        cli = "failed" \/ faults > 0 \/ inc[1] \/ NoCommon

\* Only the set-up runs into the deadline.
TimedOut == why = "timeout" => cli = "failed" /\ cver = NoVersion

\* The inductive invariant.
HsInv ==
    /\ HsType /\ Phase /\ Versions /\ Workers /\ UpStream /\ DownStream /\ Outstanding
    /\ Descriptors /\ Founds
    /\ DecodedAsEncoded /\ FoundingFailsForCause /\ AdvertisedIsAccepted
    /\ TimedOut

\* A message of the session is a token.
LEMMA MessageToken ==
    ASSUME NEW kind \in MsgKinds, NEW ver \in Int, NEW value \in Int
    PROVE  [k |-> kind, v |-> ver, val |-> value] \in Tokens
<1>1. [k |-> kind, v |-> ver, val |-> value] \in [k : MsgKinds, v : Int, val : Int]
  BY Zenon
<1>2. [k : MsgKinds, v : Int, val : Int] \subseteq Tokens
  BY Zenon DEF Tokens
<1>3. QED
  BY <1>1, <1>2, Zenon

\* Reading the head of a stream leaves its tail and the other streams.
LEMMA Taken ==
    ASSUME NEW q \in [HsConns -> Seq(Tokens)], NEW c \in HsConns, q[c] # <<>>,
           NEW p, p = [q EXCEPT ![c] = Tail(@)]
    PROVE  /\ p \in [HsConns -> Seq(Tokens)]
           /\ Len(q[c]) \in Nat /\ Len(q[c]) >= 1 /\ Len(p[c]) = Len(q[c]) - 1
           /\ Head(q[c]) = q[c][1] /\ q[c][1] \in Tokens
           /\ \A i \in 1 .. Len(p[c]) : p[c][i] = q[c][i + 1] /\ i + 1 \in 1 .. Len(q[c])
           /\ \A x \in HsConns : x # c => p[x] = q[x]
<1>1. q[c] \in Seq(Tokens) /\ p[c] = Tail(q[c]) /\ \A x \in HsConns : x # c => p[x] = q[x]
  BY Zenon
<1>2. /\ Tail(q[c]) \in Seq(Tokens) /\ Len(q[c]) \in Nat /\ Len(q[c]) >= 1
      /\ Len(Tail(q[c])) = Len(q[c]) - 1 /\ Head(q[c]) = q[c][1] /\ q[c][1] \in Tokens
      /\ \A i \in 1 .. Len(Tail(q[c])) : Tail(q[c])[i] = q[c][i + 1]
  BY <1>1
<1>3. p \in [HsConns -> Seq(Tokens)]
  BY <1>1, <1>2, Zenon
<1>4. QED
  BY <1>1, <1>2, <1>3

\* Writing appends one token and leaves the other streams.
LEMMA Sent ==
    ASSUME NEW q \in [HsConns -> Seq(Tokens)], NEW c \in HsConns, NEW t \in Tokens,
           NEW p, p = [q EXCEPT ![c] = @ \o <<t>>]
    PROVE  /\ p \in [HsConns -> Seq(Tokens)]
           /\ Len(q[c]) \in Nat /\ Len(p[c]) = Len(q[c]) + 1 /\ p[c] # <<>>
           /\ p[c][Len(q[c]) + 1] = t
           /\ \A i \in 1 .. Len(q[c]) : p[c][i] = q[c][i]
           /\ \A x \in HsConns : x # c => p[x] = q[x]
<1>1. q[c] \in Seq(Tokens) /\ p[c] = q[c] \o <<t>> /\ \A x \in HsConns : x # c => p[x] = q[x]
  BY Zenon
<1>2. <<t>> \in Seq(Tokens) /\ Len(<<t>>) = 1 /\ <<t>>[1] = t
  OBVIOUS
<1>3. /\ q[c] \o <<t>> \in Seq(Tokens) /\ Len(q[c]) \in Nat
      /\ Len(q[c] \o <<t>>) = Len(q[c]) + 1
      /\ (q[c] \o <<t>>)[Len(q[c]) + 1] = t
      /\ \A i \in 1 .. Len(q[c]) : (q[c] \o <<t>>)[i] = q[c][i]
  BY <1>1, <1>2
<1>4. p \in [HsConns -> Seq(Tokens)]
  BY <1>1, <1>3, Zenon
<1>5. q[c] \o <<t>> # <<>>
  BY <1>3
<1>6. QED
  BY <1>1, <1>3, <1>4, <1>5, Zenon

\* What the two ends agree on hangs on the set-up and on the founding worker's offer.
LEMMA SameAgreement ==
    ASSUME setup' = setup, offer' = offer
    PROVE  /\ Agreed' = Agreed /\ FdAgreed' = FdAgreed /\ NoCommon' = NoCommon
           /\ OneSided' = OneSided /\ Fixed' = Fixed /\ Steady' = Steady
BY Zenon DEF Agreed, FdAgreed, NoCommon, OneSided, Fixed, Steady

\* The mode of the next token hangs on the founding worker.
LEMMA WillKept ==
    ASSUME srv'[1] = srv[1], rmode'[1] = rmode[1], Fixed' = Fixed
    PROVE  Will' = Will
BY Zenon DEF Will

\* So does what is under way on a connection that is alone.
LEMMA AloneKept ==
    ASSUME Alone, Will' = Will, Fixed' = Fixed, 1 \notin dead' => 1 \notin dead,
           cver' = NoVersion => cver = NoVersion, srv'[1] \in Reading => srv[1] \in Reading,
           \A i \in 1 .. Len(up'[1]) : up'[1][i].k = "fd" =>
               Will \/ \E j \in 1 .. Len(up[1]) : up[1][j].k = "fd",
           1 \notin dead' /\ ~Replied' /\ cfd' => Will,
           1 \notin dead' /\ Replied' => down'[1][1].val # 1 \/ Will
    PROVE  Alone'
BY Zenon DEF Alone

\* A step after which no worker receives in another mode.
LEMMA DescriptorsKept ==
    ASSUME Descriptors, UNCHANGED <<setup, lost, sver, sfd>>,
           \A x \in HsConns : srv'[x] = "recv" => srv[x] = "recv" /\ rmode'[x] = rmode[x],
           sver = NoVersion => \A x \in HsConns : rmode'[x] = rmode[x],
           Fixed' = Fixed, Steady' = Steady, OneSided' = OneSided,
           cur' = cur \/ (cur' > 1 /\ cur' # 1),
           cfd' => FdAgreed' /\ cver' # NoVersion /\ (Steady => setup.unix),
           cur' = 1 /\ ~OneSided /\ Alone => Alone'
    PROVE  Descriptors'
BY Zenon DEF Descriptors, FdLostOnlyAcross

\* A step that revives no session and refuses no connection.
LEMMA AcceptedKept ==
    ASSUME HsInv, UNCHANGED <<setup, cur>>, reconfigs' = 0 => reconfigs = 0,
           SessionAlive' => SessionAlive,
           \A x \in HsConns : srv'[x] = "refused" => srv[x] = "refused"
    PROVE  AdvertisedIsAccepted'
<1>1. \A c \in 2 .. cur : c \in HsConns
  BY HsAssumption DEF HsInv, HsType, HsConns
<1>2. QED
  BY <1>1, Zenon DEF HsInv, AdvertisedIsAccepted

\* A stream nobody writes or reads stays well-formed.
LEMMA StreamKept ==
    ASSUME NEW c \in HsConns, StreamOk(c), srv'[c] \in Reading => srv[c] \in Reading,
           Gone(c)' = Gone(c), up'[c] = up[c], inc'[c] = inc[c],
           c \in dead => c \in dead', setup' = setup, cver' = cver,
           cver # NoVersion => FdAgreed' = FdAgreed
    PROVE  StreamOk(c)'
<1>1. Header(c)' = Header(c) /\ Cci(c)' = Cci(c)
  BY Zenon DEF Header, Cci, Version
<1>2. \A t : MsgOk(t) => MsgOk(t)'
  BY Zenon DEF MsgOk, Steady
<1>3. \A i : UpOk(c, i) => UpOk(c, i)'
  BY <1>1, <1>2, Zenon DEF UpOk
<1>4. QED
  BY <1>3, Zenon DEF StreamOk

\* A worker that does not move stays where it may be.
LEMMA WorkerKept ==
    ASSUME NEW c \in HsConns, WorkerOk(c), srv'[c] = srv[c], offer'[c] = offer[c],
           inc'[c] = inc[c], srv[c] = "idle" \/ sver' = sver,
           srv[c] # "idle" \/ up'[c] = up[c],
           srv[c] \notin Early \/ down'[c] \in {down[c], <<>>}, c > cur' => c > cur,
           setup' = setup
    PROVE  WorkerOk(c)'
<1>1. srv[c] = "idle" => srv[c] \notin Serving \union {"callback", "new_init", "to_none"}
  BY Zenon DEF Serving
<1>2. Steady' = Steady
  BY Zenon DEF Steady
<1>3. QED
  BY <1>1, <1>2, Zenon DEF WorkerOk, Serving

\* So does a slot of the client that carries the same tokens.
LEMMA SlotKept ==
    ASSUME NEW c \in HsConns, SlotOk(c), up'[c] = up[c], down'[c] = down[c], on' = on, cli' = cli,
           setup' = setup, FdAgreed' = FdAgreed
    PROVE  SlotOk(c)'
BY Zenon DEF SlotOk, Reply

\* Connections are numbered from 1 to cur.
LEMMA UpToCur ==
    ASSUME HsInv
    PROVE  /\ cur \in Nat /\ cur >= 1 /\ 1 \in HsConns /\ HsConns \subseteq Nat
           /\ \A c \in 1 .. cur : c \in HsConns
           /\ \A c \in 2 .. cur : c \in HsConns
BY HsAssumption DEF HsInv, HsType, HsConns

\* No request is under way on c.
NoRequest(c) == \A i \in 1 .. Len(up[c]) : up[c][i].k \notin Requests

\* While the client waits for no reply, its slots carry neither requests nor replies.
LEMMA QuietSlots ==
    ASSUME HsInv, NEW c \in pool, cli \notin Waiting \/ on # c
    PROVE  NoRequest(c) /\ down[c] = <<>>
<1>1. \A k \in Requests : WaitFor(k) \in Waiting
  BY Zenon DEF Requests, WaitFor, Waiting
<1>2. SlotOk(c)
  BY Zenon DEF HsInv, Outstanding
<1>3. QED
  BY <1>1, <1>2, Zenon DEF SlotOk, NoRequest, Reply

\* A slot that carries neither is in order whatever the client does next.
LEMMA QuietIsOk ==
    ASSUME NEW c \in HsConns, NoRequest(c), up'[c] = up[c], down'[c] = <<>>
    PROVE  SlotOk(c)'
BY Zenon DEF SlotOk, NoRequest

\* An error return of the set-up.
LEMMA FailStep ==
    ASSUME HsInv, NEW reason, HsFail(reason), on' \in HsConns,
           UNCHANGED <<setup, cur, want, cver, cfd, armed, inc, up, down, hsSrvVars, smax, decoded,
                       lost, calls, reconfigs, faults>>,
           cver = NoVersion =>
               \/ setup.max \notin Implemented
               \/ reason = "timeout" /\ setup.entry = "fd"
               \/ faults > 0 \/ inc[1] \/ NoCommon,
           reason = "timeout" => cver = NoVersion
    PROVE  HsInv'
<1>1. cli' = "failed" /\ why' = reason /\ dead' = dead \union 1 .. cur /\ pool' = {}
  BY Zenon DEF HsFail
<1>2. Agreed' = Agreed /\ FdAgreed' = FdAgreed /\ NoCommon' = NoCommon /\ OneSided' = OneSided
      /\ Fixed' = Fixed /\ Steady' = Steady
  BY SameAgreement, Zenon DEF hsSrvVars
<1>3. HsType'
  BY <1>1, UpToCur, Zenon DEF HsInv, HsType, CliLabels, hsSrvVars
<1>4. Phase'
  <2>1. 1 \in dead'
    BY <1>1, UpToCur
  <2>2. QED
    BY <1>1, <1>2, <2>1, Zenon DEF HsInv, Phase, Sizing, Waiting, hsSrvVars
<1>5. Versions'
  BY <1>2, Zenon DEF HsInv, Versions, hsSrvVars
<1>6. Workers'
  BY <1>1, <1>2, Zenon DEF HsInv, Workers, WorkerOk, hsSrvVars
<1>7. UpStream'
  BY <1>1, <1>2, StreamKept, Zenon DEF HsInv, UpStream, Gone, hsSrvVars
<1>8. DownStream'
  BY <1>1, <1>2, Zenon DEF HsInv, DownStream, FoundingOk, RepliesOk, Response, hsSrvVars
<1>9. Outstanding'
  BY <1>1, Zenon DEF HsInv, Outstanding
<1>10. Descriptors'
  <2>1. Will' = Will
    BY <1>2, WillKept, Zenon DEF hsSrvVars
  <2>2. 1 \in dead'
    BY <1>1, UpToCur
  <2>3. Alone => Alone'
    BY <2>1, <2>2, <1>2, Zenon DEF Alone, hsSrvVars
  <2>4. QED
    BY <1>2, <2>3, UpToCur, DescriptorsKept, Zenon DEF HsInv, Descriptors, hsSrvVars
<1>11. Founds' /\ FoundingFailsForCause'
  BY <1>1, <1>2, Zenon DEF Founds, FoundingFailsForCause, NoCommon, hsSrvVars
<1>12. DecodedAsEncoded' /\ TimedOut' /\ AdvertisedIsAccepted'
  BY <1>1, Zenon DEF HsInv, DecodedAsEncoded, TimedOut, AdvertisedIsAccepted, SessionAlive, hsSrvVars
<1>13. QED
  BY <1>3, <1>4, <1>5, <1>6, <1>7, <1>8, <1>9, <1>10, <1>11, <1>12, Zenon DEF HsInv

\* The deadline of from_preconnected_fd.
LEMMA HandshakeDeadlineStep == ASSUME HsInv, HandshakeDeadline PROVE HsInv'
<1>1. armed /\ cver = NoVersion /\ setup.entry = "fd"
  BY Zenon DEF HandshakeDeadline, HsInv, Phase
<1>2. QED
  BY <1>1, FailStep, Zenon DEF HandshakeDeadline, HsInv, HsType

\* A call after the set-up that costs the session its slot.
LEMMA LoseSlotStep ==
    ASSUME HsInv, NEW c \in pool, cli' = "ready", pool' = pool \ {c}, dead' = dead \union {c},
           cli \in {"ready", "wait_fd", "wait_root"}, cli = "ready" \/ on = c, cver # NoVersion,
           on' \in HsConns, calls' \in Nat,
           UNCHANGED <<setup, cur, want, cver, cfd, armed, why, inc, up, down, hsSrvVars, smax,
                       decoded, lost, reconfigs, faults>>
    PROVE  HsInv'
<1>1. Agreed' = Agreed /\ FdAgreed' = FdAgreed /\ NoCommon' = NoCommon /\ OneSided' = OneSided
      /\ Fixed' = Fixed /\ Steady' = Steady
  BY SameAgreement, Zenon DEF hsSrvVars
<1>2. HsType'
  BY Zenon DEF HsInv, HsType, CliLabels, hsSrvVars
<1>3. Phase'
  BY <1>1, Zenon DEF HsInv, Phase, Sizing, Waiting, hsSrvVars
<1>4. Versions'
  BY <1>1, Zenon DEF HsInv, Versions, hsSrvVars
<1>5. Workers'
  BY <1>1, Zenon DEF HsInv, Workers, WorkerOk, hsSrvVars
<1>6. UpStream'
  BY <1>1, StreamKept, Zenon DEF HsInv, UpStream, Gone, hsSrvVars
<1>7. DownStream'
  BY <1>1, Zenon DEF HsInv, DownStream, FoundingOk, RepliesOk, Response, hsSrvVars
<1>8. Outstanding'
  <2>1. \A x \in pool \ {c} : cli \notin Waiting \/ on # x
    BY Zenon DEF Waiting
  <2>2. \A x \in pool \ {c} : SlotOk(x)'
    BY <2>1, QuietSlots, QuietIsOk, Zenon DEF HsInv, HsType
  <2>3. QED
    BY <2>2, Zenon DEF Outstanding
<1>9. Descriptors'
  <2>1. Will' = Will
    BY <1>1, WillKept, Zenon DEF hsSrvVars
  <2>2. cur = 1 => c = 1
    BY UpToCur DEF HsInv, HsType, HsConns, Workers
  <2>3. cur = 1 /\ Alone => Alone'
    BY <1>1, <2>1, <2>2, Zenon DEF Alone, hsSrvVars
  <2>4. QED
    BY <1>1, <2>3, UpToCur, DescriptorsKept, Zenon DEF HsInv, Descriptors, hsSrvVars
<1>10. Founds' /\ FoundingFailsForCause'
  BY Zenon DEF Founds, FoundingFailsForCause
<1>11. DecodedAsEncoded' /\ TimedOut' /\ AdvertisedIsAccepted'
  BY Zenon DEF HsInv, DecodedAsEncoded, TimedOut, AdvertisedIsAccepted, SessionAlive, hsSrvVars
<1>12. QED
  BY <1>2, <1>3, <1>4, <1>5, <1>6, <1>7, <1>8, <1>9, <1>10, <1>11, Zenon DEF HsInv

\* A call that finds the connection gone.
LEMMA CallFailsStep ==
    ASSUME HsInv, NEW c \in pool, CallFails(c),
           cli \in Sizing \union {"ready", "wait_fd", "wait_root"},
           cli \in {"wait_fd", "wait_root"} => on = c, cver # NoVersion,
           on' \in HsConns, calls' \in Nat, cli \in Sizing => calls' = calls,
           UNCHANGED <<setup, cur, want, cver, cfd, armed, inc, up, down, hsSrvVars, smax,
                       decoded, lost, reconfigs, faults>>
    PROVE  HsInv'
<1>1. CASE cli \in Sizing
  <2>1. HsFail("closed") /\ calls' = calls
    BY <1>1, Zenon DEF CallFails, Sizing
  <2>2. QED
    BY <2>1, FailStep, Zenon
<1>2. CASE cli \notin Sizing
  <2>1. cli' = "ready" /\ pool' = pool \ {c} /\ dead' = dead \union {c} /\ why' = why
    BY <1>2, Zenon DEF CallFails, Sizing
  <2>2. cli \in {"ready", "wait_fd", "wait_root"} /\ (cli = "ready" \/ on = c)
    BY <1>2, Zenon
  <2>3. QED
    BY <2>1, <2>2, LoseSlotStep, Zenon
<1>3. QED
  BY <1>1, <1>2, Zenon

\* A message behind a whole handshake keeps the stream well-formed.
LEMMA SendKeepsStream ==
    ASSUME HsInv, NEW c \in pool, c \notin dead, NEW t \in Tokens, MsgOk(t), NoRequest(c),
           up' = [up EXCEPT ![c] = @ \o <<t>>],
           UNCHANGED <<setup, cver, inc, dead, srv, offer>>
    PROVE  UpStream'
<1>1. c \in HsConns /\ up \in [HsConns -> Seq(Tokens)] /\ ~inc[c] /\ srv[c] # "idle"
  BY Zenon DEF HsInv, HsType, Workers
<1>2. /\ Len(up[c]) \in Nat /\ Len(up'[c]) = Len(up[c]) + 1 /\ up'[c][Len(up[c]) + 1] = t
      /\ \A i \in 1 .. Len(up[c]) : up'[c][i] = up[c][i]
      /\ \A x \in HsConns : x # c => up'[x] = up[x]
  BY <1>1, Sent
<1>3. FdAgreed' = FdAgreed
  BY SameAgreement, Zenon
<1>4. \A x \in HsConns : Gone(x)' = Gone(x)
  BY Zenon DEF Gone
<1>5. \A x \in HsConns : x # c => StreamOk(x)'
  BY <1>2, <1>3, <1>4, StreamKept, Zenon DEF HsInv, UpStream
<1>6. ASSUME srv[c] \in Reading PROVE StreamOk(c)'
  <2>1. /\ \A i \in 1 .. Len(up[c]) : UpOk(c, i)
        /\ Len(up[c]) + Gone(c) >= 2 /\ Gone(c) \in Nat
    BY <1>1, <1>6, Zenon DEF HsInv, UpStream, StreamOk, Gone
  <2>2. Header(c)' = Header(c) /\ Cci(c)' = Cci(c)
    BY Zenon DEF Header, Cci, Version
  <2>3. \A m : MsgOk(m) => MsgOk(m)'
    BY <1>3, Zenon DEF MsgOk, Steady
  <2>4. \A i \in 1 .. Len(up[c]) : UpOk(c, i)'
    BY <1>2, <1>4, <2>1, <2>2, <2>3, <1>1, Zenon DEF UpOk
  <2>5. \A i \in 1 .. Len(up'[c]) : i \in 1 .. Len(up[c]) \/ i = Len(up[c]) + 1
    BY <1>2
  <2>6. PICK n \in Nat : n = Len(up[c]) + 1
    BY <1>2
  <2>7. UpOk(c, n)'
    <3>1. n + Gone(c) # 1 /\ n + Gone(c) # 2
      BY <1>2, <2>1, <2>6
    <3>2. up'[c][n] = t /\ MsgOk(t)' /\ Gone(c)' = Gone(c)
      BY <1>1, <1>2, <1>4, <2>3, <2>6, Zenon
    <3>3. QED
      BY <3>1, <3>2, Zenon DEF UpOk
  <2>8. \A i \in 1 .. Len(up'[c]) : UpOk(c, i)'
    BY <2>4, <2>5, <2>6, <2>7, Zenon
  <2>9. Len(up'[c]) + Gone(c)' >= 2
    BY <1>1, <1>2, <1>4, <2>1
  <2>10. \A i \in 1 .. Len(up'[c]) : up'[c][i].k \in Requests => i = Len(up'[c])
    BY <1>2, <2>5, Zenon DEF NoRequest
  <2>11. QED
    BY <2>8, <2>9, <2>10, Zenon DEF StreamOk
<1>7. srv[c] \notin Reading => StreamOk(c)'
  BY Zenon DEF StreamOk
<1>8. QED
  BY <1>5, <1>6, <1>7, Zenon DEF UpStream

\* What putting a message on a slot leaves alone.
LEMMA SendKeeps ==
    ASSUME HsInv, NEW c \in pool, c \notin dead, NEW t \in Tokens, MsgOk(t), NoRequest(c),
           up' = [up EXCEPT ![c] = @ \o <<t>>], cli' = "wait_fd" => ~Steady, on' \in HsConns, cli' \in CliLabels,
           cli' \notin Sizing \union {"read_init", "read_resp", "connect", "attached", "failed"}
             \/ (cli \in Sizing /\ cli' \in Sizing /\ (cli' = "wait_id" => cli = "ask_id")),
           cli' # "ask_id", cli' \in Waiting => on' = c,
           calls' \in Nat,
           UNCHANGED <<setup, cur, want, cver, cfd, pool, armed, why, inc, down, dead, hsSrvVars,
                       smax, decoded, lost, reconfigs, faults>>
    PROVE  /\ HsType' /\ Phase' /\ Versions' /\ Workers' /\ UpStream' /\ DownStream' /\ Founds'
           /\ DecodedAsEncoded' /\ FoundingFailsForCause' /\ AdvertisedIsAccepted'
           /\ TimedOut'
<1>1. /\ c \in HsConns /\ up \in [HsConns -> Seq(Tokens)] /\ srv[c] # "idle" /\ cver # NoVersion
      /\ pool # {}
  BY Zenon DEF HsInv, HsType, Workers, Phase
<1>2. up' \in [HsConns -> Seq(Tokens)] /\ \A x \in HsConns : x # c => up'[x] = up[x]
  BY <1>1, Sent
<1>3. Agreed' = Agreed /\ FdAgreed' = FdAgreed /\ NoCommon' = NoCommon
  BY SameAgreement, Zenon DEF hsSrvVars
<1>4. HsType'
  BY <1>2, Zenon DEF HsInv, HsType, hsSrvVars
<1>5. Phase'
  <2>1. Steady' = Steady
    BY Zenon DEF Steady
  <2>2. QED
    BY <1>1, <2>1, Zenon DEF HsInv, Phase, Sizing, Waiting, CliLabels, hsSrvVars
<1>6. Versions'
  BY <1>3, Zenon DEF HsInv, Versions, hsSrvVars
<1>7. Workers'
  <2>1. \A x \in HsConns : WorkerOk(x)'
    BY <1>1, <1>2, WorkerKept, Zenon DEF HsInv, Workers, hsSrvVars
  <2>2. QED
    BY <2>1, Zenon DEF HsInv, Workers, hsSrvVars
<1>8. UpStream'
  BY SendKeepsStream, Zenon DEF hsSrvVars
<1>9. DownStream'
  BY <1>3, Zenon DEF HsInv, DownStream, FoundingOk, RepliesOk, Response, hsSrvVars
<1>10. Founds' /\ FoundingFailsForCause'
  BY <1>1, Zenon DEF Founds, FoundingFailsForCause
<1>11. DecodedAsEncoded' /\ AdvertisedIsAccepted' /\ TimedOut'
  BY <1>1, Zenon DEF HsInv, DecodedAsEncoded, AdvertisedIsAccepted, SessionAlive, TimedOut,
     hsSrvVars
<1>12. QED
  BY <1>4, <1>5, <1>6, <1>7, <1>8, <1>9, <1>10, <1>11, Zenon

\* A special transaction goes out.
LEMMA AskStep ==
    ASSUME HsInv, NEW label \in {"ask_max", "ask_id", "ready"}, NEW code \in Requests,
           NEW val \in {0, 1}, code = "GET_FD_MODE" => ~Steady,
           label = "ask_max" => code = "GET_MAX_THREADS", label = "ask_id" => code = "GET_SESSION_ID",
           label = "ready" => code \in {"GET_FD_MODE", "GET_ROOT"},
           Ask(label, code, val, WaitFor(code)),
           calls' \in Nat, label # "ready" => calls' = calls
    PROVE  HsInv'
<1>1. PICK c \in pool :
        /\ cli = label /\ on' = c
        /\ IF c \in dead
           THEN CallFails(c) /\ UNCHANGED up
           ELSE /\ SendUp(c, <<[k |-> code, v |-> cver, val |-> val]>>)
                /\ cli' = WaitFor(code)
                /\ UNCHANGED <<why, dead, pool>>
        /\ UNCHANGED <<setup, cur, want, cver, cfd, armed, inc, down, hsSrvVars, smax, decoded, lost,
                       reconfigs, faults>>
  BY Zenon DEF Ask
<1>2. c \in HsConns /\ cver # NoVersion /\ up \in [HsConns -> Seq(Tokens)] /\ cver \in Int
  BY <1>1, Zenon DEF HsInv, HsType, Phase
<1>3. CASE c \in dead
  BY <1>1, <1>2, <1>3, CallFailsStep, Zenon DEF Sizing
<1>4. CASE c \notin dead
  <2> DEFINE m == [k |-> code, v |-> cver, val |-> val]
  <2>1. PICK t \in Tokens : t = m
    <3>1. code \in MsgKinds /\ val \in Int
      BY DEF Requests, MsgKinds
    <3>2. QED
      BY <1>2, <3>1, MessageToken, Zenon
  <2>2. t.k = code /\ t.v = cver /\ t.val = val
    BY <2>1, Zenon
  <2>3. MsgOk(t)
    BY <1>2, <2>2, Zenon DEF MsgOk, Requests
  <2>4. up' = [up EXCEPT ![c] = @ \o <<t>>] /\ cli' = WaitFor(code) /\ UNCHANGED <<why, dead, pool>>
    BY <1>1, <1>4, <2>1, Zenon DEF SendUp
  <2> HIDE DEF m
  <2>5. /\ WaitFor(code) \in Waiting /\ WaitFor(code) \in CliLabels
        /\ WaitFor(code) \notin Sizing \union {"read_init", "read_resp", "connect", "attached", "failed"}
             \/ (cli \in Sizing /\ WaitFor(code) \in Sizing
                  /\ (WaitFor(code) = "wait_id" => cli = "ask_id"))
        /\ WaitFor(code) \notin {"ask_id", "attached", "read_init"}
        /\ WaitFor(code) = "wait_fd" => code = "GET_FD_MODE"
    BY <1>1, Zenon DEF WaitFor, Waiting, CliLabels, Sizing, Requests
  <2>6. \A x \in pool : NoRequest(x) /\ down[x] = <<>>
    BY <1>1, QuietSlots, Zenon DEF Waiting
  <2>7. /\ HsType' /\ Phase' /\ Versions' /\ Workers' /\ UpStream' /\ DownStream' /\ Founds'
        /\ DecodedAsEncoded' /\ FoundingFailsForCause' /\ AdvertisedIsAccepted'
        /\ TimedOut'
    BY <1>1, <1>2, <1>4, <2>3, <2>4, <2>5, <2>6, SendKeeps, Zenon
  <2>8. /\ Len(up[c]) \in Nat /\ Len(up'[c]) = Len(up[c]) + 1 /\ up'[c][Len(up[c]) + 1] = t
        /\ \A i \in 1 .. Len(up[c]) : up'[c][i] = up[c][i]
        /\ \A x \in HsConns : x # c => up'[x] = up[x]
    BY <1>2, <2>4, Sent
  <2>9. \A i \in 1 .. Len(up'[c]) : i = Len(up[c]) + 1
                                     \/ (i \in 1 .. Len(up[c]) /\ up'[c][i] = up[c][i])
    BY <2>8
  <2>10. Outstanding'
    <3>1. SlotOk(c)'
      <4>1. \A i \in 1 .. Len(up'[c]) : up'[c][i].k \in Requests => i = Len(up[c]) + 1
        BY <2>6, <2>9, Zenon DEF NoRequest
      <4>2. \A i \in 1 .. Len(up'[c]) : up'[c][i].k \in Requests => up'[c][i].k = code
        BY <4>1, <2>2, <2>8, Zenon
      <4>3. down'[c] = <<>>
        BY <1>1, <2>6, Zenon
      <4>4. QED
        BY <1>1, <2>4, <4>1, <4>2, <4>3, Zenon DEF SlotOk
    <3>2. \A x \in pool : x # c => SlotOk(x)'
      BY <1>1, <2>6, <2>8, QuietIsOk, Zenon DEF HsInv, HsType
    <3>3. QED
      BY <1>1, <1>2, <2>4, <2>5, <3>1, <3>2, Zenon DEF Outstanding
  <2>11. Descriptors'
    <3>1. Agreed' = Agreed /\ FdAgreed' = FdAgreed /\ NoCommon' = NoCommon /\ OneSided' = OneSided
          /\ Fixed' = Fixed /\ Steady' = Steady
      BY <1>1, SameAgreement, Zenon DEF hsSrvVars
    <3>2. t.k # "fd"
      BY <2>2, Zenon DEF Requests
    <3>3. \A i \in 1 .. Len(up'[1]) : up'[1][i].k = "fd" =>
              i \in 1 .. Len(up[1]) /\ up[1][i].k = "fd"
      BY <2>8, <2>9, <3>2, UpToCur, SMTT(30)
    <3>4. on' = 1 => down'[1] = <<>>
      BY <1>1, <2>6, Zenon
    <3>5. Will' = Will /\ cli # "wait_fd"
      BY <1>1, <3>1, WillKept, Zenon DEF hsSrvVars
    <3>6. ~Replied' /\ ~Replied
      BY <1>1, <3>4, <3>5, Zenon DEF Replied
    <3>7. Alone => Alone'
      BY <1>1, <2>4, <3>1, <3>3, <3>5, <3>6, AloneKept, Zenon DEF Alone, hsSrvVars
    <3>8. QED
      BY <1>1, <3>1, <3>7, UpToCur, DescriptorsKept, Zenon DEF HsInv, Descriptors, hsSrvVars
  <2>12. QED
    BY <2>7, <2>10, <2>11, Zenon DEF HsInv
<1>5. QED
  BY <1>3, <1>4, Zenon

\* The four special transactions.
LEMMA AsksStep ==
    ASSUME HsInv, AskMaxThreads \/ AskSessionId \/ AskFdMode \/ AskRoot
    PROVE  HsInv'
<1>1. /\ WaitFor("GET_MAX_THREADS") = "wait_max" /\ WaitFor("GET_SESSION_ID") = "wait_id"
      /\ WaitFor("GET_FD_MODE") = "wait_fd" /\ WaitFor("GET_ROOT") = "wait_root"
  BY Zenon DEF WaitFor
<1>2. {"GET_MAX_THREADS", "GET_SESSION_ID", "GET_FD_MODE", "GET_ROOT"} \subseteq Requests
  BY Zenon DEF Requests
<1>3. calls \in Nat
  BY Zenon DEF HsInv, HsType
<1>4. CASE AskMaxThreads
  BY <1>1, <1>2, <1>3, <1>4, AskStep, Zenon DEF AskMaxThreads
<1>5. CASE AskSessionId
  BY <1>1, <1>2, <1>3, <1>5, AskStep, Zenon DEF AskSessionId
<1>6. CASE AskFdMode
  <2>1. PICK val \in {0, 1} : Ask("ready", "GET_FD_MODE", val, "wait_fd")
    BY <1>6, Zenon DEF AskFdMode
  <2>2. ~Steady /\ calls' = calls + 1
    BY <1>6, Zenon DEF AskFdMode, Steady
  <2>3. QED
    BY <1>1, <1>2, <1>3, <2>1, <2>2, AskStep
<1>7. CASE AskRoot
  BY <1>1, <1>2, <1>3, <1>7, AskStep DEF AskRoot
<1>8. QED
  BY <1>4, <1>5, <1>6, <1>7, Zenon

\* A oneway call with a descriptor.
LEMMA SendFdStep == ASSUME HsInv, SendFd PROVE HsInv'
<1>1. PICK c \in pool :
        /\ c \notin dead /\ cli = "ready" /\ cfd /\ calls' = calls + 1
        /\ SendUp(c, <<[k |-> "fd", v |-> cver, val |-> 1]>>)
        /\ UNCHANGED <<setup, cliVars, hsSrvVars, inc, down, dead, smax, decoded, lost, reconfigs,
                       faults>>
  BY Zenon DEF SendFd
<1>2. c \in HsConns /\ cver # NoVersion /\ up \in [HsConns -> Seq(Tokens)] /\ cver \in Int /\ FdAgreed
      /\ (Steady => setup.unix)
  BY <1>1, Zenon DEF HsInv, HsType, Phase, Descriptors
<1> DEFINE m == [k |-> "fd", v |-> cver, val |-> 1]
<1>3. PICK t \in Tokens : t = m
  <2>1. "fd" \in MsgKinds /\ 1 \in Int
    BY DEF MsgKinds
  <2>2. QED
    BY <1>2, <2>1, MessageToken, Zenon
<1>4. t.k = "fd" /\ t.v = cver
  BY <1>3, Zenon
<1>5. MsgOk(t) /\ t.k \notin Requests
  BY <1>2, <1>4, Zenon DEF MsgOk, Requests
<1>6. up' = [up EXCEPT ![c] = @ \o <<t>>]
  BY <1>1, <1>3, Zenon DEF SendUp
<1> HIDE DEF m
<1>7. calls' \in Nat /\ on' \in HsConns /\ cli' = "ready"
      /\ UNCHANGED <<cur, want, cver, cfd, pool, armed, why>>
  BY <1>1 DEF HsInv, HsType, cliVars
<1>8. \A x \in pool : NoRequest(x) /\ down[x] = <<>>
  BY <1>1, QuietSlots, Zenon DEF Waiting
<1>9. /\ HsType' /\ Phase' /\ Versions' /\ Workers' /\ UpStream' /\ DownStream' /\ Founds'
      /\ DecodedAsEncoded' /\ FoundingFailsForCause' /\ AdvertisedIsAccepted'
      /\ TimedOut'
  <2>1. /\ "ready" \in CliLabels /\ "ready" \notin Waiting /\ "ready" # "ask_id" /\ "ready" # "wait_fd"
        /\ "ready" \notin Sizing \union {"read_init", "read_resp", "connect", "attached", "failed"}
    BY Zenon DEF CliLabels, Waiting, Sizing
  <2>2. QED
    BY <1>1, <1>5, <1>6, <1>7, <1>8, <2>1, SendKeeps, Zenon
<1>10. /\ Len(up[c]) \in Nat /\ Len(up'[c]) = Len(up[c]) + 1 /\ up'[c][Len(up[c]) + 1] = t
       /\ \A i \in 1 .. Len(up[c]) : up'[c][i] = up[c][i]
       /\ \A x \in HsConns : x # c => up'[x] = up[x]
  BY <1>2, <1>6, Sent
<1>11. \A i \in 1 .. Len(up'[c]) : i = Len(up[c]) + 1
                                   \/ (i \in 1 .. Len(up[c]) /\ up'[c][i] = up[c][i])
  BY <1>10
<1>12. Outstanding'
  <2>1. SlotOk(c)'
    <3>1. \A i \in 1 .. Len(up'[c]) : up'[c][i].k \notin Requests
      BY <1>5, <1>8, <1>10, <1>11, Zenon DEF NoRequest
    <3>2. down'[c] = <<>>
      BY <1>1, <1>8, Zenon
    <3>3. QED
      BY <3>1, <3>2, Zenon DEF SlotOk
  <2>2. \A x \in pool : x # c => SlotOk(x)'
    BY <1>1, <1>8, <1>10, QuietIsOk, Zenon DEF HsInv, HsType
  <2>3. QED
    BY <1>2, <1>7, <2>1, <2>2, Zenon DEF Outstanding
<1>13. Descriptors'
  <2>1. Agreed' = Agreed /\ FdAgreed' = FdAgreed /\ NoCommon' = NoCommon /\ OneSided' = OneSided
        /\ Fixed' = Fixed /\ Steady' = Steady
    BY <1>1, SameAgreement, Zenon DEF hsSrvVars
  <2>2. Will' = Will
    BY <1>1, <2>1, WillKept, Zenon DEF hsSrvVars
  <2>3. cur = 1 => c = 1
    BY <1>2, UpToCur DEF HsInv, HsConns, Workers
  <2>4. ~Replied /\ ~Replied'
    BY <1>1, Zenon DEF Replied, cliVars
  <2>5. cur = 1 /\ Alone => Will
    BY <1>1, <2>3, <2>4, Zenon DEF Alone
  <2>6. cur = 1 /\ Alone => Alone'
    BY <1>1, <2>1, <2>2, <2>4, <2>5, AloneKept, Zenon DEF hsSrvVars, cliVars
  <2>7. QED
    BY <1>1, <2>1, <2>6, UpToCur, DescriptorsKept, Zenon DEF HsInv, Descriptors, hsSrvVars, cliVars
<1>14. QED
  BY <1>9, <1>12, <1>13, Zenon DEF HsInv

\* The reply the client reads is of its version, and nothing else is under way.
LEMMA Answered ==
    ASSUME HsInv, cli \in Waiting, down[on] # <<>>, TakeDown(on)
    PROVE  /\ on \in pool /\ cver # NoVersion /\ sver = cver /\ Head(down[on]).v = cver
           /\ down' \in [HsConns -> Seq(Tokens)]
           /\ \A x \in HsConns : down'[x] \in {down[x], <<>>}
           /\ \A x \in pool : NoRequest(x) /\ down'[x] = <<>>
           /\ cli = "wait_max" => Head(down[on]).val = setup.threads
           /\ cli = "wait_fd" /\ Head(down[on]).val = 1 => FdAgreed
<1>1. on \in pool /\ on \in HsConns /\ cver # NoVersion /\ down \in [HsConns -> Seq(Tokens)]
  BY Zenon DEF HsInv, HsType, Phase
<1>2. SlotOk(on) /\ Reply(on) /\ RepliesOk(on)
  BY <1>1, Zenon DEF HsInv, Outstanding, SlotOk, DownStream
<1>3. /\ down' \in [HsConns -> Seq(Tokens)] /\ Len(down[on]) >= 1 /\ Len(down[on]) \in Nat
      /\ Len(down'[on]) = Len(down[on]) - 1 /\ Head(down[on]) = down[on][1]
      /\ \A x \in HsConns : x # on => down'[x] = down[x]
  BY <1>1, Taken DEF TakeDown
<1>4. down'[on] \in Seq(Tokens) /\ Len(down'[on]) = 0
  BY <1>1, <1>2, <1>3 DEF Reply
<1>5. down'[on] = <<>>
  BY <1>4
<1>6. 1 \in 1 .. Len(down[on])
  BY <1>3
<1>7. sver # NoVersion /\ Head(down[on]).v = sver
  BY <1>2, <1>3, <1>6, Zenon DEF RepliesOk
<1>8. sver = cver
  BY <1>1, <1>7, Zenon DEF HsInv, Versions
<1>9. \A x \in pool : x # on => NoRequest(x) /\ down[x] = <<>>
  BY QuietSlots, Zenon
<1>10. NoRequest(on)
  BY <1>2, Zenon DEF SlotOk, NoRequest
<1>11. \A x \in pool : x \in HsConns
  BY Zenon DEF HsInv, HsType
<1>12. QED
  BY <1>1, <1>2, <1>3, <1>5, <1>7, <1>8, <1>9, <1>10, <1>11, Zenon DEF Reply

\* What lies beyond a connection once the client has gone on to a later one.
LEMMA Beyond ==
    ASSUME NEW a \in Nat, NEW b \in Nat, b >= a, NEW S \in SUBSET Nat
    PROVE  \A x \in S : (x > b => x > a) /\ (x <= a => x <= b)
  OBVIOUS

\* What reading a reply leaves alone.
LEMMA AnswerKeeps ==
    ASSUME HsInv, cli \in Waiting, down[on] # <<>>, TakeDown(on),
           decoded' = decoded \union {<<Head(down[on]).v, cver>>},
           cli' \in {"ready", "ask_id", "connect"}, cur' \in HsConns, cur' >= cur,
           UNCHANGED <<why, dead, pool, setup, cver, on, armed, inc, up, hsSrvVars, smax, lost, calls,
                       reconfigs, faults>>
    PROVE  /\ Versions' /\ Workers' /\ UpStream' /\ DownStream' /\ Outstanding' /\ Founds'
           /\ DecodedAsEncoded' /\ FoundingFailsForCause' /\ TimedOut'
<1>1. /\ on \in pool /\ cver # NoVersion /\ sver = cver /\ Head(down[on]).v = cver
      /\ down' \in [HsConns -> Seq(Tokens)]
      /\ \A x \in HsConns : down'[x] \in {down[x], <<>>}
      /\ \A x \in pool : NoRequest(x) /\ down'[x] = <<>>
  BY Answered, Zenon
<1>2. Agreed' = Agreed /\ FdAgreed' = FdAgreed /\ NoCommon' = NoCommon
  BY SameAgreement, Zenon DEF hsSrvVars
<1>3. Versions'
  BY <1>2, Zenon DEF HsInv, Versions, hsSrvVars
<1>4. Workers'
  <2>1. cur \in Nat /\ cur' \in Nat /\ HsConns \in SUBSET Nat /\ pool \subseteq HsConns
    BY UpToCur, Zenon DEF HsInv, HsType
  <2>2. \A x \in HsConns : (x > cur' => x > cur) /\ (x <= cur => x <= cur')
    BY <2>1, Beyond, Zenon
  <2>3. \A x \in HsConns : WorkerOk(x)'
    BY <1>1, <2>2, WorkerKept, Zenon DEF HsInv, Workers, hsSrvVars
  <2>4. QED
    BY <2>1, <2>2, <2>3, Zenon DEF HsInv, Workers, hsSrvVars
<1>5. UpStream'
  BY <1>2, StreamKept, Zenon DEF HsInv, UpStream, Gone, hsSrvVars
<1>6. DownStream'
  <2>1. \A x \in pool : RepliesOk(x)'
    BY <1>1 DEF RepliesOk
  <2>2. QED
    BY <1>1, <2>1, Zenon DEF DownStream, FoundingOk
<1>7. Outstanding'
  <2>1. \A x \in pool : SlotOk(x)'
    BY <1>1, QuietIsOk, Zenon DEF HsInv, HsType
  <2>2. cli' \notin {"read_init", "attached"} /\ cver' # NoVersion
    BY <1>1, Zenon
  <2>3. QED
    BY <2>1, <2>2, Zenon DEF Outstanding
<1>8. DecodedAsEncoded'
  BY <1>1 DEF HsInv, DecodedAsEncoded
<1>9. Founds' /\ FoundingFailsForCause' /\ TimedOut'
  BY <1>1, Zenon DEF HsInv, Founds, FoundingFailsForCause, TimedOut
<1>10. QED
  BY <1>3, <1>4, <1>5, <1>6, <1>7, <1>8, <1>9, Zenon

\* The reply to a call of a session that is set up.
LEMMA ReadyAgain ==
    ASSUME HsInv, cli \in {"wait_max", "wait_fd", "wait_root"}, down[on] # <<>>, TakeDown(on),
           decoded' = decoded \union {<<Head(down[on]).v, cver>>},
           cli' = "ready" \/ (cli = "wait_max" /\ cli' = "ask_id" /\ want' > 1),
           cur' = cur, want' \in 1 .. MaxConns, want' <= setup.threads, cli = "wait_max" \/ want' = want,
           cfd' = (IF cli = "wait_fd" THEN Head(down[on]).val = 1 ELSE cfd),
           UNCHANGED <<why, dead, pool, setup, cver, on, armed, inc, up, hsSrvVars, smax, lost, calls,
                       reconfigs, faults>>
    PROVE  HsInv'
<1>1. /\ on \in pool /\ cver # NoVersion /\ sver = cver /\ Head(down[on]).v = cver
      /\ down' \in [HsConns -> Seq(Tokens)]
      /\ \A x \in HsConns : down'[x] \in {down[x], <<>>}
      /\ \A x \in pool : NoRequest(x) /\ down'[x] = <<>>
      /\ cli = "wait_fd" /\ Head(down[on]).val = 1 => FdAgreed
  BY Answered, Zenon DEF Waiting
<1>2. /\ Agreed' = Agreed /\ FdAgreed' = FdAgreed /\ NoCommon' = NoCommon /\ OneSided' = OneSided
      /\ Fixed' = Fixed /\ Steady' = Steady
  BY SameAgreement, Zenon DEF hsSrvVars
<1>3. /\ Versions' /\ Workers' /\ UpStream' /\ DownStream' /\ Outstanding' /\ Founds'
      /\ DecodedAsEncoded' /\ FoundingFailsForCause' /\ TimedOut'
  <2>1. cli \in Waiting /\ cur' \in HsConns /\ cur' >= cur /\ cli' \in {"ready", "ask_id", "connect"}
    BY UpToCur, SMTT(30) DEF Waiting, HsInv, HsType
  <2>2. QED
    BY <2>1, AnswerKeeps, Zenon
<1>4. HsType'
  <2>1. cli' \in CliLabels /\ cfd' \in BOOLEAN
    BY Zenon DEF CliLabels, HsInv, HsType
  <2>2. QED
    BY <1>1, <2>1, Zenon DEF HsInv, HsType, hsSrvVars
<1>5. Phase'
  <2>1. /\ cli' \notin {"connect", "read_init", "read_resp", "attached", "failed"}
        /\ cli' \notin Waiting /\ (cli' \in Sizing => cli \in Sizing)
        /\ cli' \in {"ask_id", "wait_id"} => want' > 1
    BY Zenon DEF Waiting, Sizing
  <2>2. setup.entry = "a13" => cur' <= want'
    <3>1. cli = "wait_max" => cur = 1
      BY Zenon DEF HsInv, Phase, Sizing
    <3>2. cur \in Nat /\ want' >= 1
      BY UpToCur
    <3>3. QED
      BY <3>1, <3>2, Zenon DEF HsInv, Phase
  <2>3. QED
    BY <1>1, <1>2, <2>1, <2>2, Zenon DEF HsInv, Phase, Waiting, hsSrvVars
<1>6. Descriptors'
  <2>1. cfd' => FdAgreed' /\ cver' # NoVersion /\ (Steady => setup.unix)
    BY <1>1, <1>2, Zenon DEF HsInv, Descriptors, Phase
  <2>2. cur = 1 => on = 1
    BY <1>1, UpToCur DEF HsInv, Workers, HsType, HsConns
  <2>3. Will' = Will
    BY <1>2, WillKept, Zenon DEF hsSrvVars
  <2>4. 1 \in HsConns /\ down[1] \in Seq(Tokens)
    BY UpToCur, Zenon DEF HsInv, HsType
  <2>5. down[1] # <<>> => Head(down[1]) = down[1][1]
    BY <2>4
  <2>6. cli' # "wait_fd"
    BY Zenon
  <2>7. cur = 1 /\ Alone => Alone'
    BY <1>2, <2>2, <2>3, <2>5, <2>6, Zenon DEF Alone, Replied, hsSrvVars
  <2>8. QED
    BY <1>2, <2>1, <2>7, UpToCur, DescriptorsKept, Zenon DEF HsInv, hsSrvVars
<1>7. AdvertisedIsAccepted'
  BY Zenon DEF HsInv, AdvertisedIsAccepted, SessionAlive, hsSrvVars
<1>8. QED
  BY <1>3, <1>4, <1>5, <1>6, <1>7, Zenon DEF HsInv

\* The four replies.
LEMMA AnswersStep ==
    ASSUME HsInv, AnswerMaxThreads \/ AnswerSessionId \/ AnswerFdMode \/ AnswerRoot
    PROVE  HsInv'
<1>1. /\ cli \in Waiting
      /\ UNCHANGED <<setup, cver, on, armed, inc, up, hsSrvVars, smax, lost, calls, reconfigs, faults>>
  BY Zenon DEF AnswerMaxThreads, AnswerSessionId, AnswerFdMode, AnswerRoot, Answer, Waiting
<1>2. on \in pool /\ on \in HsConns /\ cver # NoVersion /\ calls \in Nat /\ want \in 1 .. MaxConns
      /\ want <= setup.threads
  BY <1>1, Zenon DEF HsInv, HsType, Phase
<1>3. CASE ReadFails(on) /\ CallFails(on) /\ UNCHANGED <<down, decoded, want, cur, cfd>>
  <2>1. cli \in Sizing \union {"ready", "wait_fd", "wait_root"}
    BY <1>1, Zenon DEF Sizing, Waiting
  <2>2. QED
    BY <1>1, <1>2, <1>3, <2>1, CallFailsStep, Zenon
<1>4. CASE /\ down[on] # <<>> /\ TakeDown(on)
           /\ decoded' = decoded \union {<<Head(down[on]).v, cver>>}
           /\ UNCHANGED <<why, dead, pool>>
           /\ \/ /\ cli = "wait_max" /\ want' = Negotiated(Head(down[on]).val)
                 /\ cli' = IF Negotiated(Head(down[on]).val) <= 1 THEN "ready" ELSE "ask_id"
                 /\ UNCHANGED <<cur, cfd>>
              \/ cli = "wait_id" /\ cur' = 2 /\ cli' = "connect" /\ UNCHANGED <<want, cfd>>
              \/ /\ cli = "wait_fd" /\ cfd' = (Head(down[on]).val = 1) /\ cli' = "ready"
                 /\ UNCHANGED <<want, cur>>
              \/ cli = "wait_root" /\ cli' = "ready" /\ UNCHANGED <<want, cur, cfd>>
  <2>1. CASE cli = "wait_max"
    <3>1. Head(down[on]).val = setup.threads
      BY <1>1, <1>4, <2>1, Answered, Zenon
    <3>2. /\ setup.threads \in 1 .. MaxConns /\ setup.local \in 1 .. MaxConns
      BY Zenon DEF HsInv, HsType, Setups
    <3>3. /\ Negotiated(setup.threads) \in 1 .. MaxConns
          /\ Negotiated(setup.threads) <= setup.threads
      BY <3>2, HsAssumption DEF Negotiated, Most, Least
    <3>4. /\ want' = Negotiated(setup.threads) /\ UNCHANGED <<cur, cfd>>
          /\ cli' = IF want' <= 1 THEN "ready" ELSE "ask_id"
      BY <1>4, <2>1, <3>1, Zenon
    <3>5. cli' = "ready" \/ (cli' = "ask_id" /\ want' > 1)
      BY <3>2, <3>3, <3>4
    <3>6. QED
      BY <1>1, <1>4, <2>1, <3>3, <3>4, <3>5, ReadyAgain, Zenon
  <2>2. CASE cli \in {"wait_fd", "wait_root"}
    <3>1. /\ cli' = "ready" /\ UNCHANGED <<want, cur>>
          /\ cfd' = (IF cli = "wait_fd" THEN Head(down[on]).val = 1 ELSE cfd)
      BY <1>4, <2>2, Zenon
    <3>2. QED
      BY <1>1, <1>2, <1>4, <2>2, <3>1, ReadyAgain, Zenon
  <2>3. CASE cli = "wait_id"
    <3>1. cur' = 2 /\ cli' = "connect" /\ UNCHANGED <<want, cfd>>
      BY <1>4, <2>3, Zenon
    <3>2. cur = 1 /\ setup.local > 1 /\ want > 1 /\ 2 \in HsConns /\ cur' >= cur
      BY <2>3, <3>1, HsAssumption DEF HsInv, Phase, Sizing, HsConns
    <3>3. /\ on \in pool /\ cver # NoVersion /\ sver = cver
          /\ down' \in [HsConns -> Seq(Tokens)]
      BY <1>1, <1>4, Answered, Zenon
    <3>4. /\ Versions' /\ Workers' /\ UpStream' /\ DownStream' /\ Outstanding' /\ Founds'
          /\ DecodedAsEncoded' /\ FoundingFailsForCause' /\ TimedOut'
      BY <1>1, <1>4, <3>1, <3>2, AnswerKeeps, Zenon
    <3>5. srv[2] = "idle" /\ 2 > 1
      BY <3>2 DEF HsInv, Workers, WorkerOk
    <3>6. HsType'
      <4>1. "connect" \in CliLabels
        BY Zenon DEF CliLabels
      <4>2. QED
        BY <1>1, <1>4, <3>1, <3>2, <3>3, <4>1, Zenon DEF HsInv, HsType, hsSrvVars
    <3>7. Phase'
      <4>1. /\ "connect" \notin Sizing /\ "connect" \notin Waiting
            /\ "connect" \notin {"ask_id", "wait_id", "read_init", "read_resp", "attached", "failed"}
            /\ 2 # 1 /\ 2 <= want
        BY <1>2, <3>2 DEF Sizing, Waiting
      <4>2. QED
        BY <1>1, <1>4, <3>1, <3>2, <3>3, <3>5, <4>1, Zenon DEF HsInv, Phase, hsSrvVars
    <3>8. Descriptors'
      <4>1. /\ FdAgreed' = FdAgreed /\ OneSided' = OneSided /\ Fixed' = Fixed /\ Steady' = Steady
            /\ cur' > 1 /\ cur' # 1
        BY <1>1, <3>1, SameAgreement DEF hsSrvVars
      <4>2. QED
        BY <1>1, <3>1, <4>1, DescriptorsKept, Zenon DEF HsInv, Descriptors, hsSrvVars
    <3>9. AdvertisedIsAccepted'
      <4>1. \A x \in 2 .. 2 : srv[x] # "refused"
        BY <3>5
      <4>2. QED
        BY <1>1, <3>1, <4>1, Zenon DEF AdvertisedIsAccepted, hsSrvVars
    <3>10. QED
      BY <3>4, <3>6, <3>7, <3>8, <3>9, Zenon DEF HsInv
  <2>4. QED
    BY <1>1, <2>1, <2>2, <2>3, Zenon DEF Waiting
<1>5. QED
  BY <1>3, <1>4, Zenon DEF AnswerMaxThreads, AnswerSessionId, AnswerFdMode, AnswerRoot, Answer

\* The r34 wire.
LEMMA ConnectR34Step == ASSUME HsInv, ConnectR34 PROVE HsInv'
<1>1. /\ cli = "connect" /\ setup.entry = "r34" /\ cli' = "ready" /\ cver' = R34Wire /\ pool' = {1}
      /\ srv' = [srv EXCEPT ![1] = "recv"] /\ sver' = R34Wire /\ slots' = {1}
      /\ UNCHANGED <<setup, cur, want, cfd, on, armed, why, netVars, offer, sfd, rmode, smax, decoded,
                     lost, calls, reconfigs, faults>>
  BY Zenon DEF ConnectR34
<1>2. cur = 1 /\ cver = NoVersion /\ srv[1] = "idle" /\ pool = {} /\ ~cfd
  BY <1>1, UpToCur DEF HsInv, Phase, HsType, HsConns, Descriptors
<1>3. 1 \in HsConns /\ \A x \in HsConns : x # 1 => x > cur
  BY <1>2, UpToCur DEF HsConns
<1>4. \A x \in HsConns : WorkerOk(x) /\ srv[x] = "idle"
  BY <1>2, <1>3, Zenon DEF HsInv, Workers, WorkerOk
<1>5. /\ srv'[1] = "recv" /\ srv' \in [HsConns -> SrvLabels]
      /\ \A x \in HsConns : x # 1 => srv'[x] = "idle"
  BY <1>1, <1>3, <1>4, Zenon DEF HsInv, HsType, SrvLabels
<1>6. up[1] = <<>> /\ down[1] = <<>> /\ ~inc[1] /\ Len(<<>>) = 0 /\ 1 .. 0 = {}
  BY <1>3, <1>4 DEF WorkerOk, Early
<1>7. R34Wire # NoVersion /\ R34Wire # 0 /\ R34Wire \in Int
  BY DEF R34Wire, NoVersion
<1>8. Agreed' = Agreed /\ FdAgreed' = FdAgreed /\ NoCommon' = NoCommon /\ OneSided' = OneSided
      /\ Fixed' = Fixed /\ Steady' = Steady
  BY <1>1, SameAgreement, Zenon
<1>9. Agreed = R34Wire
  BY <1>1, Zenon DEF Agreed
<1>10. HsType'
  <2>1. "ready" \in CliLabels /\ {1} \subseteq HsConns
    BY <1>3, Zenon DEF CliLabels
  <2>2. QED
    BY <1>1, <1>5, <1>7, <2>1, Zenon DEF HsInv, HsType, netVars
<1>11. Phase'
  <2>1. /\ "ready" \notin Sizing /\ "ready" \notin Waiting
        /\ "ready" \notin {"connect", "ask_id", "wait_id", "read_init", "read_resp", "attached", "failed"}
        /\ ~(cur > 1) /\ ~armed /\ setup.entry # "a13"
    BY <1>1, <1>2 DEF Sizing, Waiting, HsInv, Phase
  <2>2. QED
    BY <1>1, <1>7, <2>1, Zenon DEF HsInv, Phase, netVars
<1>12. Versions'
  BY <1>1, <1>8, <1>9, Zenon DEF HsInv, Versions
<1>13. Workers'
  <2>1. "recv" \in Serving \union {"callback"} /\ "recv" \notin Early
        /\ "recv" \notin {"idle", "accept", "header", "new_init", "attach_init", "to_unix"}
        /\ "idle" \notin Serving \union {"callback"} /\ ~(1 > cur)
    BY <1>2 DEF Serving, Early
  <2>2. WorkerOk(1)'
    BY <1>1, <1>5, <1>7, <2>1, Zenon DEF WorkerOk, netVars
  <2>3. \A x \in HsConns : x # 1 => WorkerOk(x)'
    <3> SUFFICES ASSUME NEW x \in HsConns, x # 1 PROVE WorkerOk(x)'
      BY Zenon
    <3>1. srv'[x] = srv[x] /\ WorkerOk(x) /\ srv[x] = "idle"
      BY <1>4, <1>5, Zenon
    <3>2. QED
      BY <1>1, <3>1, WorkerKept, Zenon DEF netVars
  <2>4. 1 <= cur /\ \A x \in {1} : x = 1
    BY <1>2
  <2>5. QED
    BY <1>1, <1>5, <1>6, <2>1, <2>2, <2>3, <2>4, Zenon DEF Workers, netVars
<1>14. UpStream'
  <2>1. StreamOk(1)'
    <3>1. Gone(1)' = 2
      BY <1>5, Zenon DEF Gone
    <3>2. \A i \in 1 .. Len(up'[1]) : FALSE
      BY <1>1, <1>6, Zenon DEF netVars
    <3>3. Len(up'[1]) + Gone(1)' >= 2
      BY <1>1, <1>6, <3>1 DEF netVars
    <3>4. QED
      BY <3>2, <3>3, Zenon DEF StreamOk
  <2>2. "idle" \notin Reading
    BY Zenon DEF Reading, Serving
  <2>3. QED
    BY <1>5, <2>1, <2>2, Zenon DEF UpStream, StreamOk
<1>15. DownStream'
  <2>1. RepliesOk(1)'
    BY <1>1, <1>6, Zenon DEF RepliesOk, netVars
  <2>2. \A x \in pool' : x = 1
    BY <1>1, Zenon
  <2>3. QED
    BY <1>1, <1>7, <2>1, <2>2, Zenon DEF DownStream, FoundingOk
<1>16. Outstanding'
  <2>1. SlotOk(1)'
    BY <1>1, <1>6, Zenon DEF SlotOk, netVars
  <2>2. \A x \in pool' : x = 1
    BY <1>1
  <2>3. QED
    BY <1>1, <1>7, <2>1, <2>2, Zenon DEF Outstanding
<1>17. Descriptors'
  <2>1. \A i \in 1 .. Len(up'[1]) : FALSE
    BY <1>1, <1>6, Zenon DEF netVars
  <2>2. Alone'
    BY <1>1, <1>2, <1>7, <2>1, Zenon DEF Alone, Replied
  <2>3. ~sfd /\ \A x \in HsConns : ~rmode[x]
    BY <1>1, <1>2, Zenon DEF HsInv, Descriptors, Versions
  <2>4. \A x \in HsConns : srv'[x] = "recv" => rmode'[x] = sfd'
    <3>1. sfd \in BOOLEAN /\ \A x \in HsConns : rmode[x] \in BOOLEAN
      BY Zenon DEF HsInv, HsType
    <3>2. \A x \in HsConns : rmode[x] = sfd
      BY <2>3, <3>1, Zenon
    <3>3. QED
      BY <1>1, <3>2, Zenon
  <2>5. ~Steady
    BY <1>1, Zenon DEF Steady
  <2>6. QED
    BY <1>1, <1>2, <1>7, <1>8, <2>2, <2>3, <2>4, <2>5, Zenon DEF HsInv, Descriptors, FdLostOnlyAcross
<1>18. Founds' /\ FoundingFailsForCause' /\ AdvertisedIsAccepted'
  BY <1>1, <1>7, Zenon DEF Founds, FoundingFailsForCause, AdvertisedIsAccepted
<1>19. DecodedAsEncoded'
  BY <1>1, Zenon DEF HsInv, DecodedAsEncoded
<1>20. TimedOut'
  BY <1>1, Zenon DEF HsInv, TimedOut
<1>21. QED
  BY <1>10, <1>11, <1>12, <1>13, <1>14, <1>15, <1>16, <1>17, <1>18, <1>19, <1>20, Zenon
     DEF HsInv

\* The connection header and the "cci" are tokens.
LEMMA HelloTokens ==
    ASSUME NEW h \in Tokens, NEW i \in Tokens, NEW incoming \in BOOLEAN,
           NEW q, q = <<>> \o (<<h>> \o IF incoming THEN <<>> ELSE <<i>>)
    PROVE  /\ q \in Seq(Tokens) /\ Len(q) = (IF incoming THEN 1 ELSE 2) /\ q[1] = h
           /\ ~incoming => q[2] = i
<1>1. <<h>> \in Seq(Tokens) /\ <<i>> \in Seq(Tokens) /\ <<>> \in Seq(Tokens)
  OBVIOUS
<1>2. CASE incoming
  <2>1. q = <<>> \o (<<h>> \o <<>>)
    BY <1>2, Zenon
  <2>2. QED
    BY <1>1, <1>2, <2>1
<1>3. CASE ~incoming
  <2>1. q = <<>> \o (<<h>> \o <<i>>)
    BY <1>3, Zenon
  <2>2. QED
    BY <1>1, <1>3, <2>1
<1>4. QED
  BY <1>2, <1>3, Zenon

\* client_connect_with_id up to its first read.
LEMMA ConnectA13Step == ASSUME HsInv, ConnectA13 PROVE HsInv'
<1>1. /\ cli = "connect" /\ setup.entry # "r34"
      /\ UNCHANGED <<setup, cur, want, cver, cfd, on, down, offer, sver, sfd, slots, rmode, smax,
                     decoded, lost, calls, reconfigs, faults>>
  BY Zenon DEF ConnectA13
<1>2. PICK c \in HsConns : c = cur
  BY Zenon DEF HsInv, HsType
<1>3. WorkerOk(c) /\ srv[c] = "idle" /\ (c = 1 <=> cver = NoVersion)
  BY <1>1, <1>2, UpToCur, Zenon DEF HsInv, Phase, Workers
<1>4. CASE Offered \notin Implemented
  <2>1. HsFail("version") /\ UNCHANGED <<inc, up, srv, armed>>
    BY <1>4, Zenon DEF ConnectA13
  <2>2. cver = NoVersion => setup.max \notin Implemented
    BY <1>2, <1>3, <1>4, Zenon DEF Offered, Founding
  <2>3. on' \in HsConns
    BY <1>1, Zenon DEF HsInv, HsType
  <2>4. QED
    BY <1>1, <2>1, <2>2, <2>3, FailStep, Zenon DEF hsSrvVars
<1>5. CASE Offered \in Implemented
  <2>1. PICK incoming \in BOOLEAN :
          /\ setup.entry = "a13" => ~incoming
          /\ inc' = [inc EXCEPT ![c] = incoming]
          /\ SendUp(c, <<[k |-> "header", v |-> Offered, new |-> Founding,
                          incoming |-> incoming, unix |-> setup.unix]>>
                       \o IF incoming THEN <<>> ELSE <<[k |-> "cci", v |-> Offered]>>)
          /\ cli' = AfterHello(incoming)
          /\ armed' = (setup.entry = "fd")
          /\ srv' = [srv EXCEPT ![c] = "accept"]
          /\ UNCHANGED <<why, dead, pool>>
    <3>1. PICK incoming \in IF setup.entry = "aosp" /\ (Founding \/ cur > want)
                            THEN {~Founding, TRUE} ELSE {FALSE} :
          /\ inc' = [inc EXCEPT ![cur] = incoming]
          /\ SendUp(cur, <<[k |-> "header", v |-> Offered, new |-> Founding,
                            incoming |-> incoming, unix |-> setup.unix]>>
                         \o IF incoming THEN <<>> ELSE <<[k |-> "cci", v |-> Offered]>>)
          /\ cli' = AfterHello(incoming)
      BY <1>5, Zenon DEF ConnectA13
    <3>2. incoming \in BOOLEAN /\ (setup.entry = "a13" => ~incoming)
      BY Zenon DEF Founding
    <3>3. armed' = (setup.entry = "fd") /\ srv' = [srv EXCEPT ![c] = "accept"]
          /\ UNCHANGED <<why, dead, pool>>
      BY <1>2, <1>5, Zenon DEF ConnectA13
    <3>4. QED
      BY <1>2, <3>1, <3>2, <3>3, Zenon
  <2>2. /\ Offered = Version(c) /\ Version(c)' = Version(c) /\ (Founding <=> c = 1)
        /\ Version(c) \in Int /\ setup.unix \in BOOLEAN
    <3>1. setup.max \in Int /\ setup.unix \in BOOLEAN /\ offer[1] \in Int /\ cver \in Int
      <4>1. setup \in Setups /\ offer[1] \in Offers \union {NoVersion} /\ cver \in Int
        BY UpToCur, Zenon DEF HsInv, HsType
      <4>2. setup.max \in Offers /\ setup.unix \in BOOLEAN
        BY <4>1, Zenon DEF Setups
      <4>3. QED
        <5>1. \A x \in Offers \union {NoVersion} : x \in Int
          BY HsAssumption DEF NoVersion
        <5>2. QED
          BY <4>1, <4>2, <5>1, Zenon
    <3>2. c # 1 => cver <= setup.max
      <4>1. c # 1 => cver = Least(setup.max, offer[1])
        BY <1>1, <1>3, Zenon DEF HsInv, Versions, Agreed
      <4>2. QED
        BY <3>1, <4>1 DEF Least
    <3>3. QED
      BY <1>1, <1>2, <3>1, <3>2 DEF Offered, Founding, Version, Least
  <2>3. PICK hello \in Tokens : hello = [k |-> "header", v |-> Version(c), new |-> c = 1,
                                         incoming |-> incoming, unix |-> setup.unix]
    <3>1. [k |-> "header", v |-> Version(c), new |-> c = 1, incoming |-> incoming, unix |-> setup.unix]
          \in [k : {"header"}, v : Int, new : BOOLEAN, incoming : BOOLEAN, unix : BOOLEAN]
      BY <2>2, Zenon
    <3>2. QED
      BY <3>1, Zenon DEF Tokens
  <2>4. PICK init \in Tokens : init = [k |-> "cci", v |-> Version(c)]
    <3>1. [k |-> "cci", v |-> Version(c)] \in [k : {"cci"}, v : Int]
      BY <2>2, Zenon
    <3>2. QED
      BY <3>1, Zenon DEF Tokens
  <2>5. hello.k = "header" /\ init.k = "cci"
    BY <2>3, <2>4, Zenon
  <2>6. /\ up' \in [HsConns -> Seq(Tokens)]
        /\ Len(up'[c]) = (IF incoming THEN 1 ELSE 2) /\ up'[c][1] = hello
        /\ ~incoming => up'[c][2] = init
        /\ \A x \in HsConns : x # c => up'[x] = up[x]
    <3>1. up[c] = <<>> /\ up \in [HsConns -> Seq(Tokens)]
      BY <1>3, Zenon DEF WorkerOk, HsInv, HsType
    <3>2. (Founding <=> c = 1) => Founding = (c = 1)
      BY Zenon DEF Founding
    <3>3. PICK q : q = <<>> \o (<<hello>> \o IF incoming THEN <<>> ELSE <<init>>)
      BY Zenon
    <3>4. up' = [up EXCEPT ![c] = q]
      BY <2>1, <2>2, <2>3, <2>4, <3>1, <3>2, <3>3, Zenon DEF SendUp
    <3>5. /\ q \in Seq(Tokens) /\ Len(q) = (IF incoming THEN 1 ELSE 2) /\ q[1] = hello
          /\ ~incoming => q[2] = init
      BY <3>3, HelloTokens
    <3>6. up'[c] = q /\ up' \in [HsConns -> Seq(Tokens)] /\ \A x \in HsConns : x # c => up'[x] = up[x]
      BY <3>1, <3>4, <3>5, Zenon
    <3>7. QED
      BY <3>5, <3>6, Zenon
  <2>7. /\ inc' \in [HsConns -> BOOLEAN] /\ inc'[c] = incoming
        /\ srv' \in [HsConns -> SrvLabels] /\ srv'[c] = "accept"
        /\ \A x \in HsConns : x # c => inc'[x] = inc[x] /\ srv'[x] = srv[x]
    BY <2>1, Zenon DEF HsInv, HsType, SrvLabels
  <2>8. Agreed' = Agreed /\ FdAgreed' = FdAgreed /\ NoCommon' = NoCommon /\ OneSided' = OneSided
        /\ Fixed' = Fixed /\ Steady' = Steady
    BY <1>1, SameAgreement, Zenon
  <2>9. /\ cli' \in {"read_init", "read_resp", "attached"}
        /\ cli' = "read_init" <=> incoming
        /\ cli' = "read_resp" <=> ~incoming /\ c = 1
    BY <2>1, <2>2, Zenon DEF AfterHello
  <2>10. HsType'
    <3>1. cli' \in CliLabels /\ armed' \in BOOLEAN
      BY <2>1, <2>9, Zenon DEF CliLabels
    <3>2. QED
      BY <1>1, <2>1, <2>6, <2>7, <3>1, Zenon DEF HsInv, HsType
  <2>11. Phase'
    <3>1. /\ cli' \notin Sizing /\ cli' \notin Waiting /\ cli' \notin {"connect", "ask_id", "wait_id", "failed"}
          /\ cli' # "wait_fd" /\ (cli' = "attached" => cur > 1 /\ srv'[cur] # "idle")
      BY <1>2, <2>7, <2>9, UpToCur DEF Sizing, Waiting
    <3>2. armed' => setup.entry = "fd" /\ cver = NoVersion
      <4>1. setup.entry = "fd" => setup.local = 1
        BY Zenon DEF HsInv, HsType
      <4>2. QED
        <5>1. setup.local = 1 => ~(cur > 1)
          BY DEF HsInv, Phase
        <5>2. setup.entry = "fd" => cur = 1
          BY <4>1, <5>1, UpToCur
        <5>3. QED
          BY <1>2, <1>3, <2>1, <5>2, Zenon
    <3>3. cver = NoVersion => cli' \in {"connect", "read_init", "read_resp", "failed"}
      BY <1>3, <2>9, Zenon
    <3>4. 1 \in HsConns
      BY UpToCur, Zenon
    <3>5. setup.entry = "a13" => \A x \in HsConns : ~inc'[x]
      BY <2>1, <2>7, Zenon DEF HsInv, Phase
    <3>6. cli' = "read_init" => inc'[cur] /\ srv'[cur] # "idle" /\ (cur = 1 => cver = NoVersion)
      BY <1>2, <1>3, <2>7, <2>9, Zenon
    <3>7. cli' = "read_resp" => cver = NoVersion /\ ~inc'[1]
      BY <1>3, <2>7, <2>9, Zenon
    <3>8. QED
      BY <1>1, <2>1, <3>1, <3>2, <3>3, <3>5, <3>6, <3>7, Zenon DEF HsInv, Phase
  <2>12. Versions'
    <3>1. c = 1 => cver = NoVersion /\ sver = NoVersion /\ srv'[1] # "new_init"
      BY <1>1, <1>3, <2>7, Zenon DEF HsInv, Versions, Early
    <3>2. c # 1 => srv'[1] = srv[1]
      BY <2>7, UpToCur, Zenon
    <3>3. QED
      BY <1>1, <2>8, <3>1, <3>2, Zenon DEF HsInv, Versions
  <2>13. Workers'
    <3>1. /\ "accept" \notin {"idle", "header", "new_init", "attach_init", "to_unix"}
          /\ "accept" \notin Serving \union {"callback"} /\ "accept" \in Early /\ "idle" \in Early
          /\ "idle" \notin Serving \union {"callback"} /\ ~(c > cur)
      BY <1>2, UpToCur DEF Serving, Early
    <3>2. WorkerOk(c)'
      BY <1>1, <1>3, <2>7, <3>1, Zenon DEF WorkerOk
    <3>3. \A x \in HsConns : x # c => WorkerOk(x)'
      BY <1>1, <2>6, <2>7, WorkerKept, Zenon DEF HsInv, Workers
    <3>4. c \notin slots /\ c \notin pool
      BY <1>3, <3>1, Zenon DEF HsInv, Workers
    <3>5. QED
      BY <1>1, <2>1, <2>7, <3>2, <3>3, <3>4, Zenon DEF HsInv, HsType, Workers
  <2>14. UpStream'
    <3>1. Gone(c)' = 0
      BY <2>7, Zenon DEF Gone
    <3>2. Header(c)' = hello /\ Cci(c)' = init
      BY <1>1, <2>2, <2>3, <2>4, <2>7, Zenon DEF Header, Cci
    <3>3. /\ 1 \in 1 .. Len(up'[c]) => up'[c][1] = hello
          /\ 2 \in 1 .. Len(up'[c]) => up'[c][2] = init /\ ~incoming
          /\ \A i \in 1 .. Len(up'[c]) : i = 1 \/ i = 2
          /\ ~incoming => Len(up'[c]) = 2
      BY <2>6
    <3>4. \A i \in 1 .. Len(up'[c]) : UpOk(c, i)'
      <4> SUFFICES ASSUME NEW i \in 1 .. Len(up'[c]) PROVE UpOk(c, i)'
        BY Zenon
      <4>1. CASE i = 1
        <5>1. i + Gone(c)' = 1 /\ ~(i + Gone(c)' = 2) /\ ~(i + Gone(c)' > 2)
          BY <3>1, <4>1
        <5>2. up'[c][i] = Header(c)'
          BY <3>2, <3>3, <4>1, Zenon
        <5>3. QED
          BY <5>1, <5>2, Zenon DEF UpOk
      <4>2. CASE i = 2
        <5>1. i + Gone(c)' = 2 /\ ~(i + Gone(c)' = 1) /\ ~(i + Gone(c)' > 2)
          BY <3>1, <4>2
        <5>2. up'[c][i] = Cci(c)' /\ ~inc'[c]
          BY <2>7, <3>2, <3>3, <4>2, Zenon
        <5>3. QED
          BY <5>1, <5>2, Zenon DEF UpOk
      <4>3. QED
        BY <3>3, <4>1, <4>2, Zenon
    <3>5. StreamOk(c)'
      <4>1. ~inc'[c] => Len(up'[c]) + Gone(c)' >= 2
        BY <2>7, <3>1, <3>3, SMTT(30)
      <4>2. \A i \in 1 .. Len(up'[c]) : up'[c][i].k \notin Requests
        <5>1. "header" \notin Requests /\ "cci" \notin Requests
          BY Zenon DEF Requests
        <5>2. QED
          BY <2>5, <3>3, <5>1, Zenon
      <4>3. QED
        BY <3>4, <4>1, <4>2, Zenon DEF StreamOk
    <3>6. \A x \in HsConns : x # c => Gone(x)' = Gone(x)
      BY <2>7, Zenon DEF Gone
    <3>7. \A x \in HsConns : x # c => StreamOk(x)'
      BY <1>1, <2>1, <2>6, <2>7, <2>8, <3>6, StreamKept, Zenon DEF HsInv, UpStream
    <3>8. QED
      BY <3>5, <3>7, Zenon DEF UpStream
  <2>15. DownStream'
    BY <1>1, <2>1, <2>8, Zenon DEF HsInv, DownStream, FoundingOk, RepliesOk, Response
  <2>16. Outstanding'
    <3>1. c \notin pool /\ pool \subseteq HsConns
      BY <1>3, Zenon DEF HsInv, Workers, HsType
    <3>2. \A x \in pool : SlotOk(x)'
      <4>1. \A x \in pool : NoRequest(x) /\ down[x] = <<>>
        BY <1>1, QuietSlots, Zenon DEF Waiting
      <4>2. QED
        BY <1>1, <2>6, <3>1, <4>1, QuietIsOk, Zenon
    <3>3. \A i \in 1 .. Len(up'[c]) : up'[c][i].k \in {"header", "cci"}
      BY <2>5, <2>6
    <3>4. down[c] = <<>>
      BY <1>3, Zenon DEF WorkerOk, Early
    <3>5. QED
      BY <1>1, <1>2, <2>1, <3>2, <3>3, <3>4, Zenon DEF Outstanding
  <2>17. Descriptors'
    <3>1. \A x \in HsConns : srv'[x] = "recv" => srv[x] = "recv"
      BY <2>7, Zenon
    <3>2. ASSUME cur = 1 PROVE Alone'
      <4>1. Will' = Fixed' /\ ~cfd /\ cver = NoVersion
        BY <1>2, <1>3, <2>7, <3>2, Zenon DEF Will, HsInv, Descriptors
      <4>2. \A i \in 1 .. Len(up'[1]) : up'[1][i].k # "fd"
        BY <1>2, <2>5, <2>6, <3>2
      <4>3. cli' # "wait_fd"
        BY <2>9, Zenon
      <4>4. QED
        BY <1>1, <4>1, <4>2, <4>3, Zenon DEF Alone, Replied
    <3>3. QED
      BY <1>1, <2>8, <3>1, <3>2, Zenon DEF HsInv, Descriptors, FdLostOnlyAcross
  <2>18. Founds'
    <3>1. c = 1 => ~inc[1] /\ ~NoCommon
      BY <1>3, Zenon DEF WorkerOk, NoCommon
    <3>2. QED
      BY <1>1, <1>3, <2>1, <3>1, Zenon DEF HsInv, Founds
  <2>19. FoundingFailsForCause' /\ TimedOut'
    BY <1>1, <2>1, <2>9, Zenon DEF FoundingFailsForCause, TimedOut, HsInv
  <2>20. AdvertisedIsAccepted'
    <3>1. SessionAlive' => SessionAlive
      BY <2>7, Zenon DEF SessionAlive
    <3>2. QED
      BY <1>1, <2>7, <3>1, UpToCur, Zenon DEF HsInv, AdvertisedIsAccepted
  <2>21. DecodedAsEncoded'
    BY <1>1, Zenon DEF HsInv, DecodedAsEncoded
  <2>22. QED
    BY <2>10, <2>11, <2>12, <2>13, <2>14, <2>15, <2>16, <2>17, <2>18, <2>19, <2>20, <2>21, Zenon DEF HsInv
<1>6. QED
  BY <1>4, <1>5, Zenon

\* The incoming client reads a "cci".
LEMMA ReadInitStep == ASSUME HsInv, ReadInit PROVE HsInv'
<1>1. /\ cli = "read_init"
      /\ UNCHANGED <<setup, cur, want, cver, cfd, on, armed, inc, up, hsSrvVars, smax, decoded, lost,
                     calls, reconfigs, faults>>
  BY Zenon DEF ReadInit
<1>2. inc[cur] /\ (cver = NoVersion <=> cur = 1) /\ on' \in HsConns
  BY <1>1, Zenon DEF HsInv, Phase, HsType
<1>3. CASE \/ HsFail("protocol") /\ UNCHANGED down
           \/ HsFail("closed") /\ UNCHANGED down
  BY <1>1, <1>2, <1>3, FailStep, Zenon
<1>4. CASE /\ down[cur] # <<>> /\ Head(down[cur]).k = "cci" /\ TakeDown(cur)
           /\ cli' = IF Founding THEN "read_resp" ELSE "attached"
           /\ UNCHANGED <<why, dead, pool>>
  <2>1. cur # 1
    <3>1. cur = 1 => down[cur] = <<Response>>
      BY <1>2, <1>4, Zenon DEF HsInv, DownStream, FoundingOk
    <3>2. Head(<<Response>>).k = "response"
      BY DEF Response
    <3>3. QED
      BY <1>4, <3>1, <3>2, Zenon
  <2>2. cli' = "attached" /\ cver # NoVersion /\ cur > 1
    BY <1>2, <1>4, <2>1, UpToCur DEF Founding
  <2>3. cur \in HsConns /\ down \in [HsConns -> Seq(Tokens)]
    BY Zenon DEF HsInv, HsType
  <2>4. /\ down' \in [HsConns -> Seq(Tokens)]
        /\ \A x \in HsConns : x # cur => down'[x] = down[x]
    BY <1>4, <2>3, Taken, Zenon DEF TakeDown
  <2>5. srv[cur] \notin Early /\ cur \notin pool
    BY <1>2, <1>4, <2>3, Zenon DEF HsInv, Workers, WorkerOk
  <2>6. Agreed' = Agreed /\ FdAgreed' = FdAgreed /\ NoCommon' = NoCommon /\ OneSided' = OneSided
        /\ Fixed' = Fixed /\ Steady' = Steady
    BY <1>1, SameAgreement, Zenon DEF hsSrvVars
  <2>7. HsType'
    <3>1. "attached" \in CliLabels
      BY Zenon DEF CliLabels
    <3>2. QED
      BY <1>1, <1>4, <2>2, <2>4, <3>1, Zenon DEF HsInv, HsType, hsSrvVars
  <2>8. Phase'
    BY <1>1, <1>4, <2>2, Zenon DEF HsInv, Phase, Sizing, Waiting, hsSrvVars
  <2>9. Versions'
    BY <1>1, <2>6, Zenon DEF HsInv, Versions, hsSrvVars
  <2>10. Workers'
    <3>1. \A x \in HsConns : WorkerOk(x)'
      BY <1>1, <2>4, <2>5, WorkerKept, Zenon DEF HsInv, Workers, hsSrvVars
    <3>2. QED
      BY <1>1, <1>4, <3>1, Zenon DEF HsInv, Workers, hsSrvVars
  <2>11. UpStream'
    BY <1>1, <1>4, <2>6, StreamKept, Zenon DEF HsInv, UpStream, Gone, hsSrvVars
  <2>12. DownStream'
    <3>1. \A x \in pool : x \in HsConns /\ down'[x] = down[x]
      BY <2>4, <2>5, Zenon DEF HsInv, HsType
    <3>2. QED
      BY <1>1, <1>4, <2>2, <3>1, ZenonT(60) DEF HsInv, DownStream, FoundingOk, RepliesOk, hsSrvVars
  <2>13. Outstanding'
    <3>1. \A x \in pool : NoRequest(x) /\ down[x] = <<>>
      BY <1>1, QuietSlots, Zenon DEF Waiting
    <3>2. \A x \in pool : SlotOk(x)'
      BY <1>1, <2>4, <2>5, <3>1, QuietIsOk, Zenon DEF HsInv, HsType
    <3>3. \A i \in 1 .. Len(up[cur]) : up[cur][i].k \in {"header", "cci"}
      BY <1>1, Zenon DEF HsInv, Outstanding
    <3>4. QED
      BY <1>1, <1>2, <1>4, <3>2, <3>3, Zenon DEF Outstanding
  <2>14. Descriptors'
    BY <1>1, <2>1, <2>2, <2>6, DescriptorsKept, Zenon DEF HsInv, Descriptors, hsSrvVars
  <2>15. Founds' /\ FoundingFailsForCause' /\ TimedOut'
    BY <1>1, <1>4, <2>2, Zenon DEF HsInv, Founds, FoundingFailsForCause, TimedOut
  <2>16. DecodedAsEncoded' /\ AdvertisedIsAccepted'
    BY <1>1, Zenon DEF HsInv, DecodedAsEncoded, AdvertisedIsAccepted, SessionAlive, hsSrvVars
  <2>17. QED
    BY <2>7, <2>8, <2>9, <2>10, <2>11, <2>12, <2>13, <2>14, <2>15, <2>16, Zenon DEF HsInv
<1>5. QED
  BY <1>3, <1>4, Zenon DEF ReadInit

\* The founding client reads the server's version.
LEMMA ReadResponseStep == ASSUME HsInv, ReadResponse PROVE HsInv'
<1>1. /\ cli = "read_resp"
      /\ UNCHANGED <<setup, cur, want, on, inc, up, hsSrvVars, smax, decoded, lost, calls, reconfigs,
                     faults>>
  BY Zenon DEF ReadResponse
<1>2. cver = NoVersion /\ ~inc[1] /\ cur = 1 /\ on' \in HsConns /\ pool = {} /\ 1 \in HsConns
  BY <1>1, UpToCur, Zenon DEF HsInv, Phase, HsType
<1>3. CASE ReadFails(cur) /\ HsFail("closed") /\ UNCHANGED <<down, cver, cfd, armed>>
  <2>1. faults > 0 \/ NoCommon
    BY <1>1, <1>2, <1>3, Zenon DEF HsInv, Founds, ReadFails
  <2>2. QED
    BY <1>1, <1>2, <1>3, <2>1, FailStep, Zenon
<1>4. CASE down[cur] # <<>>
           /\ TakeDown(cur)
           /\ LET negotiated == Head(down[cur]).val IN
              IF negotiated > setup.max \/ negotiated \notin Implemented
              THEN /\ HsFail("protocol")
                   /\ UNCHANGED <<cver, cfd, armed>>
              ELSE /\ cver' = SessionCodec(negotiated)
                   /\ cfd' = (setup.unix /\ SessionCodec(negotiated) >= 1)
                   /\ pool' = {cur}
                   /\ armed' = LiftDeadline
                   /\ cli' = IF setup.local = 1 THEN "ready" ELSE "ask_max"
                   /\ UNCHANGED <<why, dead>>
  <2>1. /\ down[1] = <<Response>> /\ Agreed \in Implemented /\ offer[1] # NoVersion
        /\ down \in [HsConns -> Seq(Tokens)] /\ WorkerOk(1) /\ StreamOk(1) /\ srv[1] \notin Early
    BY <1>2, <1>4, Zenon DEF HsInv, HsType, DownStream, FoundingOk, Workers, WorkerOk, UpStream
  <2>2. Head(down[cur]).val = Agreed
    <3>1. Head(<<Response>>) = Response
      BY DEF Response
    <3>2. Response.val = Agreed
      BY Zenon DEF Response
    <3>3. QED
      BY <1>2, <2>1, <3>1, <3>2, Zenon
  <2>3. setup.entry # "r34" /\ Agreed <= setup.max /\ Agreed \in Int /\ Agreed # NoVersion
        /\ Agreed = Least(setup.max, offer[1]) /\ Agreed >= 0
    <3>1. Agreed \in Nat
      BY <2>1, HsAssumption, Zenon
    <3>2. setup.entry # "r34"
      BY <3>1 DEF Agreed, R34Wire
    <3>3. setup \in Setups /\ offer[1] \in Offers
      BY <1>2, <2>1, Zenon DEF HsInv, HsType
    <3>4. setup.max \in Offers
      BY <3>3, Zenon DEF Setups
    <3>5. setup.max \in Int /\ offer[1] \in Int
      <4>1. \A x \in Offers : x \in Int
        BY HsAssumption
      <4>2. QED
        BY <3>3, <3>4, <4>1, Zenon
    <3>6. Agreed = Least(setup.max, offer[1])
      BY <3>2, Zenon DEF Agreed
    <3>7. Agreed <= setup.max
      BY <3>5, <3>6 DEF Least
    <3>8. QED
      BY <3>1, <3>2, <3>6, <3>7 DEF NoVersion
  <2>4. /\ cver' = Agreed /\ cfd' = (setup.unix /\ Agreed >= 1) /\ pool' = {1} /\ armed' = FALSE
        /\ cli' = IF setup.local = 1 THEN "ready" ELSE "ask_max"
        /\ UNCHANGED <<why, dead>>
    <3>1. ~(Agreed > setup.max \/ Agreed \notin Implemented)
      <4>1. setup.max \in Int
        <5>1. setup \in Setups
          BY Zenon DEF HsInv, HsType
        <5>2. setup.max \in Offers
          BY <5>1, Zenon DEF Setups
        <5>3. \A x \in Offers : x \in Int
          BY HsAssumption
        <5>4. QED
          BY <5>2, <5>3, Zenon
      <4>2. QED
        BY <2>1, <2>3, <4>1
    <3>2. QED
      BY <1>2, <1>4, <2>2, <3>1, Zenon DEF SessionCodec, LiftDeadline
  <2>5. /\ down' \in [HsConns -> Seq(Tokens)] /\ down'[1] = <<>>
        /\ \A x \in HsConns : x # 1 => down'[x] = down[x]
    <3>1. down' = [down EXCEPT ![1] = Tail(@)]
      BY <1>2, <1>4, Zenon DEF TakeDown
    <3>2. Tail(<<Response>>) = <<>>
      OBVIOUS
    <3>3. down[1] # <<>>
      BY <1>2, <1>4, Zenon
    <3>4. QED
      BY <1>2, <2>1, <3>1, <3>2, <3>3, Taken, Zenon
  <2>6. Agreed' = Agreed /\ FdAgreed' = FdAgreed /\ NoCommon' = NoCommon /\ OneSided' = OneSided
        /\ Fixed' = Fixed /\ Steady' = Steady
    BY <1>1, SameAgreement, Zenon DEF hsSrvVars
  <2>7. HsType'
    <3>1. cli' \in CliLabels /\ {1} \subseteq HsConns /\ cfd' \in BOOLEAN
      BY <1>2, <2>4, Zenon DEF CliLabels
    <3>2. QED
      BY <1>1, <2>3, <2>4, <2>5, <3>1, Zenon DEF HsInv, HsType, hsSrvVars
  <2>8. Phase'
    <3>1. /\ cli' \notin Waiting
          /\ cli' \notin {"connect", "ask_id", "wait_id", "read_init", "read_resp", "attached", "failed"}
          /\ ~(cur > 1) /\ cli' # "wait_fd"
      BY <1>2, <2>4 DEF Waiting
    <3>2. cli' \in Sizing => setup.local > 1
      <4>1. setup.local \in 1 .. MaxConns
        BY Zenon DEF HsInv, HsType, Setups
      <4>2. QED
        BY <2>4, <4>1, HsAssumption DEF Sizing
    <3>3. QED
      BY <1>1, <1>2, <2>3, <2>4, <3>1, <3>2, Zenon DEF HsInv, Phase, hsSrvVars
  <2>9. Versions'
    BY <1>1, <2>1, <2>3, <2>4, <2>6, Zenon DEF HsInv, Versions, hsSrvVars
  <2>10. Workers'
    <3>1. \A x \in HsConns : WorkerOk(x)'
      BY <1>1, <2>5, WorkerKept, Zenon DEF HsInv, Workers, hsSrvVars
    <3>2. srv[1] # "idle" /\ 1 <= cur /\ \A x \in {1} : x = 1
      BY <1>2, <2>1 DEF Early
    <3>3. QED
      BY <1>1, <1>2, <2>4, <3>1, <3>2, Zenon DEF HsInv, Workers, hsSrvVars
  <2>11. UpStream'
    <3>1. StreamOk(1)'
      <4>1. Gone(1)' = Gone(1) /\ Header(1)' = Header(1) /\ Cci(1)' = Cci(1)
        BY <1>1, Zenon DEF Gone, Header, Cci, Version, hsSrvVars
      <4>2. \A x : ~MsgOk(x)
        BY <1>2, Zenon DEF MsgOk
      <4>3. \A i : UpOk(1, i) => UpOk(1, i)'
        BY <1>1, <4>1, <4>2, Zenon DEF UpOk
      <4>4. QED
        BY <1>1, <2>1, <2>4, <4>1, <4>3, Zenon DEF StreamOk, hsSrvVars
    <3>2. \A x \in HsConns : x # 1 => srv[x] = "idle"
      BY <1>2, UpToCur DEF HsConns, HsInv, Workers, WorkerOk
    <3>3. "idle" \notin Reading
      BY DEF Reading, Serving
    <3>4. QED
      BY <1>1, <3>1, <3>2, <3>3, Zenon DEF UpStream, StreamOk, hsSrvVars
  <2>12. DownStream'
    <3>1. RepliesOk(1)'
      BY <2>5 DEF RepliesOk
    <3>2. \A x \in pool' : x = 1
      BY <2>4, Zenon
    <3>3. QED
      BY <2>3, <2>4, <3>1, <3>2, Zenon DEF DownStream, FoundingOk
  <2>13. Outstanding'
    <3>1. NoRequest(1)
      <4>1. \A i \in 1 .. Len(up[1]) : up[1][i].k \in {"header", "cci"}
        BY <1>2, Zenon DEF HsInv, Outstanding
      <4>2. \A x \in {"header", "cci"} : x \notin Requests
        BY Zenon DEF Requests
      <4>3. QED
        BY <4>1, <4>2, Zenon DEF NoRequest
    <3>2. SlotOk(1)'
      BY <1>1, <1>2, <2>5, <3>1, QuietIsOk, Zenon
    <3>3. \A x \in pool' : x = 1
      BY <2>4
    <3>4. cver' # NoVersion /\ cli' \notin {"read_init", "attached"}
      BY <2>3, <2>4, Zenon
    <3>5. QED
      BY <3>2, <3>3, <3>4, Zenon DEF Outstanding
  <2>14. Descriptors'
    <3>1. cfd' => FdAgreed
      BY <2>4, Zenon DEF FdAgreed
    <3>2. cli' # "wait_fd"
      BY <2>4, Zenon
    <3>3. Will' = Will
      BY <1>1, <2>6, WillKept, Zenon DEF hsSrvVars
    <3>4. ~OneSided /\ cfd' => Fixed
      BY <2>4, Zenon DEF OneSided, Fixed
    <3>5. ~Replied' /\ (Alone /\ Fixed => Will)
      BY <1>2, <3>2, Zenon DEF Alone, Replied
    <3>6. ASSUME ~OneSided, Alone PROVE Alone'
      <4>1. cfd' => Will
        BY <3>4, <3>5, <3>6, Zenon
      <4>2. UNCHANGED <<dead, up, srv>> /\ Fixed' = Fixed
        BY <1>1, <2>4, <2>6, Zenon DEF hsSrvVars
      <4>3. QED
        BY <1>2, <3>3, <3>5, <3>6, <4>1, <4>2, AloneKept, Zenon
    <3>7. QED
      BY <1>1, <2>3, <2>4, <2>6, <3>1, <3>6, UpToCur, DescriptorsKept, Zenon DEF HsInv, hsSrvVars
  <2>15. Founds' /\ FoundingFailsForCause'
    BY <2>3, <2>4, Zenon DEF Founds, FoundingFailsForCause
  <2>16. TimedOut'
    BY <1>1, <2>4, Zenon DEF HsInv, TimedOut
  <2>17. DecodedAsEncoded' /\ AdvertisedIsAccepted'
    BY <1>1, Zenon DEF HsInv, DecodedAsEncoded, AdvertisedIsAccepted, SessionAlive, hsSrvVars
  <2>18. QED
    BY <2>7, <2>8, <2>9, <2>10, <2>11, <2>12, <2>13, <2>14, <2>15, <2>16, <2>17, Zenon DEF HsInv
<1>5. QED
  BY <1>3, <1>4, Zenon DEF ReadResponse

\* add_outgoing_slot and the next turn of the fan-out.
LEMMA AttachDoneStep == ASSUME HsInv, AttachDone PROVE HsInv'
<1>1. /\ cli = "attached" /\ pool' = (IF inc[cur] THEN pool ELSE pool \union {cur})
      /\ IF cur < Last THEN cur' = cur + 1 /\ cli' = "connect" ELSE cur' = cur /\ cli' = "ready"
      /\ UNCHANGED <<setup, want, cver, cfd, on, armed, why, netVars, hsSrvVars, smax, decoded, lost,
                     calls, reconfigs, faults>>
  BY Zenon DEF AttachDone
<1>2. cur > 1 /\ cver # NoVersion /\ cur \in HsConns /\ sver = cver
  BY <1>1, Zenon DEF HsInv, Phase, HsType
<1>3. /\ cur' \in HsConns /\ cur' >= cur /\ cur' > 1 /\ (cli' = "connect" => cur' > cur)
      /\ (setup.entry = "a13" => cur' <= want) /\ cli' \in {"connect", "ready"}
  <2>1. want \in 1 .. MaxConns /\ cur \in Nat /\ MaxConns \in Nat
    BY UpToCur, HsAssumption, Zenon DEF HsInv, HsType
  <2>2. Last <= 2 * MaxConns /\ Last \in Int /\ (setup.entry = "a13" => Last = want)
    BY <2>1 DEF Last, Least
  <2>3. setup.entry = "a13" => cur <= want
    BY Zenon DEF HsInv, Phase
  <2>4. QED
    BY <1>1, <1>2, <2>1, <2>2, <2>3 DEF HsConns
<1>4. cli' = "connect" => srv[cur'] = "idle"
  BY <1>3, Zenon DEF HsInv, Workers, WorkerOk
<1>5. srv[cur] # "idle"
  BY <1>1, Zenon DEF HsInv, Phase
<1>6. Agreed' = Agreed /\ FdAgreed' = FdAgreed /\ NoCommon' = NoCommon /\ OneSided' = OneSided
      /\ Fixed' = Fixed /\ Steady' = Steady
  BY <1>1, SameAgreement, Zenon DEF hsSrvVars
<1>7. HsType'
  <2>1. cli' \in CliLabels /\ pool' \subseteq HsConns
    BY <1>1, <1>2, <1>3, Zenon DEF CliLabels, HsInv, HsType
  <2>2. QED
    BY <1>1, <1>3, <2>1, Zenon DEF HsInv, HsType, hsSrvVars, netVars
<1>8. Phase'
  <2>1. cli' \notin Sizing /\ cli' \notin Waiting /\ cur' # 1 /\ cur' > 1
        /\ cli' \notin {"ask_id", "wait_id", "read_init", "read_resp", "attached", "failed"}
    BY <1>3 DEF Sizing, Waiting
  <2>2. cur > 1 => setup.local > 1 /\ sver = cver
    BY Zenon DEF HsInv, Phase
  <2>3. QED
    BY <1>1, <1>2, <1>3, <1>4, <2>1, <2>2, Zenon DEF HsInv, Phase, hsSrvVars, netVars
<1>9. Versions'
  BY <1>1, <1>6, Zenon DEF HsInv, Versions, hsSrvVars
<1>10. Workers'
  <2>1. cur \in Nat /\ HsConns \subseteq Nat /\ cur' \in Nat
    BY <1>3, UpToCur, Zenon
  <2>2. \A x \in HsConns : (x > cur' => x > cur) /\ (x <= cur => x <= cur')
    BY <1>3, <2>1
  <2>3. \A x \in HsConns : WorkerOk(x)'
    BY <1>1, <2>2, WorkerKept, Zenon DEF HsInv, Workers, hsSrvVars, netVars
  <2>4. \A x \in pool' : x \in pool \/ (x = cur /\ ~inc[cur])
    BY <1>1, Zenon
  <2>5. cur <= cur' /\ pool \subseteq HsConns
    BY <1>3, <2>1, Zenon DEF HsInv, HsType
  <2>6. QED
    BY <1>1, <1>5, <2>2, <2>3, <2>4, <2>5, Zenon DEF HsInv, Workers, hsSrvVars, netVars
<1>11. UpStream'
  BY <1>1, <1>6, StreamKept, Zenon DEF HsInv, UpStream, Gone, hsSrvVars, netVars
<1>12. ~inc[cur] => down[cur] = <<>> /\ NoRequest(cur)
  <2>1. /\ ~inc[cur] => down[cur] = <<>>
        /\ \A i \in 1 .. Len(up[cur]) : up[cur][i].k \in {"header", "cci"}
    BY <1>1, Zenon DEF HsInv, Outstanding
  <2>2. \A x \in {"header", "cci"} : x \notin Requests
    BY DEF Requests
  <2>3. QED
    BY <2>1, <2>2, Zenon DEF NoRequest
<1>13. \A x \in pool' : x \in HsConns /\ NoRequest(x) /\ down[x] = <<>>
  <2>1. \A x \in pool : x \in HsConns /\ NoRequest(x) /\ down[x] = <<>>
    BY <1>1, QuietSlots, Zenon DEF Waiting, HsInv, HsType
  <2>2. QED
    BY <1>1, <1>2, <1>12, <2>1, Zenon
<1>14. DownStream'
  <2>1. \A x \in pool' : down'[x] = <<>>
    BY <1>1, <1>13, Zenon DEF netVars
  <2>2. \A x \in pool' : RepliesOk(x)'
    BY <2>1 DEF RepliesOk
  <2>3. QED
    BY <1>1, <1>2, <2>2, Zenon DEF DownStream, FoundingOk
<1>15. Outstanding'
  <2>1. \A x \in pool' : SlotOk(x)'
    BY <1>1, <1>13, QuietIsOk, Zenon DEF netVars
  <2>2. cli' \notin {"read_init", "attached"} /\ cver' # NoVersion
    BY <1>1, <1>2, <1>3, Zenon
  <2>3. QED
    BY <2>1, <2>2, Zenon DEF Outstanding
<1>16. Descriptors'
  <2>1. cur' # 1 /\ cur' > 1
    BY <1>3
  <2>2. QED
    BY <1>1, <1>6, <2>1, DescriptorsKept, Zenon DEF HsInv, Descriptors, hsSrvVars
<1>17. Founds' /\ FoundingFailsForCause' /\ TimedOut'
  BY <1>1, <1>2, Zenon DEF HsInv, Founds, FoundingFailsForCause, TimedOut
<1>18. AdvertisedIsAccepted'
  <2>1. \A x \in 2 .. cur' : x \in 2 .. cur \/ (cli' = "connect" /\ x = cur')
    BY <1>1, <1>3, UpToCur
  <2>2. cli' = "connect" => srv[cur'] # "refused"
    BY <1>4, Zenon
  <2>3. QED
    BY <1>1, <2>1, <2>2, Zenon DEF HsInv, AdvertisedIsAccepted, SessionAlive, hsSrvVars
<1>19. DecodedAsEncoded'
  BY <1>1, Zenon DEF HsInv, DecodedAsEncoded
<1>20. QED
  BY <1>7, <1>8, <1>9, <1>10, <1>11, <1>14, <1>15, <1>16, <1>17, <1>18, <1>19, Zenon DEF HsInv
=============================================================================
