--------------------------- MODULE HandshakeProofs ---------------------------
(***************************************************************************)
(* The steps of the server's workers, the upsets of a running session and  *)
(* the theorems about RpcHandshake: HsInv, which HandshakeClientProofs     *)
(* defines, is inductive, and HandshakeAgrees follows from it.  SetupEnds  *)
(* is left to TLC.                                                         *)
(***************************************************************************)
EXTENDS HandshakeClientProofs

\* A server step that leaves the founding connection as it was.
LEMMA AloneServed ==
    ASSUME Alone, Will' = Will, Fixed' = Fixed, UNCHANGED cliVars, 1 \in dead => 1 \in dead',
           down'[1] = down[1] \/ 1 \in dead', srv'[1] \in Reading => srv[1] \in Reading,
           \A i \in 1 .. Len(up'[1]) : \E j \in 1 .. Len(up[1]) : up'[1][i] = up[1][j]
    PROVE  Alone'
<1>1. 1 \notin dead' => 1 \notin dead /\ Replied' = Replied /\ down'[1] = down[1]
  BY Zenon DEF Replied, cliVars
<1>2. 1 \notin dead' /\ ~Replied' /\ cfd' => Will
  BY <1>1, Zenon DEF Alone, cliVars
<1>3. 1 \notin dead' /\ Replied' => down'[1][1].val # 1 \/ Will
  BY <1>1, Zenon DEF Alone
<1>4. \A i \in 1 .. Len(up'[1]) : up'[1][i].k = "fd" =>
          Will \/ \E j \in 1 .. Len(up[1]) : up[1][j].k = "fd"
  BY Zenon
<1>5. QED
  BY <1>1, <1>2, <1>3, <1>4, AloneKept, Zenon DEF cliVars

\* set_android13plus on a running server.
LEMMA ReconfigureStep == ASSUME HsInv, Reconfigure PROVE HsInv'
<1>1. /\ reconfigs + faults < MaxUpsets /\ setup.entry # "r34"
      /\ smax' \in Offers /\ reconfigs' = reconfigs + 1
      /\ UNCHANGED <<setup, cliVars, hsSrvVars, netVars, decoded, lost, calls, faults>>
  BY Zenon DEF Reconfigure
<1>2. reconfigs' # 0
  BY <1>1 DEF HsInv, HsType
<1>3. /\ Agreed' = Agreed /\ FdAgreed' = FdAgreed /\ NoCommon' = NoCommon /\ OneSided' = OneSided
      /\ Fixed' = Fixed /\ Steady' = Steady
  BY <1>1, SameAgreement, Zenon DEF hsSrvVars
<1>4. HsType'
  BY <1>1 DEF HsInv, HsType, cliVars, hsSrvVars, netVars
<1>5. Phase'
  BY <1>1, <1>3, Zenon DEF HsInv, Phase, cliVars, hsSrvVars, netVars
<1>6. Versions'
  BY <1>1, <1>2, <1>3, Zenon DEF HsInv, Versions, cliVars, hsSrvVars, netVars
<1>7. Workers'
  BY <1>1, <1>3, Zenon DEF HsInv, Workers, WorkerOk, cliVars, hsSrvVars, netVars
<1>8. UpStream'
  BY <1>1, <1>3, StreamKept, Zenon DEF HsInv, UpStream, Gone, cliVars, hsSrvVars, netVars
<1>9. DownStream'
  BY <1>1, <1>3, Zenon DEF HsInv, DownStream, FoundingOk, RepliesOk, Response, cliVars,
     hsSrvVars, netVars
<1>10. Outstanding'
  BY <1>1, <1>3, SlotKept, Zenon DEF HsInv, HsType, Outstanding, cliVars, hsSrvVars, netVars
<1>11. Descriptors'
  <2>1. Will' = Will
    BY <1>1, <1>3, WillKept, Zenon DEF hsSrvVars
  <2>2. Alone => Alone'
    BY <1>1, <1>3, <2>1, AloneServed, Zenon DEF hsSrvVars, netVars
  <2>3. QED
    BY <1>1, <1>3, <2>2, DescriptorsKept, Zenon DEF HsInv, Descriptors, cliVars, hsSrvVars
<1>12. Founds'
  BY <1>1, <1>3, Zenon DEF HsInv, Founds, cliVars, hsSrvVars, netVars
<1>13. DecodedAsEncoded' /\ FoundingFailsForCause' /\ AdvertisedIsAccepted' /\ TimedOut'
  BY <1>1, <1>2, Zenon DEF HsInv, DecodedAsEncoded, FoundingFailsForCause, AdvertisedIsAccepted,
     SessionAlive, TimedOut, cliVars, hsSrvVars, netVars
<1>14. QED
  BY <1>4, <1>5, <1>6, <1>7, <1>8, <1>9, <1>10, <1>11, <1>12, <1>13, Zenon DEF HsInv

\* The worker reads wire_max_version: only now does the founding have a version.
LEMMA AcceptStep == ASSUME HsInv, NEW c \in HsConns, Accept(c) PROVE HsInv'
<1>1. /\ srv[c] = "accept" /\ srv' = [srv EXCEPT ![c] = "header"]
      /\ offer' = [offer EXCEPT ![c] = smax]
      /\ UNCHANGED <<setup, cliVars, netVars, sver, sfd, slots, rmode, smax, decoded, lost, calls,
                     reconfigs, faults>>
  BY Zenon DEF Accept
<1>2. /\ srv'[c] = "header" /\ offer'[c] = smax /\ smax # NoVersion /\ offer[c] = NoVersion
      /\ \A x \in HsConns : x # c => srv'[x] = srv[x] /\ offer'[x] = offer[x]
  BY <1>1, HsAssumption DEF HsInv, HsType, Workers, WorkerOk, NoVersion
<1>3. 1 \in HsConns
  BY HsAssumption DEF HsConns
<1>4. c # 1 \/ setup.entry = "r34" \/ (cver = NoVersion /\ sver = NoVersion)
  BY <1>1, Zenon DEF HsInv, Versions, Early
<1>5. c # 1 => Agreed' = Agreed /\ FdAgreed' = FdAgreed /\ NoCommon' = NoCommon /\ Fixed' = Fixed
  BY <1>1, <1>2, <1>3 DEF Agreed, FdAgreed, NoCommon, Fixed, cliVars, netVars
<1>6. cver # NoVersion \/ sver # NoVersion => Agreed' = Agreed /\ FdAgreed' = FdAgreed
  BY <1>1, <1>4, <1>5, Zenon DEF Agreed, FdAgreed, cliVars, netVars
<1>7. OneSided' = OneSided /\ Steady' = Steady
  BY <1>1, Zenon DEF OneSided, Steady
<1>8. HsType'
  BY <1>1, Zenon DEF HsInv, HsType, SrvLabels, cliVars, netVars
<1>9. Phase'
  BY <1>1, <1>2, <1>7, Zenon DEF HsInv, HsType, Phase, cliVars, netVars
<1>10. Versions'
  <2>1. cver' \in {NoVersion, Agreed'} /\ sver' \in {NoVersion, Agreed'}
    BY <1>1, <1>6, Zenon DEF HsInv, Versions, cliVars
  <2>2. srv'[1] = "new_init" => c # 1
    BY <1>2, Zenon
  <2>3. setup.entry # "r34" /\ (cver # NoVersion \/ sver # NoVersion \/ srv'[1] = "new_init") => c # 1
    BY <1>4, <2>2, Zenon
  <2>4. QED
    BY <1>1, <1>2, <1>3, <1>5, <2>1, <2>3, Zenon DEF HsInv, Versions, cliVars
<1>11. Workers'
  <2>1. /\ srv'[c] \notin {"idle", "accept", "new_init", "attach_init", "to_unix", "to_none"}
                           \union (Serving \union {"callback"})
        /\ srv[c] \in Early /\ srv[c] \notin Serving \union {"callback"} /\ srv[c] # "idle"
    BY <1>1, <1>2, Zenon DEF Serving, Early
  <2>2. WorkerOk(c)
    BY Zenon DEF HsInv, Workers
  <2>3. WorkerOk(c)'
    BY <1>1, <1>2, <2>1, <2>2, Zenon DEF WorkerOk, cliVars, netVars
  <2>4. \A x \in HsConns : x # c => WorkerOk(x)'
    BY <1>1, <1>2, WorkerKept, Zenon DEF HsInv, Workers, cliVars, netVars
  <2>5. QED
    BY <1>1, <1>2, <2>1, <2>3, <2>4, Zenon DEF HsInv, HsType, Workers, cliVars, netVars
<1>12. UpStream'
  <2>1. \A x \in HsConns : Gone(x)' = Gone(x) /\ (srv'[x] \in Reading => srv[x] \in Reading)
    BY <1>1, <1>2, Zenon DEF Gone, Reading
  <2>2. QED
    BY <1>1, <1>6, <2>1, StreamKept, Zenon DEF HsInv, UpStream, cliVars, netVars
<1>13. DownStream'
  <2>1. c = 1 => down[1] = <<>>
    BY <1>1, Zenon DEF HsInv, Workers, WorkerOk, Early
  <2>2. QED
    BY <1>1, <1>2, <1>3, <1>5, <2>1, Zenon DEF HsInv, DownStream, FoundingOk, RepliesOk,
       Response, cliVars, netVars
<1>14. Outstanding'
  <2>1. \A x \in pool : x \in HsConns /\ cver # NoVersion
    BY Zenon DEF HsInv, HsType, Phase
  <2>2. \A x \in pool : SlotOk(x)'
    BY <1>1, <1>6, <2>1, SlotKept, Zenon DEF HsInv, Outstanding, cliVars, netVars
  <2>3. QED
    BY <1>1, <2>2, Zenon DEF HsInv, Outstanding, cliVars, netVars
<1>15. Descriptors'
  <2>1. CASE c # 1
    <3>1. srv'[1] = srv[1] /\ Fixed' = Fixed /\ FdAgreed' = FdAgreed
      BY <1>2, <1>3, <1>5, <2>1, Zenon
    <3>2. Will' = Will
      BY <1>1, <3>1, WillKept, Zenon
    <3>3. Alone => Alone'
      BY <1>1, <3>1, <3>2, AloneServed, Zenon DEF netVars
    <3>4. \A x \in HsConns : srv'[x] = "recv" => srv[x] = "recv" /\ rmode'[x] = rmode[x]
      BY <1>1, <1>2, Zenon
    <3>5. QED
      BY <1>1, <1>7, <3>1, <3>3, <3>4, DescriptorsKept, Zenon DEF HsInv, Descriptors, cliVars
  <2>2. CASE c = 1
    <3>1. cver = NoVersion /\ sver = NoVersion /\ cli # "wait_fd" /\ cur = 1 /\ ~cfd
      <4>1. setup.entry # "r34"
        BY <1>1, Zenon DEF HsInv, Workers, WorkerOk
      <4>2. QED
        BY <1>4, <2>2, <4>1, Zenon DEF HsInv, Phase, Descriptors
    <3>2. Will' = Fixed'
      BY <1>2, <2>2, Zenon DEF Will
    <3>3. \A i \in 1 .. Len(up[1]) : up[1][i].k # "fd"
      BY <3>1, Zenon DEF HsInv, Outstanding
    <3>4. Alone'
      BY <1>1, <3>1, <3>2, <3>3, Zenon DEF Alone, Replied, cliVars, netVars
    <3>5. \A x \in HsConns : srv'[x] = "recv" => srv[x] = "recv" /\ rmode'[x] = rmode[x]
      BY <1>1, <1>2, Zenon
    <3>6. QED
      BY <1>1, <1>7, <3>1, <3>4, <3>5, Zenon DEF HsInv, Descriptors, FdLostOnlyAcross, cliVars
  <2>3. QED
    BY <2>1, <2>2, Zenon
<1>16. Founds'
  BY <1>1, <1>2, <1>5, Zenon DEF HsInv, Founds, NoCommon, cliVars, netVars
<1>17. FoundingFailsForCause'
  <2>1. offer[1] # NoVersion => offer'[1] = offer[1]
    BY <1>2, <1>3, Zenon
  <2>2. QED
    BY <1>1, <2>1, Zenon DEF HsInv, FoundingFailsForCause, cliVars, netVars
<1>18. AdvertisedIsAccepted'
  <2>1. SessionAlive' => SessionAlive
    BY <1>2, Zenon DEF SessionAlive
  <2>2. \A x \in HsConns : srv'[x] = "refused" => srv[x] = "refused"
    BY <1>2, Zenon
  <2>3. QED
    BY <1>1, <2>1, <2>2, AcceptedKept, Zenon DEF cliVars
<1>19. DecodedAsEncoded' /\ TimedOut'
  BY <1>1, Zenon DEF HsInv, DecodedAsEncoded, TimedOut, cliVars
<1>20. QED
  BY <1>8, <1>9, <1>10, <1>11, <1>12, <1>13, <1>14, <1>15, <1>16, <1>17, <1>18, <1>19, Zenon
     DEF HsInv

\* A worker whose peer is gone.
LEMMA WorkerEndsStep == ASSUME HsInv, NEW c \in HsConns, WorkerEnds(c) PROVE HsInv'
<1>1. /\ srv[c] \in {"header", "new_init", "attach_init", "recv"} /\ c \in dead
      /\ srv' = [srv EXCEPT ![c] = "ended"] /\ slots' = slots \ {c}
      /\ UNCHANGED <<setup, cliVars, netVars, offer, sver, sfd, rmode, smax, decoded, lost, calls,
                     reconfigs, faults>>
  BY Zenon DEF WorkerEnds
<1>2. /\ srv'[c] = "ended" /\ srv[c] # "idle"
      /\ \A x \in HsConns : x # c => srv'[x] = srv[x]
  BY <1>1, Zenon DEF HsInv, HsType
<1>3. Agreed' = Agreed /\ FdAgreed' = FdAgreed /\ NoCommon' = NoCommon /\ OneSided' = OneSided
      /\ Fixed' = Fixed /\ Steady' = Steady
  BY <1>1, SameAgreement, Zenon
<1>4. 1 \in HsConns /\ (srv'[1] = "ended" \/ srv'[1] = srv[1])
  BY <1>2, HsAssumption DEF HsConns
<1>5. HsType'
  BY <1>1, Zenon DEF HsInv, HsType, SrvLabels, cliVars, netVars
<1>6. Phase'
  BY <1>1, <1>2, <1>3, Zenon DEF HsInv, HsType, Phase, cliVars, netVars
<1>7. Versions'
  <2>1. srv'[1] # "new_init" \/ srv'[1] = srv[1]
    BY <1>4, Zenon
  <2>2. srv[1] \notin Early => srv'[1] \notin Early
    BY <1>4, Zenon DEF Early
  <2>3. QED
    BY <1>1, <1>3, <2>1, <2>2, Zenon DEF HsInv, Versions, cliVars
<1>8. Workers'
  <2>1. srv'[c] \notin {"idle", "accept", "header", "new_init", "attach_init", "to_unix", "to_none"}
                         \union (Serving \union {"callback"}) \union Early
    BY <1>2, Zenon DEF Serving, Early
  <2>2. WorkerOk(c)
    BY Zenon DEF HsInv, Workers
  <2>3. WorkerOk(c)'
    BY <1>1, <1>2, <2>1, <2>2, Zenon DEF WorkerOk, cliVars, netVars
  <2>4. \A x \in HsConns : x # c => WorkerOk(x)'
    BY <1>1, <1>2, WorkerKept, Zenon DEF HsInv, Workers, cliVars, netVars
  <2>5. QED
    BY <1>1, <1>2, <2>1, <2>3, <2>4, Zenon DEF HsInv, HsType, Workers, cliVars, netVars
<1>9. UpStream'
  <2>1. StreamOk(c)'
    BY <1>2, Zenon DEF StreamOk, Reading, Serving
  <2>2. \A x \in HsConns : x # c => Gone(x)' = Gone(x)
    BY <1>2, Zenon DEF Gone
  <2>3. \A x \in HsConns : x # c => StreamOk(x)'
    BY <1>1, <1>2, <1>3, <2>2, StreamKept, Zenon DEF HsInv, UpStream, cliVars, netVars
  <2>4. QED
    BY <2>1, <2>3, Zenon DEF UpStream
<1>10. DownStream'
  BY <1>1, <1>3, Zenon DEF HsInv, DownStream, FoundingOk, RepliesOk, Response, cliVars, netVars
<1>11. Outstanding'
  <2>1. \A x \in pool : SlotOk(x)'
    BY <1>1, <1>3, SlotKept, Zenon DEF HsInv, HsType, Outstanding, cliVars, netVars
  <2>2. QED
    BY <1>1, <2>1, Zenon DEF HsInv, Outstanding, cliVars, netVars
<1>12. Descriptors'
  <2>1. Alone => Alone'
    <3>1. CASE c = 1
      <4>1. Will' = Fixed' /\ srv'[1] \notin Reading /\ 1 \in dead'
        BY <1>1, <1>2, <3>1, Zenon DEF Will, Reading, Serving, netVars
      <4>2. QED
        BY <4>1, Zenon DEF Alone
    <3>2. CASE c # 1
      <4>1. srv'[1] = srv[1]
        BY <1>2, <1>4, <3>2, Zenon
      <4>2. Will' = Will
        BY <1>1, <1>3, <4>1, WillKept, Zenon
      <4>3. QED
        BY <1>1, <1>3, <4>1, <4>2, AloneServed, Zenon DEF netVars
    <3>3. QED
      BY <3>1, <3>2, Zenon
  <2>2. \A x \in HsConns : srv'[x] = "recv" => srv[x] = "recv" /\ rmode'[x] = rmode[x]
    BY <1>1, <1>2, Zenon
  <2>3. QED
    BY <1>1, <1>3, <2>1, <2>2, DescriptorsKept, Zenon DEF HsInv, Descriptors, cliVars
<1>13. Founds'
  BY <1>1, <1>3, Zenon DEF HsInv, Founds, cliVars, netVars
<1>14. AdvertisedIsAccepted'
  <2>1. SessionAlive' => SessionAlive
    BY <1>1, <1>2, Zenon DEF SessionAlive
  <2>2. \A x \in HsConns : srv'[x] = "refused" => srv[x] = "refused"
    BY <1>2, Zenon
  <2>3. QED
    BY <1>1, <2>1, <2>2, AcceptedKept, Zenon DEF cliVars
<1>15. DecodedAsEncoded' /\ TimedOut' /\ FoundingFailsForCause'
  BY <1>1, Zenon DEF HsInv, DecodedAsEncoded, TimedOut, FoundingFailsForCause, cliVars, netVars
<1>16. QED
  BY <1>5, <1>6, <1>7, <1>8, <1>9, <1>10, <1>11, <1>12, <1>13, <1>14, <1>15, Zenon DEF HsInv

\* GET_FD_MODE after its reply.
LEMMA SwitchFdModeStep == ASSUME HsInv, NEW c \in HsConns, SwitchFdMode(c) PROVE HsInv'
<1>1. /\ srv[c] \in {"to_unix", "to_none"} /\ sfd' = (srv[c] = "to_unix")
      /\ rmode' = [rmode EXCEPT ![c] = (srv[c] = "to_unix")]
      /\ srv' = [srv EXCEPT ![c] = "recv"]
      /\ UNCHANGED <<setup, cliVars, netVars, offer, sver, slots, smax, decoded, lost, calls,
                     reconfigs, faults>>
  BY Zenon DEF SwitchFdMode
<1>2. /\ srv'[c] = "recv" /\ srv[c] # "idle" /\ rmode'[c] = sfd'
      /\ \A x \in HsConns : x # c => srv'[x] = srv[x]
  BY <1>1, Zenon DEF HsInv, HsType
<1>3. Agreed' = Agreed /\ FdAgreed' = FdAgreed /\ NoCommon' = NoCommon /\ OneSided' = OneSided
      /\ Fixed' = Fixed /\ Steady' = Steady
  BY <1>1, SameAgreement, Zenon
<1>4. 1 \in HsConns /\ (c # 1 => srv'[1] = srv[1])
  BY <1>2, UpToCur, Zenon
<1>5. HsType'
  BY <1>1, Zenon DEF HsInv, HsType, SrvLabels, cliVars, netVars
<1>6. Phase'
  BY <1>1, <1>2, <1>3, Zenon DEF HsInv, HsType, Phase, cliVars, netVars
<1>7. Versions'
  <2>1. srv'[1] # "new_init" \/ srv'[1] = srv[1]
    BY <1>2, <1>4, Zenon
  <2>2. srv[1] \notin Early => srv'[1] \notin Early
    BY <1>2, <1>4, Zenon DEF Early
  <2>3. QED
    BY <1>1, <1>3, <2>1, <2>2, Zenon DEF HsInv, Versions, cliVars
<1>8. Workers'
  <2>1. /\ srv'[c] \notin {"idle", "accept", "header", "new_init", "attach_init", "to_unix", "to_none"}
                         \union Early
        /\ srv'[c] \in Serving \union {"callback"} /\ srv[c] \in Serving \union {"callback"}
    BY <1>1, <1>2, Zenon DEF Serving, Early
  <2>2. WorkerOk(c)
    BY Zenon DEF HsInv, Workers
  <2>3. WorkerOk(c)'
    BY <1>1, <1>2, <2>1, <2>2, Zenon DEF WorkerOk, cliVars, netVars
  <2>4. \A x \in HsConns : x # c => WorkerOk(x)'
    BY <1>1, <1>2, WorkerKept, Zenon DEF HsInv, Workers, cliVars, netVars
  <2>5. QED
    BY <1>1, <1>2, <2>1, <2>3, <2>4, Zenon DEF HsInv, HsType, Workers, cliVars, netVars
<1>9. UpStream'
  <2>1. \A x \in HsConns : Gone(x)' = Gone(x) /\ (srv'[x] \in Reading => srv[x] \in Reading)
    BY <1>1, <1>2, Zenon DEF Gone, Reading, Serving
  <2>2. QED
    BY <1>1, <1>3, <2>1, StreamKept, Zenon DEF HsInv, UpStream, cliVars, netVars
<1>10. DownStream'
  BY <1>1, <1>3, Zenon DEF HsInv, DownStream, FoundingOk, RepliesOk, Response, cliVars, netVars
<1>11. Outstanding'
  <2>1. \A x \in pool : SlotOk(x)'
    BY <1>1, <1>3, SlotKept, Zenon DEF HsInv, HsType, Outstanding, cliVars, netVars
  <2>2. QED
    BY <1>1, <2>1, Zenon DEF HsInv, Outstanding, cliVars, netVars
<1>12. Descriptors'
  <2>1. cur = 1 => c = 1 /\ \A x \in HsConns : x = 1 \/ srv'[x] = "idle"
    <3>1. cur = 1 => c = 1 /\ \A x \in HsConns : x = 1 \/ x > cur
      BY <1>2, UpToCur DEF HsInv, Workers, WorkerOk, HsConns
    <3>2. QED
      BY <1>2, <3>1, Zenon DEF HsInv, Workers, WorkerOk
  <2>2. (sfd' => sver # 0) /\ ~Steady /\ sver # NoVersion
    BY <1>1, Zenon DEF HsInv, Workers, WorkerOk, Serving
  <2>3. ASSUME cur = 1, Alone PROVE Alone'
    <3>1. c = 1 /\ rmode'[1] = (srv[1] = "to_unix") /\ srv'[1] = "recv"
      BY <1>1, <1>2, <2>1, <2>3, Zenon
    <3>2. Will' = Will
      BY <1>1, <3>1, Zenon DEF Will
    <3>3. srv[1] \in Reading
      BY <1>1, <3>1, Zenon DEF Reading, Serving
    <3>4. QED
      BY <1>1, <1>3, <2>3, <3>2, <3>3, AloneServed, Zenon DEF netVars
  <2>4. \A x \in HsConns : cur = 1 /\ srv'[x] = "recv" => rmode'[x] = sfd'
    BY <1>2, <2>1, Zenon
  <2>5. QED
    BY <1>1, <1>3, <2>2, <2>3, <2>4, Zenon DEF HsInv, Descriptors, FdLostOnlyAcross, cliVars
<1>13. Founds'
  BY <1>1, <1>3, Zenon DEF HsInv, Founds, cliVars, netVars
<1>14. AdvertisedIsAccepted'
  <2>1. SessionAlive' => SessionAlive
    BY <1>1, <1>2, Zenon DEF SessionAlive
  <2>2. \A x \in HsConns : srv'[x] = "refused" => srv[x] = "refused"
    BY <1>2, Zenon
  <2>3. QED
    BY <1>1, <2>1, <2>2, AcceptedKept, Zenon DEF cliVars
<1>15. DecodedAsEncoded' /\ TimedOut' /\ FoundingFailsForCause'
  BY <1>1, Zenon DEF HsInv, DecodedAsEncoded, TimedOut, FoundingFailsForCause,
     cliVars, netVars
<1>16. QED
  BY <1>5, <1>6, <1>7, <1>8, <1>9, <1>10, <1>11, <1>12, <1>13, <1>14, <1>15, Zenon DEF HsInv

\* A connection that dies.
LEMMA SeverStep == ASSUME HsInv, Sever PROVE HsInv'
<1>1. PICK c \in 1 .. cur :
        /\ srv[c] # "idle" /\ dead' = dead \union {c}
        /\ up' = [up EXCEPT ![c] = <<>>] /\ down' = [down EXCEPT ![c] = <<>>]
        /\ faults' = faults + 1
        /\ UNCHANGED <<setup, cliVars, hsSrvVars, inc, smax, decoded, lost, calls, reconfigs>>
  BY Zenon DEF Sever
<1>2. c \in HsConns /\ 1 \in HsConns
  BY UpToCur, Zenon
<1>3. /\ up'[c] = <<>> /\ down'[c] = <<>> /\ Len(up'[c]) = 0 /\ Len(down'[c]) = 0
      /\ \A x \in HsConns : x # c => up'[x] = up[x] /\ down'[x] = down[x]
      /\ up' \in [HsConns -> Seq(Tokens)] /\ down' \in [HsConns -> Seq(Tokens)]
      /\ 1 .. 0 = {}
  BY <1>1, <1>2 DEF HsInv, HsType
<1>4. Agreed' = Agreed /\ FdAgreed' = FdAgreed /\ NoCommon' = NoCommon /\ OneSided' = OneSided
      /\ Fixed' = Fixed /\ Steady' = Steady
  BY <1>1, SameAgreement, Zenon DEF hsSrvVars
<1>5. HsType'
  <2>1. faults' \in Nat /\ dead' \subseteq HsConns
    BY <1>1, <1>2 DEF HsInv, HsType
  <2>2. QED
    BY <1>1, <1>3, <2>1, Zenon DEF HsInv, HsType, cliVars, hsSrvVars
<1>6. faults' > 0
  BY <1>1 DEF HsInv, HsType
<1>7. Phase'
  BY <1>1, <1>4, Zenon DEF HsInv, Phase, cliVars, hsSrvVars
<1>8. Versions'
  BY <1>1, <1>4, Zenon DEF HsInv, Versions, cliVars, hsSrvVars
<1>9. Workers'
  <2>1. WorkerOk(c)'
    BY <1>1, <1>2, <1>3, <1>4, Zenon DEF HsInv, Workers, WorkerOk, cliVars, hsSrvVars
  <2>2. \A x \in HsConns : x # c => WorkerOk(x)'
    BY <1>1, <1>3, WorkerKept, Zenon DEF HsInv, Workers, cliVars, hsSrvVars
  <2>3. QED
    BY <1>1, <2>1, <2>2, Zenon DEF HsInv, Workers, cliVars, hsSrvVars
<1>10. UpStream'
  <2>1. StreamOk(c)'
    BY <1>1, <1>3, Zenon DEF StreamOk
  <2>2. \A x \in HsConns : x # c => StreamOk(x)'
    BY <1>1, <1>3, <1>4, StreamKept, Zenon DEF HsInv, UpStream, Gone, cliVars, hsSrvVars
  <2>3. QED
    BY <2>1, <2>2, Zenon DEF UpStream
<1>11. DownStream'
  <2>1. \A x \in HsConns : RepliesOk(x) => RepliesOk(x)'
    BY <1>1, <1>3, Zenon DEF RepliesOk, hsSrvVars
  <2>2. down'[1] = <<>> \/ down'[1] = down[1]
    BY <1>2, <1>3, Zenon
  <2>3. QED
    BY <1>1, <1>4, <2>1, <2>2, Zenon DEF HsInv, HsType, DownStream, FoundingOk, Response,
       cliVars,
       hsSrvVars
<1>12. Outstanding'
  <2>1. SlotOk(c)'
    BY <1>3, Zenon DEF SlotOk
  <2>2. \A x \in pool : x # c => SlotOk(x)'
    BY <1>1, <1>3, <1>4, SlotKept, Zenon DEF HsInv, HsType, Outstanding, cliVars
  <2>3. QED
    BY <1>1, <1>3, <2>1, <2>2, Zenon DEF HsInv, HsType, Outstanding, cliVars
<1>13. Descriptors'
  <2>1. Will' = Will
    BY <1>1, <1>4, WillKept, Zenon DEF hsSrvVars
  <2>2. \A i \in 1 .. Len(up'[1]) : up'[1] = up[1]
    BY <1>2, <1>3, Zenon
  <2>3. down'[1] = down[1] \/ 1 \in dead'
    BY <1>1, <1>2, <1>3, Zenon
  <2>4. Alone => Alone'
    BY <1>1, <1>4, <2>1, <2>2, <2>3, AloneServed, Zenon DEF hsSrvVars
  <2>5. QED
    BY <1>1, <1>4, <2>4, DescriptorsKept, Zenon DEF HsInv, Descriptors, cliVars, hsSrvVars
<1>14. Founds' /\ FoundingFailsForCause'
  BY <1>6, Zenon DEF Founds, FoundingFailsForCause
<1>15. DecodedAsEncoded' /\ TimedOut' /\ AdvertisedIsAccepted'
  BY <1>1, Zenon DEF HsInv, DecodedAsEncoded, TimedOut, AdvertisedIsAccepted, SessionAlive,
     cliVars, hsSrvVars
<1>16. QED
  BY <1>5, <1>7, <1>8, <1>9, <1>10, <1>11, <1>12, <1>13, <1>14, <1>15, Zenon DEF HsInv

\* A worker that reads on finds the rest of the stream well-formed.
LEMMA StreamShrinks ==
    ASSUME NEW c \in HsConns, StreamOk(c), srv[c] \in Reading,
           Len(up[c]) \in Nat, Len(up[c]) >= 1, Len(up'[c]) = Len(up[c]) - 1,
           \A i \in 1 .. Len(up'[c]) : up'[c][i] = up[c][i + 1] /\ i + 1 \in 1 .. Len(up[c]),
           Gone(c)' = Gone(c) + 1 \/ (Gone(c)' = 2 /\ Gone(c) = 2), Gone(c) \in Nat,
           inc'[c] = inc[c], c \in dead => c \in dead', setup' = setup, cver' = cver,
           FdAgreed' = FdAgreed
    PROVE  StreamOk(c)'
<1>1. Header(c)' = Header(c) /\ Cci(c)' = Cci(c)
  BY Zenon DEF Header, Cci, Version
<1>2. \A t : MsgOk(t) => MsgOk(t)'
  BY Zenon DEF MsgOk, Steady
<1>3. ASSUME NEW i \in 1 .. Len(up'[c]) PROVE UpOk(c, i)'
  <2>1. UpOk(c, i + 1) /\ up'[c][i] = up[c][i + 1]
    BY Zenon DEF StreamOk
  <2>2. /\ i + Gone(c)' = 1 => (i + 1) + Gone(c) = 1
        /\ i + Gone(c)' = 2 => (i + 1) + Gone(c) = 2
        /\ i + Gone(c)' > 2 => (i + 1) + Gone(c) > 2
    OBVIOUS
  <2>3. QED
    BY <1>1, <1>2, <2>1, <2>2, Zenon DEF UpOk
<1>4. ~inc[c] /\ c \notin dead => Len(up'[c]) + Gone(c)' >= 2
  BY DEF StreamOk
<1>5. ASSUME NEW i \in 1 .. Len(up'[c]), up'[c][i].k \in Requests PROVE i = Len(up'[c])
  <2>1. i + 1 = Len(up[c])
    BY <1>5, Zenon DEF StreamOk
  <2>2. QED
    BY <2>1
<1>6. QED
  BY <1>3, <1>4, <1>5, Zenon DEF StreamOk

\* A token less leaves a slot in order.
LEMMA SlotShrinks ==
    ASSUME NEW c \in HsConns, SlotOk(c),
           \A i \in 1 .. Len(up'[c]) : up'[c][i] = up[c][i + 1] /\ i + 1 \in 1 .. Len(up[c]),
           down'[c] = down[c], on' = on, cli' = cli, setup' = setup, FdAgreed' = FdAgreed
    PROVE  SlotOk(c)'
<1>1. Reply(c) => Reply(c)'
  BY Zenon DEF Reply
<1>2. \A i, j \in 1 .. Len(up'[c]) : i + 1 = j + 1 => i = j
  OBVIOUS
<1>3. QED
  BY <1>1, <1>2, Zenon DEF SlotOk

\* A worker reads a token of its handshake and leaves what it sends to others.
LEMMA HandshakeRead ==
    ASSUME HsInv, NEW c \in HsConns, srv[c] \in {"header", "new_init", "attach_init"},
           up[c] # <<>>, TakeUp(c), NEW l \in SrvLabels, srv' = [srv EXCEPT ![c] = l],
           l \notin Early, l = "new_init" => c = 1 /\ ~inc[c] /\ Agreed \in Implemented,
           l = "attach_init" => c # 1 /\ ~inc[c],
           l \in Serving \union {"callback"} => sver' # NoVersion, l \notin {"to_unix", "to_none"},
           l = "new_init" => srv[c] = "header" /\ sver' = sver,
           l \in Reading => Gone(c)' = Gone(c) + 1,
           down' \in [HsConns -> Seq(Tokens)], \A x \in HsConns : x # c => down'[x] = down[x],
           srv[c] # "header" \/ (c # 1 /\ ~inc[c]) => down'[c] = down[c],
           c = 1 => \/ down'[1] = down[1]
                    \/ down'[1] = <<Response>> /\ Agreed \in Implemented,
           sver' = sver \/ (sver' = Agreed /\ srv[1] = "new_init" /\ c = 1),
           dead \subseteq dead', dead' \subseteq dead \union {c},
           1 \in dead' /\ 1 \notin dead => inc[1] \/ NoCommon,
           slots' \subseteq HsConns,
           \A x \in slots' : x \in slots \/ (x = c /\ l \in Serving \union {"callback"}),
           UNCHANGED <<setup, cliVars, inc, offer, smax, decoded, lost, calls, reconfigs, faults>>
    PROVE  /\ Phase' /\ Versions' /\ Workers' /\ UpStream' /\ DownStream' /\ Outstanding' /\ Founds'
           /\ DecodedAsEncoded' /\ FoundingFailsForCause' /\ TimedOut'
<1>1. /\ up' \in [HsConns -> Seq(Tokens)] /\ Len(up[c]) \in Nat /\ Len(up[c]) >= 1
      /\ Len(up'[c]) = Len(up[c]) - 1 /\ Head(up[c]) = up[c][1]
      /\ \A i \in 1 .. Len(up'[c]) : up'[c][i] = up[c][i + 1] /\ i + 1 \in 1 .. Len(up[c])
      /\ \A x \in HsConns : x # c => up'[x] = up[x]
  <2>1. up \in [HsConns -> Seq(Tokens)]
    BY Zenon DEF HsInv, HsType
  <2>2. QED
    BY <2>1, Taken DEF TakeUp
<1>2. srv'[c] = l /\ srv[c] # "idle" /\ \A x \in HsConns : x # c => srv'[x] = srv[x]
  BY Zenon DEF HsInv, HsType
<1>3. Agreed' = Agreed /\ FdAgreed' = FdAgreed /\ NoCommon' = NoCommon /\ OneSided' = OneSided
      /\ Fixed' = Fixed /\ Steady' = Steady
  BY SameAgreement, Zenon
<1>4. /\ setup.entry # "r34" /\ 1 \in HsConns /\ offer[c] # NoVersion /\ ~(c > cur)
      /\ WorkerOk(c) /\ l # "idle" /\ c <= cur
  BY UpToCur DEF HsInv, Workers, WorkerOk, Early
<1>5. sver # NoVersion => sver' = sver
  BY <1>4, Zenon DEF HsInv, Versions
<1>6. Phase'
  <2>1. cur > 1 => sver' = cver
    <3>1. cur > 1 => cver # NoVersion /\ sver = cver
      BY UpToCur DEF HsInv, Phase
    <3>2. QED
      BY <1>5, <3>1, Zenon
  <2>2. cli = "connect" => c # cur
    BY <1>2, Zenon DEF HsInv, Phase
  <2>3. cur \in HsConns
    BY Zenon DEF HsInv, HsType
  <2>4. /\ cli = "connect" => srv'[cur] = "idle"
        /\ cli \in {"read_init", "attached"} => srv'[cur] # "idle"
    BY <1>2, <1>4, <2>2, <2>3, Zenon DEF HsInv, Phase
  <2>5. QED
    BY <1>3, <2>1, <2>4, Zenon DEF HsInv, Phase, cliVars
<1>7. Versions'
  <2>1. sver' \in {NoVersion, Agreed}
    BY Zenon DEF HsInv, Versions
  <2>2. sver' # NoVersion => sver # NoVersion \/ srv[1] = "new_init"
    BY Zenon
  <2>3. c # 1 => srv'[1] = srv[1]
    BY <1>2, <1>4, Zenon
  <2>4. c = 1 => offer[1] # NoVersion /\ srv'[1] \notin Early
    BY <1>2, <1>4, Zenon
  <2>5. /\ srv'[1] = "new_init" => Agreed \in Implemented /\ offer[1] # NoVersion
        /\ cver # NoVersion \/ sver' # NoVersion => Agreed \in Implemented
    BY <1>2, <1>4, <2>2, <2>3, Zenon DEF HsInv, Versions
  <2>6. cver # NoVersion \/ sver' # NoVersion \/ srv'[1] = "new_init" =>
            offer[1] # NoVersion /\ srv'[1] \notin Early
    BY <1>2, <1>4, <2>2, <2>3, <2>4, Zenon DEF HsInv, Versions
  <2>7. QED
    BY <1>3, <1>4, <2>1, <2>5, <2>6, Zenon DEF HsInv, Versions, cliVars
<1>8. Workers'
  <2>1. l \notin {"idle", "accept", "header"} /\ {"idle", "accept", "header"} = Early
    BY Zenon DEF Early
  <2>2. WorkerOk(c)'
    <3>1. l = "new_init" => sver' = NoVersion
      BY <1>4, <2>1, Zenon DEF HsInv, Versions
    <3>2. QED
      BY <1>2, <1>4, <2>1, <3>1, Zenon DEF WorkerOk, cliVars
  <2>3. \A x \in HsConns : x # c => WorkerOk(x)'
    <3> SUFFICES ASSUME NEW x \in HsConns, x # c PROVE WorkerOk(x)'
      BY Zenon
    <3>1. WorkerOk(x) /\ srv'[x] = srv[x] /\ up'[x] = up[x] /\ down'[x] = down[x]
      BY <1>1, <1>2, Zenon DEF HsInv, Workers
    <3>2. srv[x] \in Serving \union {"callback"} \/ srv[x] = "to_unix" => sver' = sver
      BY <1>5, <3>1, Zenon DEF WorkerOk, Serving
    <3>3. srv[x] = "new_init" => sver' = sver
      BY <3>1, Zenon DEF WorkerOk
    <3>4. QED
      BY <1>3, <3>1, <3>2, <3>3, Zenon DEF WorkerOk, cliVars
  <2>4. \A x \in slots : srv[x] \in Serving \union {"callback"} /\ x # c
    BY Zenon DEF HsInv, Workers, Serving
  <2>5. \A x \in slots' : srv'[x] \in Serving \union {"callback"}
    BY <1>2, <2>4, Zenon
  <2>6. \A x \in pool : x \in HsConns /\ x <= cur /\ srv'[x] # "idle" /\ ~inc[x]
    BY <1>2, <1>4, Zenon DEF HsInv, HsType, Workers
  <2>7. QED
    BY <2>2, <2>3, <2>5, <2>6, Zenon DEF Workers, cliVars
<1>9. UpStream'
  <2>1. \A x \in HsConns : x # c => StreamOk(x)'
    <3>1. \A x \in HsConns : x # c => Gone(x)' = Gone(x)
      BY <1>2, Zenon DEF Gone
    <3>2. QED
      BY <1>1, <1>2, <1>3, <3>1, StreamKept, Zenon DEF HsInv, UpStream, cliVars
  <2>2. l \in Reading => StreamOk(c)'
    <3> SUFFICES ASSUME l \in Reading PROVE StreamOk(c)'
      BY Zenon
    <3>1. srv[c] \in Reading /\ Gone(c) \in Nat /\ StreamOk(c)
      BY Zenon DEF Reading, Gone, HsInv, UpStream
    <3>2. /\ inc'[c] = inc[c] /\ (c \in dead => c \in dead') /\ setup' = setup /\ cver' = cver
          /\ FdAgreed' = FdAgreed /\ Gone(c)' = Gone(c) + 1
      BY <1>3, Zenon DEF cliVars
    <3>3. QED
      BY <1>1, <3>1, <3>2, StreamShrinks, Zenon
  <2>3. l \notin Reading => StreamOk(c)'
    BY <1>2, Zenon DEF StreamOk
  <2>4. QED
    BY <2>1, <2>2, <2>3, Zenon DEF UpStream
<1>10. \A x \in pool : x \in HsConns /\ down'[x] = down[x] /\ cver # NoVersion
  <2>1. \A x \in pool : x \in HsConns /\ ~inc[x] /\ cver # NoVersion
    BY Zenon DEF HsInv, HsType, Workers, Phase
  <2>2. 1 \in pool /\ c = 1 => down'[1] = down[1]
    <3>1. 1 \in pool /\ c = 1 => srv[1] \notin Early /\ 1 \in HsConns
      BY <1>4, <2>1, Zenon DEF HsInv, Versions
    <3>2. QED
      BY <3>1, Zenon DEF Early
  <2>3. c \in pool => down'[c] = down[c]
    BY <2>1, <2>2, Zenon
  <2>4. QED
    BY <2>1, <2>3, Zenon
<1>11. DownStream'
  <2>1. FoundingOk'
    <3>1. c = 1 => offer[1] # NoVersion
      BY <1>4, Zenon
    <3>2. c # 1 => down'[1] = down[1]
      BY <1>4, Zenon
    <3>3. Response' = Response
      BY <1>3, Zenon DEF Response
    <3>4. QED
      BY <1>3, <3>1, <3>2, <3>3, Zenon DEF HsInv, DownStream, FoundingOk, cliVars
  <2>2. \A x \in pool : RepliesOk(x)'
    BY <1>5, <1>10, Zenon DEF HsInv, DownStream, RepliesOk
  <2>3. QED
    BY <2>1, <2>2, Zenon DEF DownStream, cliVars
<1>12. Outstanding'
  <2>1. \A x \in pool : x # c => SlotOk(x)'
    BY <1>1, <1>3, <1>10, SlotKept, Zenon DEF HsInv, Outstanding, cliVars
  <2>2. c \in pool => SlotOk(c)'
    BY <1>1, <1>3, <1>10, SlotShrinks, Zenon DEF HsInv, Outstanding, cliVars
  <2>3. cver = NoVersion \/ cli \in {"read_init", "attached"} =>
            \A i \in 1 .. Len(up'[cur]) : up'[cur][i].k \in {"header", "cci"}
    <3>1. CASE cur = c
      BY <1>1, <3>1, Zenon DEF HsInv, Outstanding
    <3>2. CASE cur # c
      <4>1. up'[cur] = up[cur]
        BY <1>1, <3>2, Zenon DEF HsInv, HsType
      <4>2. QED
        BY <4>1, Zenon DEF HsInv, Outstanding
    <3>3. QED
      BY <3>1, <3>2, Zenon
  <2>4. cli = "attached" /\ ~inc[cur] => down'[cur] = <<>>
    <3>1. cli = "attached" => cur # 1 /\ cur \in HsConns
      BY DEF HsInv, Phase, HsType
    <3>2. cli = "attached" /\ ~inc[cur] => down[cur] = <<>>
      BY Zenon DEF HsInv, Outstanding
    <3>3. QED
      BY <3>1, <3>2, Zenon
  <2>5. QED
    BY <2>1, <2>2, <2>3, <2>4, Zenon DEF Outstanding, cliVars
<1>13. Founds'
  BY <1>3, Zenon DEF HsInv, Founds, cliVars
<1>14. DecodedAsEncoded' /\ FoundingFailsForCause' /\ TimedOut'
  BY Zenon DEF HsInv, DecodedAsEncoded, FoundingFailsForCause, TimedOut, cliVars
<1>15. QED
  BY <1>6, <1>7, <1>8, <1>9, <1>11, <1>12, <1>13, <1>14, Zenon

\* A worker reads a token of its handshake and does not go on to serve.
LEMMA ReadOnStep ==
    ASSUME HsInv, NEW c \in HsConns, srv[c] \in {"header", "new_init", "attach_init"},
           up[c] # <<>>, TakeUp(c), NEW l \in {"new_init", "attach_init", "callback", "refused"},
           srv' = [srv EXCEPT ![c] = l],
           l = "new_init" => c = 1 /\ ~inc[c] /\ Agreed \in Implemented,
           l = "attach_init" => c # 1 /\ ~inc[c],
           l = "callback" => sver # NoVersion,
           l \in {"new_init", "attach_init"} => srv[c] = "header",
           down' \in [HsConns -> Seq(Tokens)], \A x \in HsConns : x # c => down'[x] = down[x],
           srv[c] # "header" \/ (c # 1 /\ ~inc[c]) => down'[c] = down[c],
           c = 1 => \/ down'[1] = down[1]
                    \/ down'[1] = <<Response>> /\ Agreed \in Implemented,
           dead \subseteq dead', dead' \subseteq dead \union {c},
           1 \in dead' /\ 1 \notin dead => inc[1] \/ NoCommon,
           slots' \subseteq HsConns, \A x \in slots' : x \in slots \/ (x = c /\ l = "callback"),
           rmode' \in [HsConns -> BOOLEAN], \A x \in HsConns : x # c => rmode'[x] = rmode[x],
           l = "callback" \/ rmode' = rmode,
           l = "refused" /\ c # 1 => ~(reconfigs = 0 /\ setup.entry = "a13") \/ ~SessionAlive,
           UNCHANGED <<setup, cliVars, inc, offer, smax, decoded, lost, calls, reconfigs, faults,
                       sver, sfd>>
    PROVE  HsInv'
<1>1. /\ l \in SrvLabels /\ l \notin Early /\ l \notin {"to_unix", "to_none"} /\ l \notin Serving
      /\ (l \in Reading => l \in {"new_init", "attach_init"})
  BY Zenon DEF SrvLabels, Early, Serving, Reading
<1>2. /\ srv'[c] = l /\ \A x \in HsConns : x # c => srv'[x] = srv[x]
      /\ srv' \in [HsConns -> SrvLabels]
  <2>1. srv \in [HsConns -> SrvLabels]
    BY Zenon DEF HsInv, HsType
  <2>2. QED
    BY <1>1, <2>1, Zenon
<1>3. l \in Reading => Gone(c)' = Gone(c) + 1
  <2> SUFFICES ASSUME l \in Reading PROVE Gone(c)' = Gone(c) + 1
    BY Zenon
  <2>1. srv[c] = "header" /\ srv'[c] \in {"new_init", "attach_init"}
    BY <1>1, <1>2, Zenon
  <2>2. Gone(c) = 0
    BY <2>1, Zenon DEF Gone
  <2>3. Gone(c)' = 1
    BY <2>1, Zenon DEF Gone
  <2>4. QED
    BY <2>2, <2>3
<1>4. /\ Phase' /\ Versions' /\ Workers' /\ UpStream' /\ DownStream' /\ Outstanding' /\ Founds'
      /\ DecodedAsEncoded' /\ FoundingFailsForCause' /\ TimedOut'
  BY <1>1, <1>3, HandshakeRead, Zenon
<1>5. HsType'
  <2>1. up' \in [HsConns -> Seq(Tokens)]
    <3>1. up \in [HsConns -> Seq(Tokens)]
      BY Zenon DEF HsInv, HsType
    <3>2. QED
      BY <3>1, Taken, Zenon DEF TakeUp
  <2>2. dead' \subseteq HsConns
    BY Zenon DEF HsInv, HsType
  <2>3. QED
    BY <1>2, <2>1, <2>2, Zenon DEF HsInv, HsType, cliVars
<1>6. Descriptors'
  <2>1. Agreed' = Agreed /\ FdAgreed' = FdAgreed /\ OneSided' = OneSided
      /\ Fixed' = Fixed /\ Steady' = Steady
    BY SameAgreement, Zenon
  <2>2. cur = 1 => c = 1
    <3>1. c \in Nat /\ c >= 1 /\ cur \in Nat
      BY HsAssumption, UpToCur DEF HsConns
    <3>2. ~(c > cur)
      BY Zenon DEF HsInv, Workers, WorkerOk
    <3>3. QED
      BY <3>1, <3>2
  <2>3. \A x \in HsConns : srv'[x] = "recv" => srv[x] = "recv" /\ rmode'[x] = rmode[x]
    BY <1>2, Zenon
  <2>4. sver = NoVersion => \A x \in HsConns : rmode'[x] = rmode[x]
    BY Zenon
  <2>5. ASSUME cur = 1, Alone PROVE Alone'
    <3>1. c = 1 /\ srv[1] \in {"header", "new_init", "attach_init"} /\ srv'[1] = l
      BY <1>2, <2>2, <2>5, Zenon
    <3>2. Will' = Fixed /\ Will = Fixed
      <4>1. Will' = Fixed'
        BY <3>1, Zenon DEF Will
      <4>2. Will = Fixed
        BY <3>1, Zenon DEF Will
      <4>3. QED
        BY <2>1, <4>1, <4>2, Zenon
    <3>3. srv[1] \in Reading /\ srv[1] # "attach_init"
      BY <3>1, Zenon DEF Reading, HsInv, Workers, WorkerOk
    <3>4. \A i \in 1 .. Len(up'[1]) : \E j \in 1 .. Len(up[1]) : up'[1][i] = up[1][j]
      <4>1. up \in [HsConns -> Seq(Tokens)]
        BY Zenon DEF HsInv, HsType
      <4>2. QED
        BY <3>1, <4>1, Taken DEF TakeUp
    <3>5. CASE cver # NoVersion
      <4>1. srv[1] \notin Early
        BY <3>1, <3>5, Zenon DEF HsInv, Versions, Workers, WorkerOk
      <4>2. down'[1] = down[1]
        BY <3>1, <4>1, Zenon DEF Early
      <4>3. QED
        BY <2>1, <2>5, <3>2, <3>3, <3>4, <4>2, AloneServed, Zenon
    <3>6. CASE cver = NoVersion
      <4>1. ~cfd /\ cli # "wait_fd"
        BY <3>6, Zenon DEF HsInv, Phase, Descriptors
      <4>2. \A i \in 1 .. Len(up[1]) : up[1][i].k # "fd"
        BY <2>5, <3>6, Zenon DEF HsInv, Outstanding
      <4>3. QED
        BY <2>1, <3>2, <3>4, <4>1, <4>2, Zenon DEF Alone, Replied, cliVars
    <3>7. QED
      BY <3>5, <3>6, Zenon
  <2>6. QED
    BY <2>1, <2>3, <2>4, <2>5, DescriptorsKept, Zenon DEF HsInv, Descriptors, cliVars
<1>7. AdvertisedIsAccepted'
  <2>1. cur' = cur
    BY Zenon DEF cliVars
  <2>2. \A x \in 2 .. cur : x \in HsConns /\ x # 1
    BY UpToCur
  <2>3. SessionAlive' => SessionAlive
    BY <1>2, Zenon DEF SessionAlive
  <2>4. QED
    BY <1>2, <2>1, <2>2, <2>3, Zenon DEF HsInv, AdvertisedIsAccepted
<1>8. QED
  BY <1>4, <1>5, <1>6, <1>7, Zenon DEF HsInv

\* serve_special's answers to a well-formed request.
LEMMA SpecialReplies ==
    ASSUME HsInv, NEW t, MsgOk(t), sver = Agreed
    PROVE  /\ SpecialReply(t) \in Int
           /\ t.k = "GET_MAX_THREADS" => SpecialReply(t) = setup.threads
           /\ t.k = "GET_FD_MODE" /\ SpecialReply(t) = 1 => FdAgreed /\ sver # 0
<1>1. setup.threads \in Int
  BY HsAssumption DEF HsInv, HsType, Setups
<1>2. CASE t.k = "GET_MAX_THREADS"
  BY <1>1, <1>2, Zenon DEF SpecialReply
<1>3. CASE t.k = "GET_FD_MODE"
  <2>1. SpecialReply(t) = IF t.val = 1 /\ FdVersionOk /\ setup.fdUnix THEN 1 ELSE 0
    BY <1>3, Zenon DEF SpecialReply
  <2>2. SpecialReply(t) = 1 => FdVersionOk
    BY <2>1
  <2>3. FdVersionOk => FdAgreed /\ sver # 0
    BY DEF FdVersionOk, FdAgreed, R34Wire
  <2>4. SpecialReply(t) \in Int
    BY <2>1
  <2>5. QED
    BY <1>3, <2>2, <2>3, <2>4, Zenon
<1>4. CASE t.k \notin {"GET_MAX_THREADS", "GET_FD_MODE"}
  BY <1>4 DEF SpecialReply
<1>5. QED
  BY <1>2, <1>3, <1>4, Zenon

\* The client waits for the answer to what it asked.
LEMMA WaitsFor ==
    /\ \A k \in Requests : WaitFor(k) \in Waiting
    /\ \A k \in Requests : WaitFor(k) = "wait_max" => k = "GET_MAX_THREADS"
    /\ \A k \in Requests : WaitFor(k) = "wait_fd" => k = "GET_FD_MODE"
BY Zenon DEF Requests, WaitFor, Waiting

\* The slot of a served request carries its reply and no other request.
LEMMA ReplyOk ==
    ASSUME HsInv, NEW c \in pool, up[c] # <<>>, TakeUp(c), MsgOk(up[c][1]), up[c][1].k # "fd",
           sver = Agreed, down'[c] = down[c] \o <<[k |-> "reply", v |-> sver,
                                                   val |-> SpecialReply(up[c][1])]>>,
           on' = on, cli' = cli, setup' = setup, sver' = sver, FdAgreed' = FdAgreed,
           sver # NoVersion
    PROVE  /\ SlotOk(c)' /\ RepliesOk(c)' /\ on = c /\ cli = WaitFor(up[c][1].k) /\ Len(down'[c]) = 1
           /\ down'[c][1].val = SpecialReply(up[c][1])
<1>1. c \in HsConns /\ up \in [HsConns -> Seq(Tokens)] /\ sver \in Int
  BY Zenon DEF HsInv, HsType
<1>2. /\ Len(up[c]) \in Nat /\ Len(up[c]) >= 1 /\ 1 \in 1 .. Len(up[c])
      /\ \A i \in 1 .. Len(up'[c]) : up'[c][i] = up[c][i + 1] /\ i + 1 \in 1 .. Len(up[c])
  BY <1>1, Taken DEF TakeUp
<1>3. PICK kind : kind = up[c][1].k
  BY Zenon
<1>4. kind \in Requests
  BY <1>3, Zenon DEF MsgOk
<1>5. /\ on = c /\ cli = WaitFor(kind) /\ down[c] = <<>>
      /\ \A j \in 1 .. Len(up[c]) : up[c][j].k \in Requests => 1 = j
  BY <1>2, <1>3, <1>4, Zenon DEF HsInv, Outstanding, SlotOk
<1>6. PICK value \in Int : value = SpecialReply(up[c][1])
  BY SpecialReplies, Zenon
<1>7. PICK t \in Tokens : t = [k |-> "reply", v |-> sver, val |-> value]
  BY <1>1, MessageToken, Zenon DEF MsgKinds
<1>8. t.v = sver /\ t.val = value
  BY <1>7, Zenon
<1>9. down'[c] = <<t>>
  <2>1. down'[c] = <<>> \o <<t>>
    <3>1. t = [k |-> "reply", v |-> sver, val |-> SpecialReply(up[c][1])]
      BY <1>6, <1>7, Zenon
    <3>2. QED
      BY <1>5, <3>1, Zenon
  <2>2. <<>> \o <<t>> = <<t>>
    OBVIOUS
  <2>3. QED
    BY <2>1, <2>2, Zenon
<1>10. Len(down'[c]) = 1 /\ down'[c][1] = t
  BY <1>9
<1>11. Reply(c)'
  <2>1. cli \in Waiting
    BY <1>4, <1>5, WaitsFor, Zenon
  <2>2. cli = "wait_max" => value = setup.threads
    BY <1>3, <1>4, <1>5, <1>6, WaitsFor, SpecialReplies, Zenon
  <2>3. cli = "wait_fd" /\ value = 1 => FdAgreed
    BY <1>3, <1>4, <1>5, <1>6, WaitsFor, SpecialReplies, Zenon
  <2>4. QED
    BY <1>5, <1>8, <1>10, <2>1, <2>2, <2>3, Zenon DEF Reply
<1>12. \A i \in 1 .. Len(up'[c]) : up'[c][i].k \notin Requests
  <2>1. \A i \in 1 .. Len(up'[c]) : 1 # i + 1
    OBVIOUS
  <2>2. QED
    BY <1>2, <1>5, <2>1, Zenon
<1>13. SlotOk(c)'
  BY <1>11, <1>12, Zenon DEF SlotOk
<1>14. RepliesOk(c)'
  <2>1. \A i \in 1 .. Len(down'[c]) : down'[c][i] = t
    BY <1>10
  <2>2. QED
    BY <1>8, <2>1, Zenon DEF RepliesOk
<1>15. QED
  BY <1>3, <1>5, <1>6, <1>8, <1>10, <1>13, <1>14, Zenon

\* One turn of the serve loop.
LEMMA ServeOneStep == ASSUME HsInv, NEW c \in HsConns, ServeOne(c) PROVE HsInv'
<1>1. /\ srv[c] = "recv" /\ up[c] # <<>> /\ TakeUp(c) /\ rmode' = [rmode EXCEPT ![c] = sfd]
      /\ UNCHANGED <<setup, cliVars, inc, dead, offer, sver, sfd, slots, smax, calls, reconfigs,
                     faults>>
  BY Zenon DEF ServeOne
<1>2. /\ srv \in [HsConns -> SrvLabels] /\ rmode \in [HsConns -> BOOLEAN] /\ sfd \in BOOLEAN
      /\ up \in [HsConns -> Seq(Tokens)] /\ down \in [HsConns -> Seq(Tokens)] /\ cur \in HsConns
      /\ lost \in BOOLEAN /\ pool \subseteq HsConns /\ 1 \in HsConns /\ sver \in Int
  BY UpToCur, Zenon DEF HsInv, HsType
<1>3. /\ up' \in [HsConns -> Seq(Tokens)] /\ Len(up[c]) \in Nat /\ Len(up[c]) >= 1
      /\ Len(up'[c]) = Len(up[c]) - 1 /\ Head(up[c]) = up[c][1] /\ 1 \in 1 .. Len(up[c])
      /\ \A i \in 1 .. Len(up'[c]) : up'[c][i] = up[c][i + 1] /\ i + 1 \in 1 .. Len(up[c])
      /\ \A x \in HsConns : x # c => up'[x] = up[x]
  BY <1>1, <1>2, Taken DEF TakeUp
<1>4. PICK tok : tok = up[c][1]
  BY Zenon
<1>5. MsgOk(tok)
  <2>1. Gone(c) = 2 /\ srv[c] \in Reading
    BY <1>1, Zenon DEF Gone, Reading, Serving
  <2>2. UpOk(c, 1)
    BY <1>3, <2>1, Zenon DEF HsInv, UpStream, StreamOk
  <2>3. QED
    BY <1>4, <2>1, <2>2 DEF UpOk
<1>6. /\ tok.v = cver /\ cver # NoVersion /\ sver # NoVersion /\ sver = Agreed /\ cver = sver
      /\ ~(c > cur)
  BY <1>1, <1>5, Zenon DEF MsgOk, HsInv, Versions, Workers, WorkerOk, Serving
<1>7. Agreed' = Agreed /\ FdAgreed' = FdAgreed /\ NoCommon' = NoCommon /\ OneSided' = OneSided
      /\ Fixed' = Fixed /\ Steady' = Steady
  BY <1>1, SameAgreement, Zenon
<1>8. DecodedAsEncoded'
  <2>1. decoded' = decoded \union {<<tok.v, sver>>}
    BY <1>3, <1>4, Zenon DEF ServeOne
  <2>2. \A d \in decoded' : d \in decoded \/ d = <<tok.v, sver>>
    BY <2>1, Zenon
  <2>3. <<tok.v, sver>>[1] = <<tok.v, sver>>[2]
    BY <1>6, Zenon
  <2>4. QED
    BY <2>2, <2>3, Zenon DEF HsInv, DecodedAsEncoded
<1>9. \/ /\ tok.k = "fd" /\ lost' = (lost \/ ~rmode[c]) /\ down' = down /\ srv' = srv
      \/ /\ tok.k # "fd" /\ lost' = lost
         /\ down' = [down EXCEPT ![c] = @ \o <<[k |-> "reply", v |-> sver, val |-> SpecialReply(tok)]>>]
         /\ srv' = [srv EXCEPT ![c] = IF tok.k # "GET_FD_MODE" THEN @
                                      ELSE IF SpecialReply(tok) = 1 THEN "to_unix" ELSE "to_none"]
  BY <1>3, <1>4, Zenon DEF ServeOne, SendDown
<1>10. /\ srv'[c] \in Serving /\ srv' \in [HsConns -> SrvLabels]
       /\ \A x \in HsConns : x # c => srv'[x] = srv[x]
       /\ srv'[c] = "to_unix" => tok.k = "GET_FD_MODE" /\ SpecialReply(tok) = 1
       /\ srv'[c] = "to_none" => tok.k = "GET_FD_MODE" /\ SpecialReply(tok) # 1
       /\ srv'[c] = "recv" => tok.k # "GET_FD_MODE"
  BY <1>1, <1>2, <1>9, Zenon DEF Serving, SrvLabels
<1>11. /\ down' \in [HsConns -> Seq(Tokens)]
       /\ \A x \in HsConns : x # c => down'[x] = down[x]
       /\ tok.k = "fd" => down'[c] = down[c]
       /\ tok.k # "fd" =>
            down'[c] = down[c] \o <<[k |-> "reply", v |-> sver, val |-> SpecialReply(tok)]>>
  <2>1. CASE down' = down /\ tok.k = "fd"
    BY <1>2, <2>1, Zenon
  <2>2. CASE /\ tok.k # "fd"
             /\ down' = [down EXCEPT ![c] = @ \o <<[k |-> "reply", v |-> sver,
                                                     val |-> SpecialReply(tok)]>>]
    <3>1. SpecialReply(tok) \in Int
      BY <1>5, <1>6, SpecialReplies, Zenon
    <3>2. PICK t \in Tokens : t = [k |-> "reply", v |-> sver, val |-> SpecialReply(tok)]
      BY <1>2, <3>1, MessageToken, Zenon DEF MsgKinds
    <3>3. down' = [down EXCEPT ![c] = @ \o <<t>>]
      BY <2>2, <3>2, Zenon
    <3>4. down'[c] = down[c] \o <<t>>
      BY <1>2, <3>3, Zenon
    <3>5. down' \in [HsConns -> Seq(Tokens)] /\ \A x \in HsConns : x # c => down'[x] = down[x]
      BY <1>2, <3>3, Sent, ZenonT(60)
    <3>6. QED
      BY <2>2, <3>2, <3>4, <3>5, Zenon
  <2>3. QED
    BY <1>9, <2>1, <2>2, Zenon
<1>12. rmode' \in [HsConns -> BOOLEAN] /\ rmode'[c] = sfd
  BY <1>1, <1>2, Zenon
<1>13. HsType'
  <2>1. lost' \in BOOLEAN
    BY <1>2, <1>9, Zenon
  <2>2. QED
    BY <1>1, <1>3, <1>10, <1>11, <1>12, <2>1, Zenon DEF HsInv, HsType, cliVars
<1>14. srv'[c] \notin {"idle", "accept", "header", "new_init", "attach_init", "refused"} \union Early
  BY <1>10, Zenon DEF Serving, Early
<1>15. Phase'
  <2>1. cli = "connect" => c # cur
    BY <1>1, Zenon DEF HsInv, Phase
  <2>2. /\ cli = "connect" => srv'[cur] = "idle"
        /\ cli \in {"read_init", "attached"} => srv'[cur] # "idle"
    BY <1>2, <1>10, <1>14, <2>1, Zenon DEF HsInv, Phase
  <2>3. QED
    BY <1>1, <1>7, <2>2, Zenon DEF HsInv, Phase, cliVars
<1>16. Versions'
  <2>1. srv'[1] # "new_init" \/ srv'[1] = srv[1]
    BY <1>2, <1>10, <1>14, Zenon
  <2>2. srv[1] \notin Early => srv'[1] \notin Early
    BY <1>2, <1>10, <1>14, Zenon
  <2>3. QED
    BY <1>1, <1>7, <2>1, <2>2, Zenon DEF HsInv, Versions, cliVars
<1>17. Workers'
  <2>1. srv'[c] = "to_unix" => sver # 0
    BY <1>5, <1>6, <1>10, SpecialReplies, Zenon
  <2>2. WorkerOk(c)'
    <3>1. srv'[c] \in {"to_unix", "to_none"} => ~Steady
      BY <1>5, <1>10, Zenon DEF MsgOk
    <3>2. QED
      BY <1>1, <1>6, <1>7, <1>14, <2>1, <3>1, Zenon DEF WorkerOk, cliVars
  <2>3. \A x \in HsConns : x # c => WorkerOk(x)'
    BY <1>1, <1>3, <1>10, <1>11, WorkerKept, Zenon DEF HsInv, Workers, cliVars
  <2>4. \A x \in slots : x \in HsConns
    BY Zenon DEF HsInv, HsType
  <2>5. QED
    BY <1>1, <1>2, <1>10, <1>14, <2>2, <2>3, <2>4, Zenon DEF HsInv, Workers, cliVars
<1>18. UpStream'
  <2>1. \A x \in HsConns : x # c => StreamOk(x)'
    <3>1. \A x \in HsConns : x # c => Gone(x)' = Gone(x)
      BY <1>10, Zenon DEF Gone
    <3>2. QED
      BY <1>1, <1>3, <1>7, <1>10, <3>1, StreamKept, Zenon DEF HsInv, UpStream, cliVars
  <2>2. StreamOk(c)'
    <3>1. Gone(c) = 2 /\ Gone(c)' = 2 /\ srv[c] \in Reading /\ StreamOk(c) /\ Gone(c) \in Nat
      BY <1>1, <1>14, Zenon DEF Gone, Reading, Serving, HsInv, UpStream
    <3>2. QED
      BY <1>1, <1>3, <1>7, <3>1, StreamShrinks, Zenon DEF cliVars
  <2>3. QED
    BY <2>1, <2>2, Zenon DEF UpStream
<1>19. c \in pool /\ tok.k # "fd" =>
         /\ SlotOk(c)' /\ RepliesOk(c)' /\ on = c /\ cli = WaitFor(tok.k) /\ Len(down'[c]) = 1
         /\ down'[c][1].val = SpecialReply(tok)
  BY <1>1, <1>4, <1>5, <1>6, <1>7, <1>11, ReplyOk, Zenon DEF cliVars
<1>20. DownStream'
  <2>1. \A x \in pool : down'[x] = down[x] => RepliesOk(x)'
    BY <1>1, Zenon DEF HsInv, DownStream, RepliesOk
  <2>2. \A x \in pool : RepliesOk(x)'
    BY <1>2, <1>11, <1>19, <2>1, Zenon
  <2>3. QED
    BY <1>1, <1>6, <2>2, Zenon DEF DownStream, FoundingOk, cliVars
<1>21. Outstanding'
  <2>1. \A x \in pool : x # c => SlotOk(x)'
    BY <1>1, <1>2, <1>3, <1>7, <1>11, SlotKept, Zenon DEF HsInv, Outstanding, cliVars
  <2>2. c \in pool /\ tok.k = "fd" => SlotOk(c)'
    BY <1>1, <1>2, <1>3, <1>7, <1>11, SlotShrinks, Zenon DEF HsInv, Outstanding, cliVars
  <2>3. cli \in {"read_init", "attached"} => c # cur
    <3>1. tok.k \notin {"header", "cci"}
      BY <1>5, Zenon DEF MsgOk, Requests
    <3>2. QED
      BY <1>3, <1>4, <3>1, Zenon DEF HsInv, Outstanding
  <2>4. QED
    BY <1>1, <1>2, <1>3, <1>6, <1>11, <1>19, <2>1, <2>2, <2>3, Zenon DEF HsInv, Outstanding,
       cliVars
<1>22. Founds' /\ FoundingFailsForCause' /\ TimedOut'
  BY <1>1, <1>7, Zenon DEF HsInv, Founds, FoundingFailsForCause, TimedOut, cliVars
<1>23. AdvertisedIsAccepted'
  <2>1. SessionAlive
    BY <1>1, Zenon DEF SessionAlive
  <2>2. \A x \in HsConns : srv'[x] = "refused" => srv[x] = "refused"
    BY <1>10, <1>14, Zenon
  <2>3. QED
    BY <1>1, <2>1, <2>2, AcceptedKept, Zenon DEF cliVars
<1>24. cur = 1 => c = 1
  BY <1>6, HsAssumption DEF HsConns
<1>25. Descriptors'
  <2>1. cur = 1 \/ Steady => rmode[c] = sfd /\ rmode' = rmode
    <3>1. cur = 1 \/ Steady => rmode[c] = sfd
      BY <1>1, Zenon DEF HsInv, Descriptors
    <3>2. QED
      BY <1>1, <1>2, <3>1, Zenon
  <2>2. FdLostOnlyAcross'
    <3>1. CASE tok.k # "fd"
      BY <1>1, <1>7, <1>9, <3>1, Zenon DEF HsInv, Descriptors, FdLostOnlyAcross, cliVars
    <3>2. CASE tok.k = "fd" /\ cur = 1
      <4>1. srv[1] \in Reading /\ Will = rmode[1] /\ c = 1
        BY <1>1, <1>24, <3>2, Zenon DEF Reading, Serving, Will
      <4>2. ~OneSided => rmode[c]
        BY <1>3, <1>4, <3>2, <4>1, Zenon DEF HsInv, Descriptors, Alone
      <4>3. QED
        BY <1>1, <1>7, <1>9, <3>2, <4>2, Zenon DEF HsInv, Descriptors, FdLostOnlyAcross, cliVars
    <3>3. CASE tok.k = "fd" /\ cur > 1 /\ ~LateFdMode
      <4>1. setup.entry # "r34" /\ Steady
        <5>1. setup.entry # "r34"
          BY <3>3 DEF HsInv, HsType, Phase
        <5>2. QED
          BY <3>3, <5>1, Zenon DEF Steady
      <4>2. sfd = Fixed /\ rmode[c] = sfd
        BY <1>6, <2>1, <4>1, Zenon DEF HsInv, Descriptors
      <4>3. FdAgreed /\ setup.unix
        BY <1>5, <3>3, <4>1, Zenon DEF MsgOk
      <4>4. ~OneSided => Fixed
        <5>1. Agreed # R34Wire
          BY <1>6, <4>1, HsAssumption DEF HsInv, Versions, R34Wire
        <5>2. QED
          BY <4>3, <5>1, Zenon DEF OneSided, Fixed, FdAgreed
      <4>5. ~OneSided => rmode[c]
        BY <4>2, <4>4
      <4>6. QED
        BY <1>1, <1>7, <1>9, <3>3, <4>5, Zenon DEF HsInv, Descriptors, FdLostOnlyAcross, cliVars
    <3>4. cur = 1 \/ cur > 1
      BY UpToCur
    <3>5. LateFdMode /\ cur > 1 => FdLostOnlyAcross'
      BY <1>1, Zenon DEF FdLostOnlyAcross, cliVars
    <3>6. QED
      BY <3>1, <3>2, <3>3, <3>4, <3>5, Zenon
  <2>3. ASSUME cur = 1, Alone PROVE Alone'
    <3>1. c = 1 /\ Will = rmode[1] /\ srv[1] \in Reading /\ rmode' = rmode
      BY <1>1, <1>24, <2>1, <2>3, Zenon DEF Reading, Serving, Will
    <3>2. \A i \in 1 .. Len(up'[1]) : \E j \in 1 .. Len(up[1]) : up'[1][i] = up[1][j]
      BY <1>3, <3>1, Zenon
    <3>3. 1 \notin dead => 1 \in pool
      BY <1>6, Zenon DEF HsInv, Phase
    <3>4. CASE tok.k = "fd"
      <4>1. Will' = Will
        BY <1>7, <1>9, <3>1, <3>4, WillKept, Zenon
      <4>2. QED
        BY <1>1, <1>7, <1>11, <2>3, <3>1, <3>2, <3>4, <4>1, AloneServed, Zenon
    <3>5. CASE tok.k \notin {"fd", "GET_FD_MODE"}
      <4>1. srv'[1] = srv[1] /\ tok.k \in Requests
        BY <1>5, <1>9, <1>2, <3>1, <3>5, Zenon DEF MsgOk
      <4>2. Will' = Will
        BY <1>7, <3>1, <4>1, WillKept, Zenon
      <4>3. 1 \notin dead => cli # "wait_fd"
        BY <1>19, <3>1, <3>3, <3>5, <4>1, WaitsFor, Zenon
      <4>4. 1 \notin dead' => 1 \notin dead /\ ~Replied /\ ~Replied'
        BY <1>1, <4>3, Zenon DEF Replied, cliVars
      <4>5. 1 \notin dead' /\ ~Replied' /\ cfd' => Will
        BY <1>1, <2>3, <4>4, Zenon DEF Alone, cliVars
      <4>6. \A i \in 1 .. Len(up'[1]) : up'[1][i].k = "fd" =>
                Will \/ \E j \in 1 .. Len(up[1]) : up[1][j].k = "fd"
        BY <3>2, Zenon
      <4>7. QED
        BY <1>1, <1>7, <2>3, <3>1, <4>2, <4>4, <4>5, <4>6, AloneKept, Zenon DEF cliVars
    <3>6. CASE tok.k = "GET_FD_MODE"
      <4>1. \A i \in 1 .. Len(up'[1]) : FALSE
        <5>1. tok.k \in Requests
          BY <3>6, Zenon DEF Requests
        <5>2. 1 = Len(up[c])
          BY <1>3, <1>4, <3>1, <5>1, Zenon DEF HsInv, UpStream, StreamOk
        <5>3. QED
          BY <1>3, <3>1, <5>2
      <4>2. SpecialReply(tok) = 1 => Will' = TRUE
        BY <1>10, <3>1, <3>6, Zenon DEF Will, Serving
      <4>3. 1 \notin dead' => Replied' /\ down'[1][1].val = SpecialReply(tok)
        <5>1. 1 \notin dead' => /\ on = 1 /\ cli = WaitFor(tok.k) /\ Len(down'[1]) = 1
                                /\ down'[1][1].val = SpecialReply(tok)
          BY <1>1, <1>19, <3>1, <3>3, <3>6, Zenon
        <5>2. WaitFor(tok.k) = "wait_fd"
          BY <3>6, Zenon DEF WaitFor
        <5>3. Len(down'[1]) = 1 => down'[1] # <<>>
          <6>1. Len(<<>>) = 0 /\ 0 # 1
            OBVIOUS
          <6>2. QED
            BY <6>1, Zenon
        <5>4. QED
          BY <1>1, <5>1, <5>2, <5>3, Zenon DEF Replied, cliVars
      <4>4. cver' # NoVersion
        BY <1>1, <1>6, Zenon DEF cliVars
      <4>5. QED
        BY <4>1, <4>2, <4>3, <4>4, Zenon DEF Alone
    <3>7. QED
      BY <3>4, <3>5, <3>6, Zenon
  <2>4. \A x \in HsConns : (Steady \/ cur = 1) /\ srv'[x] = "recv" => rmode'[x] = sfd
    BY <1>1, <1>10, <2>1, Zenon DEF HsInv, Descriptors
  <2>5. QED
    BY <1>1, <1>6, <1>7, <2>2, <2>3, <2>4, Zenon DEF HsInv, Descriptors, cliVars
<1>26. QED
  BY <1>8, <1>13, <1>15, <1>16, <1>17, <1>18, <1>20, <1>21, <1>22, <1>23, <1>25, Zenon DEF HsInv

\* The initial states satisfy the inductive invariant.
LEMMA HsInitially == HsInit => HsInv
<1> SUFFICES ASSUME HsInit PROVE HsInv
  BY Zenon
<1>1. PICK s \in Setups, m \in Offers :
        (s.entry \in {"r34", "fd"} => s.local = 1 /\ ~s.unix) /\ HsStart(s, m, "connect")
  BY Zenon DEF HsInit
<1>2. /\ setup = s /\ smax = m /\ cli = "connect" /\ cur = 1 /\ want = 1
      /\ cver = NoVersion /\ cfd = FALSE /\ pool = {} /\ on = 1 /\ armed = FALSE /\ why = "none"
      /\ inc = [c \in HsConns |-> FALSE]
      /\ up = [c \in HsConns |-> <<>>] /\ down = [c \in HsConns |-> <<>>] /\ dead = {}
      /\ srv = [c \in HsConns |-> "idle"] /\ offer = [c \in HsConns |-> NoVersion]
      /\ sver = NoVersion /\ sfd = FALSE /\ slots = {}
      /\ rmode = [c \in HsConns |-> FALSE] /\ decoded = {} /\ lost = FALSE
      /\ calls = 0 /\ reconfigs = 0 /\ faults = 0
  BY <1>1, Zenon DEF HsStart
<1>3. 1 \in HsConns /\ HsConns \subseteq Nat /\ \A c \in HsConns : c >= 1
  BY HsAssumption DEF HsConns
<1>4. /\ inc[1] = FALSE /\ srv[1] = "idle" /\ up[1] = <<>> /\ down[1] = <<>>
      /\ \A c \in HsConns : /\ inc[c] = FALSE /\ srv[c] = "idle" /\ up[c] = <<>> /\ down[c] = <<>>
                            /\ offer[c] = NoVersion
  BY <1>2, <1>3, Zenon
<1>5. HsType
  <2>1. <<>> \in Seq(Tokens) /\ NoVersion \in Int /\ 1 \in 1 .. MaxConns
    BY HsAssumption DEF NoVersion
  <2>2. up \in [HsConns -> Seq(Tokens)] /\ down \in [HsConns -> Seq(Tokens)]
    BY <1>2, <2>1, Zenon
  <2>3. srv \in [HsConns -> SrvLabels] /\ cli \in CliLabels
    BY <1>2, Zenon DEF SrvLabels, CliLabels
  <2>4. offer \in [HsConns -> Offers \union {NoVersion}] /\ inc \in [HsConns -> BOOLEAN]
        /\ rmode \in [HsConns -> BOOLEAN]
    BY <1>2, Zenon
  <2>5. QED
    BY <1>1, <1>2, <1>3, <2>1, <2>2, <2>3, <2>4, Zenon DEF HsType
<1>6. Phase
  <2>1. setup.threads \in Nat /\ setup.threads >= 1
    BY <1>2, HsAssumption DEF Setups
  <2>2. QED
    BY <1>2, <1>4, <2>1 DEF Phase, Sizing, Waiting
<1>7. Versions
  BY <1>2, <1>4, Zenon DEF Versions
<1>8. Workers
  BY <1>2, <1>4, Zenon DEF Workers, WorkerOk, Serving, Early
<1>9. UpStream
  BY <1>4, Zenon DEF UpStream, StreamOk, Reading, Serving
<1>10. DownStream
  BY <1>2, <1>4, Zenon DEF DownStream, FoundingOk
<1>11. Outstanding
  <2>1. \A i \in 1 .. Len(up[cur]) : FALSE
    BY <1>2, <1>4
  <2>2. QED
    BY <1>2, <2>1, Zenon DEF Outstanding
<1>12. Descriptors
  <2>1. Will = Fixed
    BY <1>4, Zenon DEF Will
  <2>2. Alone
    BY <1>2, <1>4, <2>1, Zenon DEF Alone, Replied, Reading, Serving
  <2>3. \A c \in HsConns : rmode[c] = FALSE
    BY <1>2, Zenon
  <2>4. QED
    BY <1>2, <1>4, <2>2, <2>3, Zenon DEF Descriptors, FdLostOnlyAcross
<1>13. Founds /\ DecodedAsEncoded /\ FoundingFailsForCause /\ TimedOut
  BY <1>2, Zenon DEF Founds, DecodedAsEncoded, FoundingFailsForCause, TimedOut
<1>14. AdvertisedIsAccepted
  BY <1>2, <1>4 DEF AdvertisedIsAccepted
<1>15. QED
  BY <1>5, <1>6, <1>7, <1>8, <1>9, <1>10, <1>11, <1>12, <1>13, <1>14, Zenon DEF HsInv

\* So does a step that changes nothing.
LEMMA HsStutter == ASSUME HsInv, UNCHANGED hsVars PROVE HsInv'
<1>1. UNCHANGED <<setup, cliVars, hsSrvVars, netVars, smax, decoded, lost, calls, reconfigs, faults>>
  BY Zenon DEF hsVars
<1>2. HsType'
  BY <1>1, Zenon DEF HsInv, HsType, cliVars, hsSrvVars, netVars
<1>3. Agreed' = Agreed /\ FdAgreed' = FdAgreed /\ NoCommon' = NoCommon /\ OneSided' = OneSided
      /\ Fixed' = Fixed /\ Steady' = Steady
  BY <1>1, SameAgreement, Zenon DEF hsSrvVars
<1>4. Phase'
  BY <1>1, <1>3, Zenon DEF HsInv, Phase, cliVars, hsSrvVars, netVars
<1>5. Versions'
  BY <1>1, <1>3, Zenon DEF HsInv, Versions, cliVars, hsSrvVars
<1>6. Workers'
  BY <1>1, <1>3, Zenon DEF HsInv, Workers, WorkerOk, cliVars, hsSrvVars, netVars
<1>7. UpStream'
  BY <1>1, <1>3, StreamKept, Zenon DEF HsInv, UpStream, Gone, cliVars, hsSrvVars, netVars
<1>8. DownStream'
  BY <1>1, <1>3, Zenon DEF HsInv, DownStream, FoundingOk, RepliesOk, Response, cliVars,
     hsSrvVars,
     netVars
<1>9. Outstanding'
  <2>1. \A x \in pool : SlotOk(x)'
    BY <1>1, <1>3, SlotKept, Zenon DEF HsInv, HsType, Outstanding, cliVars, netVars
  <2>2. QED
    BY <1>1, <2>1, Zenon DEF HsInv, Outstanding, cliVars, netVars
<1>10. Descriptors'
  <2>1. Will' = Will
    BY <1>1, <1>3, WillKept, Zenon DEF hsSrvVars
  <2>2. Alone => Alone'
    BY <1>1, <1>3, <2>1, AloneServed, Zenon DEF hsSrvVars, netVars
  <2>3. QED
    BY <1>1, <1>3, <2>2, DescriptorsKept, Zenon DEF HsInv, Descriptors, cliVars, hsSrvVars
<1>11. Founds' /\ FoundingFailsForCause' /\ TimedOut' /\ DecodedAsEncoded' /\ AdvertisedIsAccepted'
  BY <1>1, <1>3, Zenon DEF HsInv, Founds, FoundingFailsForCause, TimedOut, DecodedAsEncoded,
     AdvertisedIsAccepted, SessionAlive, cliVars, hsSrvVars, netVars
<1>12. QED
  BY <1>2, <1>4, <1>5, <1>6, <1>7, <1>8, <1>9, <1>10, <1>11, Zenon DEF HsInv

-----------------------------------------------------------------------------
(* The admission of an attach counts the slots of the session. *)

\* Some of the first n connections, one of them not among them, are fewer than n
\* (SlotsCounted proves it).
Counting ==
    \A n \in Nat : \A c \in 1 .. n : \A S \in SUBSET ((1 .. n) \ {c}) :
        Cardinality(S) \in Nat /\ Cardinality(S) <= n - 1

\* Least, applied twice.
LEMMA LeastOfTwo ==
    ASSUME NEW a \in Int, NEW b \in Int
    PROVE  Least(a, b) \in Int /\ Least(Least(a, b), b) = Least(a, b) /\ Least(a, b) \in {a, b}
BY Zenon DEF Least

\* An attach of the fan-out finds its version and a free slot.
LEMMA AttachAccepted ==
    ASSUME Counting, HsInv, NEW c \in HsConns, c # 1, srv[c] \in {"header", "attach_init"},
           reconfigs = 0, setup.entry = "a13"
    PROVE  /\ Least(Version(c), offer[c]) \in Implemented /\ sver = Least(Version(c), offer[c])
           /\ AttachFits(FALSE) /\ ~inc[c]
<1>1. /\ c \in Nat /\ cur \in Nat /\ c >= 2 /\ c <= cur /\ cur > 1 /\ 1 \in HsConns
      /\ offer[c] # NoVersion
  <2>1. c \in Nat /\ cur \in Nat /\ c >= 2 /\ 1 \in HsConns
    BY HsAssumption, UpToCur DEF HsConns
  <2>2. ~(c > cur) /\ offer[c] # NoVersion
    BY Zenon DEF HsInv, Workers, WorkerOk
  <2>3. QED
    BY <2>1, <2>2
<1>2. cver # NoVersion /\ cver = Agreed /\ sver = cver
  BY <1>1 DEF HsInv, Phase, Versions
<1>3. offer[1] = smax /\ offer[c] = smax /\ Agreed \in Implemented
  BY <1>1, <1>2, Zenon DEF HsInv, Versions
<1>4. Agreed = Least(setup.max, smax) /\ Version(c) = cver
  BY <1>3, Zenon DEF Agreed, Version
<1>5. setup.max \in Int /\ smax \in Int
  <2>1. \A x \in Offers : x \in Int
    BY HsAssumption
  <2>2. setup.max \in Offers /\ smax \in Offers
    BY Zenon DEF HsInv, HsType, Setups
  <2>3. QED
    BY <2>1, <2>2, Zenon
<1>6. Least(Version(c), offer[c]) = Agreed
  <2>1. Least(Version(c), offer[c]) = Least(Least(setup.max, smax), smax)
    BY <1>2, <1>3, <1>4, Zenon
  <2>2. QED
    BY <1>4, <1>5, <2>1, LeastOfTwo, Zenon
<1>7. slots \subseteq (1 .. cur) \ {c}
  <2> SUFFICES ASSUME NEW x \in slots PROVE x \in 1 .. cur /\ x # c
    BY Zenon
  <2>1. srv[x] \in Serving \union {"callback"} /\ x \in HsConns
    BY Zenon DEF HsInv, Workers, HsType
  <2>2. x # c /\ ~(x > cur)
    BY <2>1, Zenon DEF HsInv, Workers, WorkerOk, Serving
  <2>3. x \in Nat /\ x >= 1
    BY <2>1, HsAssumption DEF HsConns
  <2>4. QED
    BY <1>1, <2>2, <2>3
<1>8. Cardinality(slots) \in Nat /\ Cardinality(slots) <= cur - 1
  <2>1. slots \in SUBSET ((1 .. cur) \ {c}) /\ c \in 1 .. cur
    BY <1>1, <1>7
  <2>2. QED
    BY <1>1, <2>1, Zenon DEF Counting
<1>9. cur <= want /\ want <= setup.threads /\ ~inc[c] /\ want \in Nat /\ setup.threads \in Nat
  BY HsAssumption DEF HsInv, HsType, Phase, Setups
<1>10. AttachFits(FALSE)
  BY <1>1, <1>8, <1>9 DEF AttachFits
<1>11. QED
  BY <1>2, <1>3, <1>6, <1>9, <1>10, Zenon

\* server_accept up to the exchange of "cci".
LEMMA ReadHeaderStep == ASSUME Counting, HsInv, NEW c \in HsConns, ReadHeader(c) PROVE HsInv'
<1>1. /\ srv[c] = "header" /\ up[c] # <<>> /\ TakeUp(c)
      /\ UNCHANGED <<setup, cliVars, inc, offer, smax, decoded, lost, calls, reconfigs, faults>>
  BY Zenon DEF ReadHeader
<1>2. Head(up[c]) = Header(c)
  <2>1. up \in [HsConns -> Seq(Tokens)]
    BY Zenon DEF HsInv, HsType
  <2>2. Head(up[c]) = up[c][1] /\ 1 \in 1 .. Len(up[c])
    BY <1>1, <2>1
  <2>3. Gone(c) = 0 /\ srv[c] \in Reading
    BY <1>1, Zenon DEF Gone, Reading
  <2>4. UpOk(c, 1)
    BY <2>2, <2>3, Zenon DEF HsInv, UpStream, StreamOk
  <2>5. QED
    BY <2>2, <2>3, <2>4 DEF UpOk
<1>3. PICK n \in Int : n = Least(Version(c), offer[c])
  <2>1. \A x \in Offers : x \in Int
    BY HsAssumption
  <2>2. setup.max \in Int /\ cver \in Int /\ offer[c] \in Int
    BY <2>1 DEF HsInv, HsType, Setups, NoVersion
  <2>3. QED
    BY <2>2, LeastOfTwo, Zenon DEF Version
<1>4. /\ Head(up[c]).new = (c = 1) /\ Head(up[c]).incoming = inc[c]
      /\ Head(up[c]).unix = setup.unix /\ Least(Head(up[c]).v, offer[c]) = n
  BY <1>2, <1>3 DEF Header
<1>5. /\ c = 1 => n = Agreed /\ (n \notin Implemented => NoCommon)
      /\ offer[c] # NoVersion /\ 1 \in HsConns
  <2>1. offer[c] # NoVersion /\ setup.entry # "r34"
    BY <1>1, Zenon DEF HsInv, Workers, WorkerOk
  <2>2. QED
    BY <1>3, <2>1, UpToCur, Zenon DEF Agreed, NoCommon, Version
<1>6. down \in [HsConns -> Seq(Tokens)] /\ rmode \in [HsConns -> BOOLEAN] /\ slots \subseteq HsConns
      /\ down[c] = <<>> /\ inc[c] \in BOOLEAN /\ dead \subseteq HsConns /\ sfd \in BOOLEAN
  BY <1>1, Zenon DEF HsInv, HsType, Workers, WorkerOk, Early
<1>7. \/ n \notin Implemented /\ Refuse(c) /\ down' = down
      \/ n \in Implemented /\ c = 1 /\ SendDown(c, <<Response>> \o <<>>) /\ inc[c] /\ Refuse(c)
      \/ /\ n \in Implemented /\ c = 1 /\ SendDown(c, <<Response>> \o <<>>) /\ ~inc[c]
         /\ srv' = [srv EXCEPT ![c] = "new_init"] /\ UNCHANGED <<dead, sver, sfd, slots, rmode>>
      \/ /\ n \in Implemented /\ c # 1 /\ inc[c]
         /\ SendDown(c, <<>> \o <<[k |-> "cci", v |-> n]>>)
         /\ Admit(c, Head(up[c]), n)
      \/ /\ n \in Implemented /\ c # 1 /\ ~inc[c] /\ SendDown(c, <<>> \o <<>>)
         /\ srv' = [srv EXCEPT ![c] = "attach_init"] /\ UNCHANGED <<dead, sver, sfd, slots, rmode>>
  <2>1. \/ n \notin Implemented /\ Refuse(c) /\ UNCHANGED down
        \/ /\ n \in Implemented
           /\ SendDown(c, (IF c = 1 THEN <<[k |-> "response", v |-> n, val |-> n]>> ELSE <<>>)
                          \o (IF inc[c] /\ ~(c = 1) THEN <<[k |-> "cci", v |-> n]>> ELSE <<>>))
           /\ \/ c = 1 /\ inc[c] /\ Refuse(c)
              \/ ~(c = 1) /\ inc[c] /\ Admit(c, Head(up[c]), n)
              \/ /\ ~inc[c] /\ ~(c = 1 /\ inc[c])
                 /\ srv' = [srv EXCEPT ![c] = IF c = 1 THEN "new_init" ELSE "attach_init"]
                 /\ UNCHANGED <<dead, sver, sfd, slots, rmode>>
    BY <1>4, Zenon DEF ReadHeader, ServerSendsInit, ResponseVersion
  <2>2. c = 1 => Response = [k |-> "response", v |-> n, val |-> n]
    BY <1>5, Zenon DEF Response
  <2>3. QED
    BY <2>1, <2>2, Zenon
<1>8. c = 1 /\ SendDown(c, <<Response>> \o <<>>) =>
        /\ down' \in [HsConns -> Seq(Tokens)] /\ down'[1] = <<Response>>
        /\ \A x \in HsConns : x # c => down'[x] = down[x]
  <2> SUFFICES ASSUME c = 1, SendDown(c, <<Response>> \o <<>>)
               PROVE  /\ down' \in [HsConns -> Seq(Tokens)] /\ down'[1] = <<Response>>
                      /\ \A x \in HsConns : x # c => down'[x] = down[x]
    BY Zenon
  <2>1. PICK t \in Tokens : t = Response
    BY <1>5, MessageToken, Zenon DEF Response, MsgKinds
  <2>2. <<t>> \o <<>> = <<t>> /\ <<t>> \in Seq(Tokens) /\ <<>> \o <<t>> = <<t>>
    OBVIOUS
  <2>3. down' = [down EXCEPT ![c] = <<t>>]
    BY <1>6, <2>1, <2>2, Zenon DEF SendDown
  <2>4. QED
    BY <1>6, <2>1, <2>2, <2>3, Zenon
<1>9. SendDown(c, <<>> \o <<[k |-> "cci", v |-> n]>>) =>
        /\ down' \in [HsConns -> Seq(Tokens)]
        /\ \A x \in HsConns : x # c => down'[x] = down[x]
  <2> SUFFICES ASSUME SendDown(c, <<>> \o <<[k |-> "cci", v |-> n]>>)
               PROVE  /\ down' \in [HsConns -> Seq(Tokens)]
                      /\ \A x \in HsConns : x # c => down'[x] = down[x]
    BY Zenon
  <2>1. PICK t \in Tokens : t = [k |-> "cci", v |-> n]
    <3>1. [k |-> "cci", v |-> n] \in [k : {"cci"}, v : Int]
      BY Zenon
    <3>2. QED
      BY <3>1, Zenon DEF Tokens
  <2>2. <<>> \o <<t>> = <<t>> /\ <<t>> \in Seq(Tokens)
    OBVIOUS
  <2>3. down' = [down EXCEPT ![c] = <<t>>]
    BY <1>6, <2>1, <2>2, Zenon DEF SendDown
  <2>4. QED
    BY <1>6, <2>2, <2>3, Zenon
<1>10. SendDown(c, <<>> \o <<>>) => down' = down
  BY <1>6 DEF SendDown
<1>11. Refuse(c) /\ c # 1 /\ ~inc[c] => ~(reconfigs = 0 /\ setup.entry = "a13") \/ n \in Implemented
  BY <1>1, <1>3, AttachAccepted, Zenon
<1>12. c # 1 /\ inc[c] => ~(setup.entry = "a13")
  BY Zenon DEF HsInv, Phase
<1>13. CASE n \notin Implemented /\ Refuse(c) /\ down' = down
  BY <1>1, <1>5, <1>6, <1>11, <1>12, <1>13, ReadOnStep, Zenon DEF Refuse
<1>14. CASE /\ n \in Implemented /\ c = 1 /\ SendDown(c, <<Response>> \o <<>>) /\ inc[c]
            /\ Refuse(c)
  BY <1>1, <1>5, <1>6, <1>8, <1>14, ReadOnStep, Zenon DEF Refuse
<1>15. CASE /\ n \in Implemented /\ c = 1 /\ SendDown(c, <<Response>> \o <<>>) /\ ~inc[c]
            /\ srv' = [srv EXCEPT ![c] = "new_init"] /\ UNCHANGED <<dead, sver, sfd, slots, rmode>>
  BY <1>1, <1>5, <1>6, <1>8, <1>15, ReadOnStep, Zenon
<1>16. CASE /\ n \in Implemented /\ c # 1 /\ inc[c]
            /\ SendDown(c, <<>> \o <<[k |-> "cci", v |-> n]>>) /\ Admit(c, Head(up[c]), n)
  <2>1. \/ Refuse(c)
        \/ /\ sver = n /\ srv' = [srv EXCEPT ![c] = "callback"]
           /\ rmode' = [rmode EXCEPT ![c] = sfd] /\ slots' = slots \union {c}
           /\ UNCHANGED <<sver, sfd, dead>>
    BY <1>4, <1>16, Zenon DEF Admit
  <2>2. CASE Refuse(c)
    BY <1>1, <1>6, <1>9, <1>12, <1>16, <2>2, ReadOnStep, Zenon DEF Refuse
  <2>3. CASE /\ sver = n /\ srv' = [srv EXCEPT ![c] = "callback"]
             /\ rmode' = [rmode EXCEPT ![c] = sfd] /\ slots' = slots \union {c}
             /\ UNCHANGED <<sver, sfd, dead>>
    <3>1. sver # NoVersion
      BY <1>16, <2>3, HsAssumption DEF NoVersion
    <3>2. /\ rmode' \in [HsConns -> BOOLEAN] /\ slots' \subseteq HsConns
          /\ \A x \in HsConns : x # c => rmode'[x] = rmode[x]
      BY <1>6, <2>3, Zenon
    <3>3. QED
      BY <1>1, <1>6, <1>9, <1>12, <1>16, <2>3, <3>1, <3>2, ReadOnStep, Zenon
  <2>4. QED
    BY <2>1, <2>2, <2>3, Zenon
<1>17. CASE /\ n \in Implemented /\ c # 1 /\ ~inc[c] /\ SendDown(c, <<>> \o <<>>)
            /\ srv' = [srv EXCEPT ![c] = "attach_init"] /\ UNCHANGED <<dead, sver, sfd, slots, rmode>>
  BY <1>1, <1>6, <1>10, <1>17, ReadOnStep, Zenon
<1>18. QED
  BY <1>7, <1>13, <1>14, <1>15, <1>16, <1>17, Zenon

\* The client's "cci", then the admission.
LEMMA ReadClientInitStep == ASSUME Counting, HsInv, NEW c \in HsConns, ReadClientInit(c) PROVE HsInv'
<1>1. /\ srv[c] \in {"new_init", "attach_init"} /\ up[c] # <<>> /\ TakeUp(c) /\ down' = down
      /\ UNCHANGED <<setup, cliVars, inc, offer, smax, decoded, lost, calls, reconfigs, faults>>
  BY Zenon DEF ReadClientInit
<1>2. Head(up[c]) = Cci(c)
  <2>1. up \in [HsConns -> Seq(Tokens)]
    BY DEF HsInv, HsType
  <2>2. Head(up[c]) = up[c][1] /\ 1 \in 1 .. Len(up[c])
    BY <1>1, <2>1
  <2>3. Gone(c) = 1 /\ srv[c] \in Reading
    BY <1>1, Zenon DEF Gone, Reading
  <2>4. UpOk(c, 1)
    BY <2>2, <2>3, Zenon DEF HsInv, UpStream, StreamOk
  <2>5. QED
    BY <2>2, <2>3, <2>4 DEF UpOk
<1>3. PICK n : n = Least(Version(c), offer[c])
  BY Zenon
<1>4. /\ srv[c] = "new_init" <=> c = 1
      /\ ~inc[c] /\ 1 \in HsConns /\ setup.entry # "r34" /\ ~(c > cur)
  BY <1>1, UpToCur, Zenon DEF HsInv, Workers, WorkerOk
<1>5. Admit(c, [new |-> c = 1, incoming |-> FALSE, unix |-> setup.unix], n)
  <2>1. inc[c] = FALSE /\ (srv[c] = "new_init") = (c = 1) /\ Head(up[c]).v = Version(c)
    BY <1>2, <1>4 DEF HsInv, HsType, Cci
  <2>2. QED
    BY <1>3, <2>1, Zenon DEF ReadClientInit
<1>6. \/ c = 1 /\ FoundSession(c, n, setup.unix)
      \/ c # 1 /\ (~SessionAlive \/ sver # n \/ ~AttachFits(FALSE)) /\ Refuse(c)
      \/ /\ c # 1 /\ SessionAlive /\ srv' = [srv EXCEPT ![c] = "recv"] /\ rmode' = [rmode EXCEPT ![c] = sfd]
         /\ slots' = slots \union {c} /\ UNCHANGED <<sver, sfd, dead>>
  <2>1. PICK hdr : hdr = [new |-> c = 1, incoming |-> FALSE, unix |-> setup.unix]
    BY Zenon
  <2>2. hdr.new = (c = 1) /\ hdr.incoming = FALSE /\ hdr.unix = setup.unix
    BY <2>1, Zenon
  <2>3. Admit(c, hdr, n)
    BY <1>5, <2>1, Zenon
  <2>4. QED
    BY <2>2, <2>3, Zenon DEF Admit
<1>7. /\ down \in [HsConns -> Seq(Tokens)] /\ rmode \in [HsConns -> BOOLEAN] /\ slots \subseteq HsConns
      /\ dead \subseteq HsConns /\ sfd \in BOOLEAN /\ srv \in [HsConns -> SrvLabels]
      /\ up \in [HsConns -> Seq(Tokens)] /\ setup.unix \in BOOLEAN /\ setup.fdUnix \in BOOLEAN
      /\ offer \in [HsConns -> Offers \union {NoVersion}] /\ cur \in HsConns /\ setup.max \in Offers
  BY Zenon DEF HsInv, HsType, Setups
<1>8. CASE c # 1 /\ (~SessionAlive \/ sver # n \/ ~AttachFits(FALSE)) /\ Refuse(c)
  <2>1. srv[c] = "attach_init"
    BY <1>1, <1>4, <1>8, Zenon
  <2>2. ~(reconfigs = 0 /\ setup.entry = "a13") \/ ~SessionAlive
    BY <1>3, <1>8, <2>1, AttachAccepted, Zenon
  <2>3. QED
    BY <1>1, <1>7, <1>8, <2>1, <2>2, ReadOnStep, Zenon DEF Refuse
<1>9. ASSUME srv' = [srv EXCEPT ![c] = "recv"], slots' = slots \union {c}, dead' = dead,
             sver' = sver \/ (sver' = Agreed /\ srv[1] = "new_init" /\ c = 1), sver' # NoVersion,
             SessionAlive \/ cur = 1
      PROVE  /\ Phase' /\ Versions' /\ Workers' /\ UpStream' /\ DownStream' /\ Outstanding'
             /\ Founds' /\ DecodedAsEncoded' /\ FoundingFailsForCause' /\ TimedOut'
             /\ AdvertisedIsAccepted' /\ srv'[c] = "recv" /\ srv' \in [HsConns -> SrvLabels]
             /\ slots' \subseteq HsConns /\ up' \in [HsConns -> Seq(Tokens)]
  <2>1. /\ "recv" \in SrvLabels /\ "recv" \notin Early /\ "recv" \in Serving /\ "recv" \in Reading
    BY Zenon DEF SrvLabels, Early, Serving, Reading
  <2>2. /\ srv'[c] = "recv" /\ \A x \in HsConns : x # c => srv'[x] = srv[x]
        /\ srv' \in [HsConns -> SrvLabels]
    BY <1>7, <1>9, <2>1, Zenon
  <2>3. Gone(c)' = Gone(c) + 1
    BY <1>1, <2>2 DEF Gone
  <2>4. \A x \in slots' : x \in slots \/ (x = c /\ "recv" \in Serving \union {"callback"})
    BY <1>9, <2>1, Zenon
  <2>5. slots' \subseteq HsConns
    BY <1>7, <1>9, Zenon
  <2>6. /\ Phase' /\ Versions' /\ Workers' /\ UpStream' /\ DownStream' /\ Outstanding' /\ Founds'
        /\ DecodedAsEncoded' /\ FoundingFailsForCause' /\ TimedOut'
    <3>1. PICK l \in SrvLabels : l = "recv"
      BY <2>1, Zenon
    <3>2. QED
      BY <1>1, <1>7, <1>9, <2>1, <2>3, <2>4, <2>5, <3>1, HandshakeRead, Zenon
  <2>7. AdvertisedIsAccepted'
    <3>1. CASE SessionAlive
      <4>1. \A x \in HsConns : srv'[x] = "refused" => srv[x] = "refused"
        BY <2>2, Zenon
      <4>2. QED
        BY <1>1, <3>1, <4>1, AcceptedKept, Zenon DEF cliVars
    <3>2. CASE cur = 1
      <4>1. 2 .. cur' = {}
        BY <1>1, <3>2 DEF cliVars
      <4>2. QED
        BY <4>1, Zenon DEF AdvertisedIsAccepted
    <3>3. QED
      BY <1>9, <3>1, <3>2, Zenon
  <2>8. up' \in [HsConns -> Seq(Tokens)]
    BY <1>1, <1>7, Taken, Zenon DEF TakeUp
  <2>9. QED
    BY <2>2, <2>5, <2>6, <2>7, <2>8, Zenon
<1>10. Agreed' = Agreed /\ FdAgreed' = FdAgreed /\ OneSided' = OneSided
      /\ Fixed' = Fixed /\ Steady' = Steady
  BY <1>1, SameAgreement, Zenon
<1>11. CASE /\ c # 1 /\ SessionAlive /\ srv' = [srv EXCEPT ![c] = "recv"] /\ rmode' = [rmode EXCEPT ![c] = sfd]
            /\ slots' = slots \union {c} /\ UNCHANGED <<sver, sfd, dead>>
  <2>1. cur # 1 /\ sver # NoVersion
    <3>1. cur > 1
      BY <1>4, <1>11, HsAssumption DEF HsConns, HsInv, HsType
    <3>2. QED
      BY <3>1 DEF HsInv, Phase
  <2>2. rmode' \in [HsConns -> BOOLEAN]
    BY <1>7, <1>11, Zenon
  <2>3. HsType'
    BY <1>1, <1>9, <1>11, <2>1, <2>2, Zenon DEF HsInv, HsType, cliVars
  <2>4. Descriptors'
    <3>1. \A x \in HsConns : IF x = c THEN rmode'[x] = sfd ELSE rmode'[x] = rmode[x] /\ srv'[x] = srv[x]
      BY <1>7, <1>11, Zenon
    <3>2. \A x \in HsConns : (Steady \/ cur = 1) /\ srv'[x] = "recv" => rmode'[x] = sfd
      BY <3>1, Zenon DEF HsInv, Descriptors
    <3>3. QED
      BY <1>1, <1>10, <1>11, <2>1, <3>2, Zenon DEF HsInv, Descriptors, FdLostOnlyAcross, cliVars
  <2>5. QED
    BY <1>9, <1>11, <2>1, <2>3, <2>4, Zenon DEF HsInv
<1>12. CASE c = 1 /\ FoundSession(c, n, setup.unix)
  <2>1. /\ srv' = [srv EXCEPT ![c] = "recv"] /\ sver' = n /\ slots' = slots \union {c}
        /\ sfd' = (setup.fdUnix /\ setup.unix /\ n >= 1) /\ dead' = dead
        /\ rmode' = [rmode EXCEPT ![c] = setup.fdUnix /\ setup.unix /\ n >= 1]
    BY <1>12, Zenon DEF FoundSession
  <2>2. n = Agreed /\ srv[1] = "new_init"
    BY <1>3, <1>4, <1>12, Zenon DEF Agreed, Version
  <2>3. n \in Nat /\ n # NoVersion
    <3>1. n \in Implemented
      BY <1>4, <2>2, Zenon DEF HsInv, Versions
    <3>2. QED
      BY <3>1, HsAssumption DEF NoVersion
  <2>4. sfd' \in BOOLEAN /\ (sfd' => sver' # 0) /\ rmode' \in [HsConns -> BOOLEAN] /\ rmode'[1] = sfd'
    <3>1. PICK b \in BOOLEAN : b = (setup.fdUnix /\ setup.unix /\ n >= 1)
      BY Zenon
    <3>2. sfd' = b /\ rmode' = [rmode EXCEPT ![c] = b]
      BY <2>1, <3>1, Zenon
    <3>3. n >= 1 => n # 0
      BY <2>3
    <3>4. rmode' \in [HsConns -> BOOLEAN] /\ rmode'[1] = b
      BY <1>4, <1>7, <1>12, <3>2, Zenon
    <3>5. QED
      BY <2>1, <3>1, <3>2, <3>3, <3>4, Zenon
  <2>5. HsType'
    <3>1. sver' \in Int /\ dead' \subseteq HsConns
      BY <2>1, <2>3 DEF HsInv, HsType
    <3>2. srv' \in [HsConns -> SrvLabels] /\ slots' \subseteq HsConns /\ up' \in [HsConns -> Seq(Tokens)]
      BY <1>7, <1>12, <2>1, <1>1, Taken, Zenon DEF TakeUp, SrvLabels
    <3>3. QED
      BY <1>1, <2>4, <3>1, <3>2, Zenon DEF HsInv, HsType, cliVars
  <2>6. cur = 1 /\ sfd' = Fixed
    <3>1. sver = NoVersion
      BY <2>2, <1>4, Zenon DEF HsInv, Workers, WorkerOk
    <3>2. cur \in Nat /\ cur >= 1 /\ ~(cur > 1)
      BY <3>1, UpToCur DEF HsInv, Phase
    <3>3. cur = 1
      BY <3>2
    <3>4. sfd' = Fixed
      BY <1>4, <2>1, <2>2, Zenon DEF Fixed
    <3>5. QED
      BY <3>3, <3>4, Zenon
  <2>7. ~OneSided => Alone'
    <3> SUFFICES ASSUME ~OneSided PROVE Alone'
      BY Zenon
    <3>1. Alone /\ srv'[1] = "recv"
      BY <1>4, <1>7, <1>12, <2>1, <2>6, Zenon DEF HsInv, Descriptors
    <3>2. Will = Fixed /\ srv[1] \in Reading
      BY <2>2, Zenon DEF Will, Reading
    <3>3. Will' = Fixed
      <4>1. Will' = rmode'[1]
        BY <3>1, Zenon DEF Will
      <4>2. QED
        BY <2>4, <2>6, <4>1, Zenon
    <3>4. Will' = Will /\ 1 \in HsConns
      BY <1>4, <3>2, <3>3, Zenon
    <3>5. \A i \in 1 .. Len(up'[1]) : \E j \in 1 .. Len(up[1]) : up'[1][i] = up[1][j]
      BY <1>1, <1>7, <1>12, Taken DEF TakeUp
    <3>6. QED
      BY <1>1, <1>10, <2>1, <3>1, <3>2, <3>4, <3>5, AloneServed, Zenon
  <2>8. Descriptors'
    <3>1. \A x \in HsConns : srv'[x] = "recv" => x = 1
      <4>1. \A x \in HsConns : x = 1 \/ x > cur
        BY <2>6, HsAssumption DEF HsConns
      <4>2. \A x \in HsConns : x = 1 \/ srv[x] = "idle"
        BY <4>1, Zenon DEF HsInv, Workers, WorkerOk
      <4>3. QED
        BY <1>7, <1>12, <2>1, <4>2, Zenon
    <3>2. \A x \in HsConns : srv'[x] = "recv" => rmode'[x] = sfd'
      BY <2>4, <3>1, Zenon
    <3>3. sver' # NoVersion
      BY <2>1, <2>3, Zenon
    <3>4. QED
      BY <1>1, <1>10, <2>4, <2>6, <2>7, <3>2, <3>3, Zenon DEF HsInv, Descriptors, FdLostOnlyAcross,
         cliVars
  <2>9. QED
    BY <1>9, <1>12, <2>1, <2>2, <2>3, <2>5, <2>6, <2>8, Zenon DEF HsInv
<1>13. QED
  BY <1>6, <1>8, <1>11, <1>12, Zenon

\* Every step preserves the inductive invariant.
LEMMA HsStep == ASSUME Counting, HsInv, [HsNext]_hsVars PROVE HsInv'
<1>1. CASE ClientStep
  <2>1. ASSUME ConnectR34 \/ ConnectA13 \/ ReadInit \/ ReadResponse \/ AttachDone PROVE HsInv'
    BY <2>1, ConnectR34Step, ConnectA13Step, ReadInitStep, ReadResponseStep, AttachDoneStep, Zenon
  <2>2. ASSUME AskMaxThreads \/ AskSessionId PROVE HsInv'
    BY <2>2, AsksStep, Zenon
  <2>3. ASSUME AnswerMaxThreads \/ AnswerSessionId \/ AnswerFdMode \/ AnswerRoot PROVE HsInv'
    BY <2>3, AnswersStep, Zenon
  <2>4. QED
    BY <1>1, <2>1, <2>2, <2>3, Zenon DEF ClientStep
<1>2. CASE AskFdMode \/ AskRoot
  BY <1>2, AsksStep, Zenon
<1>3. CASE SendFd
  BY <1>3, SendFdStep, Zenon
<1>4. CASE HandshakeDeadline
  BY <1>4, HandshakeDeadlineStep
<1>5. ASSUME NEW c \in HsConns, ServerStep(c) PROVE HsInv'
  BY <1>5, AcceptStep, ReadHeaderStep, ReadClientInitStep, ServeOneStep, SwitchFdModeStep,
     WorkerEndsStep, Zenon DEF ServerStep
<1>6. CASE Reconfigure \/ Sever
  BY <1>6, ReconfigureStep, SeverStep, Zenon
<1>7. CASE UNCHANGED hsVars
  BY <1>7, HsStutter, Zenon
<1>8. QED
  BY <1>1, <1>2, <1>3, <1>4, <1>5, <1>6, <1>7, Zenon DEF HsNext

\* What the invariant says of the two ends.
LEMMA HsInvSays == ASSUME HsInv PROVE HandshakeAgrees
<1>1. DecodedAsEncoded /\ FoundingFailsForCause /\ AdvertisedIsAccepted
  BY Zenon DEF HsInv
<1>2. DeadlineOnlyInHandshake
  BY Zenon DEF HsInv, TimedOut, DeadlineOnlyInHandshake
<1>3. FdLostOnlyAcross
  BY Zenon DEF HsInv, Descriptors
<1>4. cfd => cver # 0
  <2>1. FdAgreed => Agreed # 0
    BY DEF FdAgreed, R34Wire
  <2>2. cfd => FdAgreed /\ cver = Agreed
    BY Zenon DEF HsInv, Descriptors, Versions
  <2>3. QED
    BY <2>1, <2>2, Zenon
<1>5. NoFdOnV0
  BY <1>4, Zenon DEF HsInv, Descriptors, NoFdOnV0
<1>6. QED
  BY <1>1, <1>2, <1>3, <1>5, Zenon DEF HandshakeAgrees

INSTANCE FiniteSetTheorems

\* An interval without one of its members, and the sets within it.
LEMMA SlotsCounted == Counting
<1> SUFFICES ASSUME NEW n \in Nat, NEW c \in 1 .. n, NEW S \in SUBSET ((1 .. n) \ {c})
             PROVE  Cardinality(S) \in Nat /\ Cardinality(S) <= n - 1
  BY Zenon DEF Counting
<1>1. IsFiniteSet(1 .. n) /\ Cardinality(1 .. n) = n
  BY FS_Interval
<1>2. IsFiniteSet((1 .. n) \ {c}) /\ Cardinality((1 .. n) \ {c}) = n - 1
  BY <1>1, FS_RemoveElement, Zenon
<1>3. IsFiniteSet(S) /\ Cardinality(S) <= Cardinality((1 .. n) \ {c})
  BY <1>2, FS_Subset, Zenon
<1>4. QED
  BY <1>2, <1>3, FS_CardinalityType, Zenon

\* HsInv is an invariant of the set-up of a session: of the android-13 handshake
\* on every connection, the special transactions and the fan-out, with
\* set_android13plus called and connections dying in between.
THEOREM HandshakeInvariant == HsSpec => []HsInv
<1>1. HsInit => HsInv
  BY HsInitially, Zenon
<1>2. HsInv /\ [HsNext]_hsVars => HsInv'
  BY SlotsCounted, HsStep, Zenon
<1>3. QED
  BY <1>1, <1>2, PTL DEF HsSpec

\* Every message is decoded with the version it was encoded for, no end of a
\* version-0 session switches to descriptors, a descriptor is lost only where
\* the server cannot receive any or where GET_FD_MODE switched beside other
\* connections, the founding fails only for a reason, the deadline of a
\* preconnected descriptor ends with the handshake and the fan-out is refused what
\* GET_MAX_THREADS advertised only if no connection of the session is served any
\* more: HandshakeAgrees, for every value of the constants.
THEOREM HandshakeCorrect == HsSpec => []HandshakeAgrees
<1>1. HsInv => HandshakeAgrees
  BY HsInvSays, Zenon
<1>2. QED
  BY <1>1, HandshakeInvariant, PTL
=============================================================================
