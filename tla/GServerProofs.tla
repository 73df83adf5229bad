---------------------------- MODULE GServerProofs ----------------------------
(* Proofs about GServer, for any number of failures before provisioning starts *)
(* over.                                                                      *)
EXTENDS GServer, TLAPS

HttpStates == {NoHttp} \cup [req : Requests, got : {"waiting", "good", "bad", "closed", "read"}]

\* A request leaves the socket with that request on it, or with none.
LEMMA RequestType ==
  ASSUME NEW r \in Requests, Request(r)
  PROVE  http' \in HttpStates
BY DEF Request, HttpStates, NoHttp

\* An answer that was read stays the answer to its request.
LEMMA AnsweredType ==
  ASSUME http \in HttpStates, Readable, Answered
  PROVE  http' \in HttpStates
BY DEF Answered, Readable, HttpStates, NoHttp

LEMMA ToldType ==
  ASSUME http \in HttpStates, Readable, Told
  PROVE  http' \in HttpStates
<1>1. CASE Answered BY <1>1, AnsweredType
<1>2. CASE Request("query") BY <1>2, RequestType DEF Requests
<1>q. QED BY <1>1, <1>2 DEF Told

\* What is asked again is a request of the state.
LEMMA AgainType ==
  ASSUME OTATypeflag \in Types, NEW s \in DOMAIN Again
  PROVE  Again[s] \in Requests /\ (Again[s] = "jd" <=> s = "post_jd")
<1>1. DOMAIN Again = {"get_did", "provision", "softver", "disable", "post_jd"} BY DEF Again
<1>2. CASE s = "get_did" BY <1>2 DEF Again, Requests
<1>3. CASE s = "provision" BY <1>3 DEF Again, Requests
<1>4. CASE s = "softver"
  <2>1. OTATypeflag \in Requests /\ OTATypeflag # "jd" BY DEF Types, Firmwares, Requests
  <2>q. QED BY <1>4, <2>1 DEF Again
<1>5. CASE s = "disable" BY <1>5 DEF Again, Requests
<1>6. CASE s = "post_jd" BY <1>6 DEF Again, Requests
<1>q. QED BY <1>1, <1>2, <1>3, <1>4, <1>5, <1>6

\* A push is on record: what it left behind goes with a configuration that was
\* cut, and a start clears both.
PushCuts == onlinePushflag \/ OTATypeflag = "invalid" => done = {"cut"}

LEMMA PushesCut == Spec => []PushCuts
<1>1. Init => PushCuts BY DEF Init, PushCuts
<1>2. PushCuts /\ [Next]_vars => PushCuts'
  <2> SUFFICES ASSUME PushCuts, [Next]_vars PROVE PushCuts' OBVIOUS
  <2> USE DEF PushCuts, otaVars, history
  <2>1. CASE Softver BY <2>1 DEF Softver, Did, SoftverNext
  <2>2. CASE ProvisionOk \/ Disable BY <2>2 DEF ProvisionOk, Disable, Did
  <2>3. CASE McuQuery BY <2>3 DEF McuQuery, Cuts
  <2>4. ASSUME NEW new \in BOOLEAN, JdWrite(new) PROVE PushCuts'
    BY <2>4 DEF JdWrite, Cuts
  <2>5. ASSUME NEW t \in Types, OnlinePush(t) PROVE PushCuts' BY <2>5 DEF OnlinePush
  <2>6. CASE DevReset \/ McuReset \/ PowerCycle
    BY <2>6 DEF DevReset, McuReset, PowerCycle, Booted
  <2>7. CASE UNCHANGED <<otaVars, done>> BY <2>7
  <2>q. QED
    BY <2>1, <2>2, <2>3, <2>4, <2>5, <2>6, <2>7
    DEF Next, Handle, Users, Server, Start, CloseHttp, GotDid, JdPosted, TimeOrQuery,
        Ignored, Retry, TimeSync, ModeEdge, StationEdge, ServerAnswers, ServerCloses,
        OnlyHttp, TwoHoursPass, Session, vars
<1>q. QED BY <1>1, <1>2, PTL DEF Spec

\* The types hold in every state; in particular the failures never reach
\* MaxPings, and a socket always has a request.
THEOREM ServerTypes == Spec => []TypeOK
<1>1. Init => TypeOK
  <2> SUFFICES ASSUME Init PROVE TypeOK OBVIOUS
  <2>1. done \in {{"cut"}} \cup SUBSET {"provision", "wifi", "mcu", "disable"} BY DEF Init
  <2>2. pings \in 0 .. MaxPings - 1 BY PingAssumption DEF Init
  <2>q. QED BY <2>1, <2>2 DEF Init, TypeOK, States, Types, Firmwares
<1>2. TypeOK /\ PushCuts /\ [Next]_vars => TypeOK'
  <2> SUFFICES ASSUME TypeOK, PushCuts, [Next]_vars PROVE TypeOK' OBVIOUS
  <2>0. /\ http \in HttpStates /\ 0 \in 0 .. MaxPings - 1
        /\ {"provision", "disable", "jd", "query", "register", "wifi", "mcu"} \subseteq Requests
        /\ OTATypeflag \in Requests /\ {"wifi", "mcu"} \subseteq Types
    BY PingAssumption DEF TypeOK, HttpStates, Requests, Types, Firmwares
  <2>a. http' \in HttpStates <=> http' \in {NoHttp} \cup
          [req : Requests, got : {"waiting", "good", "bad", "closed", "read"}]
    BY DEF HttpStates
  <2>b. ASSUME NEW step \in {"provision", "wifi", "mcu", "disable"}, Did(step)
        PROVE  done' \in {{"cut"}} \cup SUBSET {"provision", "wifi", "mcu", "disable"}
    BY <2>b DEF Did, TypeOK
  <2>c. ASSUME Cuts
        PROVE  done' \in {{"cut"}} \cup SUBSET {"provision", "wifi", "mcu", "disable"}
    BY <2>c DEF Cuts, TypeOK
  <2> USE DEF TypeOK, flashVars, otaVars, countVars, linkVars, history, States
  <2>1. CASE Start BY <2>1, <2>0, <2>a, RequestType DEF Start
  <2>2. CASE CloseHttp BY <2>2, <2>0, <2>a DEF CloseHttp, HttpStates
  <2>3. CASE GotDid
    <3>1. http' \in HttpStates
      <4>1. Request("provision") /\ "provision" \in Requests BY <2>3, <2>0 DEF GotDid
      <4>q. QED BY <4>1, RequestType
    <3>2. pings' \in 0 .. MaxPings - 1 /\ overdue' \in BOOLEAN
      BY <2>3, <2>0 DEF GotDid, Succeeded
    <3>3. /\ CloudStatus' = "provision" /\ did' = TRUE
          /\ UNCHANGED <<oldDid, jd, ischanged, otaVars, Cloud3Flag, linkVars, history>>
      BY <2>3 DEF GotDid
    <3>q. QED BY <2>a, <3>1, <3>2, <3>3
  <2>4. CASE ProvisionOk BY <2>4, <2>0, <2>a, <2>b, RequestType DEF ProvisionOk, Succeeded
  <2>5. CASE Softver
    <3>1. Readable BY <2>5 DEF Softver, Good, Bad, Readable
    <3>2. /\ pings' \in 0 .. MaxPings - 1 /\ overdue' \in BOOLEAN
      BY <2>5, <2>0 DEF Softver, Succeeded
    <3>3. /\ http' \in HttpStates /\ OTATypeflag' \in Types
          /\ CloudStatus' \in {"ok", "softver", "disable"}
      BY <2>5, <3>1, <2>0, RequestType, AnsweredType, ToldType DEF Softver, SoftverNext
    <3>4. done' \in {{"cut"}} \cup SUBSET {"provision", "wifi", "mcu", "disable"}
      <4>1. CASE OTATypeflag = "invalid" BY <2>5, <4>1 DEF Softver, Did, PushCuts
      <4>2. CASE OTATypeflag # "invalid"
        BY <2>5, <2>b, <4>2 DEF Softver, Types, Firmwares
      <4>q. QED BY <4>1, <4>2
    <3>q. QED BY <2>5, <2>a, <3>2, <3>3, <3>4 DEF Softver
  <2>6. CASE Disable
    <3>1. Readable BY <2>6 DEF Disable, Good, Bad, Readable
    <3>2. /\ pings' \in 0 .. MaxPings - 1 /\ overdue' \in BOOLEAN /\ oldDid' \in BOOLEAN
      BY <2>6, <2>0 DEF Disable, Succeeded
    <3>3. http' \in HttpStates BY <2>6, <3>1, <2>0, AnsweredType DEF Disable
    <3>4. CloudStatus' \in {"post_jd", "ok"} BY <2>6 DEF Disable
    <3>q. QED BY <2>6, <2>a, <2>b, <3>2, <3>3, <3>4 DEF Disable
  <2>7. CASE JdPosted
    <3>1. Readable BY <2>7 DEF JdPosted, Good, Readable
    <3>2. http' \in HttpStates BY <2>7, <3>1, <2>0, AnsweredType DEF JdPosted
    <3>q. QED BY <2>7, <2>0, <2>a, <3>2 DEF JdPosted, Succeeded
  <2>8. CASE TimeOrQuery
    <3>1. http' \in HttpStates
      BY <2>8, <2>0, RequestType, ToldType DEF TimeOrQuery, HttpStates
    <3>q. QED BY <2>8, <2>a, <3>1 DEF TimeOrQuery
  <2>9. CASE Ignored
    <3>1. Readable BY <2>9 DEF Ignored, Bad, Readable
    <3>2. http' \in HttpStates BY <2>9, <3>1, <2>0, AnsweredType DEF Ignored
    <3>q. QED BY <2>9, <2>a, <3>2 DEF Ignored
  <2>10. CASE Retry
    <3>1. CloudStatus \in DOMAIN Again BY <2>10 DEF Retry, Fails
    <3>2. Again[CloudStatus] \in Requests BY <3>1, AgainType
    <3>3. http' \in HttpStates BY <2>10, <3>2, <2>0, RequestType DEF Retry
    <3>4. pings' \in 0 .. MaxPings - 1
      <4>1. CASE pings + 1 = MaxPings BY <2>10, <2>0, <4>1 DEF Retry
      <4>2. CASE pings + 1 # MaxPings
        <5>1. pings' = pings + 1 BY <2>10, <4>2 DEF Retry
        <5>q. QED BY <5>1, <4>2, PingAssumption
      <4>q. QED BY <4>1, <4>2
    <3>5. ischanged' \in BOOLEAN /\ jdAt' \in {"module", "sent", "server"}
      BY <2>10, <3>2 DEF Retry, JdAsked
    <3>6. CloudStatus' \in States BY <2>10 DEF Retry
    <3>q. QED BY <2>10, <2>a, <3>3, <3>4, <3>5, <3>6 DEF Retry
  <2>11. CASE DevReset BY <2>11, <2>0 DEF DevReset, Booted
  <2>12. CASE TimeSync BY <2>12, <2>0, <2>a, RequestType DEF TimeSync
  <2>13. ASSUME NEW t \in Types, OnlinePush(t) PROVE TypeOK' BY <2>13, <2>0, <2>a DEF OnlinePush
  <2>14. CASE McuQuery
    <3>1. http' \in HttpStates BY <2>14, <2>0, RequestType DEF McuQuery
    <3>2. CloudStatus' \in States BY <2>14 DEF McuQuery
    <3>3. done' \in {{"cut"}} \cup SUBSET {"provision", "wifi", "mcu", "disable"}
      BY <2>14, <2>c DEF McuQuery
    <3>q. QED BY <2>14, <2>a, <3>1, <3>2, <3>3 DEF McuQuery
  <2>15. ASSUME NEW new \in BOOLEAN, JdWrite(new) PROVE TypeOK'
    <3>1. http' \in HttpStates BY <2>15, <2>0, RequestType DEF JdWrite
    <3>2. ischanged' \in BOOLEAN /\ jdAt' \in {"module", "sent", "server"}
      BY <2>15 DEF JdWrite, JdAsked
    <3>q. QED BY <2>15, <2>a, <2>c, <3>1, <3>2 DEF JdWrite
  <2>16. CASE ModeEdge BY <2>16 DEF ModeEdge
  <2>17. CASE StationEdge BY <2>17 DEF StationEdge
  <2>18. CASE McuReset BY <2>18, <2>0 DEF McuReset, Booted
  <2>19. ASSUME NEW g \in {"good", "bad", "closed"}, ServerAnswers(g) PROVE TypeOK'
    BY <2>19, <2>0, <2>a DEF ServerAnswers, OnlyHttp, HttpStates, NoHttp
  <2>20. CASE ServerCloses BY <2>20, <2>0, <2>a DEF ServerCloses, OnlyHttp, HttpStates, NoHttp
  <2>21. CASE TwoHoursPass BY <2>21 DEF TwoHoursPass
  <2>22. CASE Session BY <2>22 DEF Session
  <2>23. CASE PowerCycle BY <2>23, <2>0 DEF PowerCycle, Booted
  <2>24. CASE UNCHANGED vars BY <2>24 DEF vars
  <2>q. QED BY <2>1, <2>2, <2>3, <2>4, <2>5, <2>6, <2>7, <2>8, <2>9, <2>10, <2>11, <2>12,
              <2>13, <2>14, <2>15, <2>16, <2>17, <2>18, <2>19, <2>20, <2>21, <2>22, <2>23,
              <2>24 DEF Next, Handle, Users, Server
<1>q. QED BY <1>1, <1>2, PushesCut, PTL DEF Spec

-----------------------------------------------------------------------------
\* What has been taken of the configuration, by state, unless it was cut.
FlowInv ==
  done # {"cut"} =>
    /\ OTATypeflag = "mcu" => "wifi" \in done
    /\ CloudStatus = "softver" => "provision" \in done
    /\ CloudStatus \in {"disable", "post_jd", "time", "query", "ok"}
         => {"provision", "wifi", "mcu"} \subseteq done
    /\ CloudStatus \in {"post_jd", "time", "query", "ok"} /\ oldDid => "disable" \in done

\* CLOUD_CONFIG_OK is not reached before every step was taken, through failures,
\* time-outs, restarts of the flow and mode changes; unless another user of
\* CloudStatus cut into the flow.
THEOREM ConfigurationIsWhole == Spec => []FlowComplete
<1>1. Init => FlowInv BY DEF Init, FlowInv
<1>2. TypeOK /\ PushCuts /\ FlowInv /\ [Next]_vars => FlowInv'
  <2> SUFFICES ASSUME TypeOK, PushCuts, FlowInv, [Next]_vars, done' # {"cut"} PROVE FlowInv'
    BY DEF FlowInv
  <2>a. ASSUME NEW step, Did(step) PROVE done # {"cut"} /\ done' = done \cup {step}
    BY <2>a DEF Did
  <2>b. ASSUME Cuts PROVE CloudStatus = "ok" /\ done' = done
    BY <2>b DEF Cuts
  <2> USE DEF FlowInv, flashVars, otaVars, linkVars, history
  <2>1. CASE Start BY <2>1 DEF Start
  <2>2. CASE CloseHttp BY <2>2 DEF CloseHttp
  <2>3. CASE GotDid BY <2>3 DEF GotDid
  <2>4. CASE ProvisionOk BY <2>4, <2>a DEF ProvisionOk
  <2>5. CASE Softver
    <3>1. done # {"cut"} /\ done' = done \cup {OTATypeflag} BY <2>5, <2>a DEF Softver
    <3>2. ~onlinePushflag /\ OTATypeflag \in {"wifi", "mcu"}
      BY <3>1 DEF PushCuts, TypeOK, Types, Firmwares
    <3>3. CloudStatus = "softver" /\ UNCHANGED oldDid
      BY <2>5 DEF Softver, Good, Bad
    <3>4. CASE OTATypeflag = "wifi" BY <2>5, <3>1, <3>2, <3>3, <3>4 DEF Softver, SoftverNext
    <3>5. CASE OTATypeflag = "mcu" BY <2>5, <3>1, <3>2, <3>3, <3>5 DEF Softver, SoftverNext
    <3>q. QED BY <3>2, <3>4, <3>5
  <2>6. CASE Disable
    <3>1. done # {"cut"} /\ done' = done \cup {"disable"} BY <2>6, <2>a DEF Disable
    <3>2. CloudStatus = "disable" /\ UNCHANGED OTATypeflag BY <2>6 DEF Disable, Good, Bad
    <3>q. QED BY <3>1, <3>2
  <2>7. CASE JdPosted BY <2>7 DEF JdPosted, Good
  <2>8. CASE TimeOrQuery BY <2>8 DEF TimeOrQuery
  <2>9. CASE Ignored BY <2>9 DEF Ignored
  <2>10. CASE Retry BY <2>10 DEF Retry
  <2>11. CASE DevReset BY <2>11 DEF DevReset, Booted
  <2>12. CASE TimeSync BY <2>12 DEF TimeSync
  <2>13. ASSUME NEW t \in Types, OnlinePush(t) PROVE FlowInv' BY <2>13 DEF OnlinePush
  <2>14. CASE McuQuery BY <2>14, <2>b DEF McuQuery
  <2>15. ASSUME NEW new \in BOOLEAN, JdWrite(new) PROVE FlowInv'
    BY <2>15, <2>b DEF JdWrite
  <2>16. CASE ModeEdge BY <2>16 DEF ModeEdge
  <2>17. CASE McuReset \/ PowerCycle BY <2>17 DEF McuReset, PowerCycle, Booted
  <2>18. CASE UNCHANGED <<CloudStatus, oldDid, OTATypeflag, done>> BY <2>18
  <2>q. QED
    BY <2>1, <2>2, <2>3, <2>4, <2>5, <2>6, <2>7, <2>8, <2>9, <2>10, <2>11, <2>12, <2>13,
       <2>14, <2>15, <2>16, <2>17, <2>18
    DEF Next, Handle, Users, Server, StationEdge, ServerAnswers, ServerCloses, OnlyHttp,
        TwoHoursPass, Session, vars
<1>3. FlowInv => FlowComplete BY DEF FlowInv, FlowComplete
<1>q. QED BY <1>1, <1>2, <1>3, ServerTypes, PushesCut, PTL DEF Spec

-----------------------------------------------------------------------------
\* In CLOUD_RES_POST_JD_INFO a key waits, and an answer that may still count
\* answers an upload of the newest one.
UploadInv ==
  CloudStatus = "post_jd" =>
    jd /\ (http.got \in {"waiting", "good"} => http.req = "jd" /\ jdAt # "module")

\* The mark on the JD key is taken off only when the server has the newest one.
THEOREM NewestKeyUploaded == Spec => []JdNewestAccepted
<1> DEFINE Inv == JdNewestAccepted /\ UploadInv
<1>1. Init => Inv BY DEF Init, JdNewestAccepted, UploadInv
<1>2. TypeOK /\ Inv /\ [Next]_vars => Inv'
  <2> SUFFICES ASSUME TypeOK, Inv, [Next]_vars PROVE Inv' OBVIOUS
  <2>0. http \in HttpStates BY DEF TypeOK, HttpStates
  <2>a. ASSUME Readable, Answered PROVE http'.got \notin {"waiting", "good"}
    BY <2>0, <2>a DEF Answered, HttpStates, NoHttp, Readable
  <2>b. ASSUME NEW r \in Requests, Request(r)
        PROVE  http'.got \in {"waiting", "good"} => http' # NoHttp /\ http'.req = r
    BY <2>b DEF Request, NoHttp
  <2> USE DEF JdNewestAccepted, UploadInv, flashVars, history
  <2>1. CASE CloudStatus' # "post_jd" /\ UNCHANGED <<jd, jdAt>> BY <2>1
  <2>2. CASE UNCHANGED <<CloudStatus, http, jd, jdAt>> BY <2>2
  <2>3. CASE Disable
    <3>1. Readable /\ Answered BY <2>3 DEF Disable, Good, Bad, Readable
    <3>q. QED BY <2>3, <2>a, <3>1 DEF Disable
  <2>4. CASE JdPosted
    <3>1. http.req = "jd" /\ jdAt # "module" BY <2>4 DEF JdPosted, Good
    <3>2. jdAt' = "server" BY <2>4, <3>1 DEF JdPosted, TypeOK
    <3>q. QED BY <2>4, <3>2 DEF JdPosted
  <2>5. CASE Retry
    <3>1. CloudStatus \in DOMAIN Again BY <2>5 DEF Retry, Fails
    <3>2. /\ Again[CloudStatus] \in Requests
          /\ Again[CloudStatus] = "jd" <=> CloudStatus = "post_jd"
      BY <3>1, AgainType DEF TypeOK
    <3>3. CASE pings + 1 = MaxPings BY <2>5, <3>3 DEF Retry
    <3>4. CASE pings + 1 # MaxPings
      <4>1. /\ Request(Again[CloudStatus]) /\ JdAsked(Again[CloudStatus], ischanged, FALSE)
            /\ UNCHANGED <<CloudStatus, jd>>
        BY <2>5, <3>4 DEF Retry
      <4>2. CASE CloudStatus = "post_jd" BY <2>b, <3>2, <4>1, <4>2 DEF JdAsked, NoHttp
      <4>3. CASE CloudStatus # "post_jd" BY <3>2, <4>1, <4>3 DEF JdAsked
      <4>q. QED BY <4>2, <4>3
    <3>q. QED BY <3>3, <3>4
  <2>6. ASSUME NEW new \in BOOLEAN, JdWrite(new) PROVE Inv'
    <3>1. "jd" \in Requests BY DEF Requests
    <3>q. QED BY <2>6, <2>b, <3>1 DEF JdWrite, JdAsked
  <2>7. CASE McuQuery
    <3>1. http' = NoHttp \/ CloudStatus' = "query" BY <2>7 DEF McuQuery
    <3>q. QED BY <2>7, <3>1 DEF McuQuery, NoHttp
  <2>8. CASE McuReset \/ DevReset \/ PowerCycle
    BY <2>8 DEF McuReset, DevReset, PowerCycle, Booted
  <2>9. ASSUME NEW g \in {"good", "bad", "closed"}, ServerAnswers(g) PROVE Inv'
    BY <2>0, <2>9 DEF ServerAnswers, OnlyHttp, HttpStates, NoHttp
  <2>10. CASE ServerCloses BY <2>0, <2>10 DEF ServerCloses, OnlyHttp, HttpStates, NoHttp
  <2>11. CASE Softver BY <2>11, <2>1 DEF Softver, SoftverNext
  <2>12. CASE Ignored
    <3>1. CloudStatus' # "post_jd" BY <2>12 DEF Ignored, Bad
    <3>q. QED BY <2>1, <2>12, <3>1 DEF Ignored
  <2>13. CASE CloseHttp \/ TimeSync
    BY <2>1, <2>13 DEF CloseHttp, TimeSync
  <2>14. CASE Start \/ GotDid \/ ProvisionOk \/ TimeOrQuery
    BY <2>1, <2>14 DEF Start, GotDid, ProvisionOk, TimeOrQuery
  <2>15. ASSUME NEW t \in Types, OnlinePush(t) PROVE Inv' BY <2>1, <2>15 DEF OnlinePush
  <2>16. CASE ModeEdge BY <2>1, <2>2, <2>16 DEF ModeEdge
  <2>q. QED
    BY <2>2, <2>3, <2>4, <2>5, <2>6, <2>7, <2>8, <2>9, <2>10, <2>11, <2>12, <2>13, <2>14,
       <2>15, <2>16
    DEF Next, Handle, Users, Server, StationEdge, TwoHoursPass, Session, vars
<1>q. QED BY <1>1, <1>2, ServerTypes, PTL DEF Spec

=============================================================================
