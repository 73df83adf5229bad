------------------------------- MODULE GServer -------------------------------
(* The module's conversation with the configuration server: CloudStatus of   *)
(* Cloud_ConfigDataHandle, which registers the device, asks for the M2M      *)
(* server, asks for firmware and disables an old device id, and the others   *)
(* that use the same CloudStatus and the same socket meanwhile: the hourly   *)
(* time sync, the firmware push, the MCU's firmware query, the JD upload.    *)
(* Time is left out: a time-out may come whenever an answer is awaited.      *)
EXTENDS Naturals

CONSTANTS MaxPings  \* httpCloudPingTime at which provisioning starts over (10)

ASSUME PingAssumption == MaxPings \in Nat \ {0}

Firmwares == {"wifi", "mcu"}
Types == Firmwares \cup {"invalid"}  \* what a push may name
Requests == {"register", "provision", "disable", "jd", "query"} \cup Types
States == {"init", "get_did", "provision", "softver", "disable", "post_jd",
           "time", "query", "ok"}

VARIABLES
  CloudStatus,
  http,      \* the request made on http_socketid, and what became of it
  did, oldDid, jd, ischanged,  \* in flash: DID, old_did, and of jdinfo the
                               \* flags tobeuploaded and ischanged
  OTATypeflag, onlinePushflag,
  pings,     \* httpCloudPingTime
  overdue,   \* two hours have passed since firstConnectHttpTime
  Cloud3Flag,
  sta,       \* WIFI_STATION_CONNECTED of GAgentStatus
  mqtt,      \* mqttstatus: idle, start (a login may begin or be under way), running
  done,      \* history: the steps taken since power on, or "cut" when
             \* another user of CloudStatus decided what comes next
  jdAt       \* history: how far the newest JD key got

flashVars == <<did, oldDid, jd, ischanged>>
otaVars == <<OTATypeflag, onlinePushflag>>
countVars == <<pings, overdue>>
linkVars == <<sta, mqtt>>
history == <<done, jdAt>>
vars == <<CloudStatus, http, flashVars, otaVars, countVars, Cloud3Flag, linkVars, history>>

NoHttp == [req |-> "none", got |-> "none"]

Init == /\ CloudStatus = "init" /\ http = NoHttp
        /\ did \in BOOLEAN /\ oldDid \in BOOLEAN
        /\ jd = FALSE /\ ischanged = FALSE
        /\ OTATypeflag = "wifi" /\ onlinePushflag = FALSE
        /\ pings = 0 /\ overdue = FALSE /\ Cloud3Flag = FALSE
        /\ sta = FALSE /\ mqtt = "idle"
        /\ done = {} /\ jdAt = "server"

\* What a start leaves of the RAM.
Booted == /\ CloudStatus' = "init" /\ http' = NoHttp
          /\ OTATypeflag' = "wifi" /\ onlinePushflag' = FALSE
          /\ pings' = 0 /\ overdue' = FALSE /\ Cloud3Flag' = FALSE
          /\ sta' = FALSE /\ mqtt' = "idle"
          /\ done' = {}

-----------------------------------------------------------------------------
(* Requests and answers *)

\* The old socket is closed; the new one may fail to connect.
Request(r) == http' \in {[req |-> r, got |-> "waiting"], NoHttp}

\* Cloud_JD_Post_ReqFeed_Key forgets the change when it has posted it.
JdAsked(r, changed, new) ==
  IF r = "jd" /\ http' # NoHttp THEN ischanged' = FALSE /\ jdAt' = "sent"
  ELSE ischanged' = changed /\ jdAt' = IF new THEN "module" ELSE jdAt

\* The answer was read, the socket stays open; a read that fails closes it.
Answered == http' = IF http.got = "closed" THEN NoHttp ELSE [http EXCEPT !.got = "read"]

\* Whoever tells the MCU something takes in its queries meanwhile; such a query
\* is sent and its CloudStatus then overwritten.
Told == Answered \/ (mqtt = "running" /\ Request("query"))

Readable == http.got \in {"good", "bad", "closed"}

\* Registration is answered with 201; provisioning and firmware answers are
\* known by their body; the others look at the 200 only.
Accepts == [get_did |-> {"register"}, provision |-> {"provision"}, softver |-> Firmwares,
            disable |-> Requests \ {"register"}, post_jd |-> Requests \ {"register"},
            time |-> Requests \ {"register"}, query |-> Requests \ {"register"}]

\* The handler runs when the station is up, on an answer or when time is up.
Good(state) == /\ sta /\ CloudStatus = state
               /\ http.got = "good" /\ http.req \in Accepts[state]
Bad(state) == /\ sta /\ CloudStatus = state
              /\ Readable /\ ~(http.got = "good" /\ http.req \in Accepts[state])

\* Any success ends the count of failures and starts the two hours again.
Succeeded == pings' = 0 /\ overdue' = FALSE

Did(step) == done' = IF done = {"cut"} THEN done ELSE done \cup {step}

-----------------------------------------------------------------------------
(* Cloud_ConfigDataHandle *)

\* CLOUD_INIT
Start ==
  /\ sta /\ CloudStatus = "init"
  /\ IF did THEN Request("provision") /\ CloudStatus' = "provision"
            ELSE Request("register") /\ CloudStatus' = "get_did"
  /\ UNCHANGED <<flashVars, otaVars, countVars, Cloud3Flag, linkVars, history>>

\* CLOUD_CONFIG_OK
CloseHttp ==
  /\ sta /\ CloudStatus = "ok"
  /\ http # NoHttp \/ pings # 0
  /\ http' = NoHttp /\ pings' = 0
  /\ UNCHANGED <<CloudStatus, flashVars, otaVars, overdue, Cloud3Flag, linkVars, history>>

GotDid ==
  /\ Good("get_did")
  /\ did' = TRUE /\ Succeeded
  /\ Request("provision") /\ CloudStatus' = "provision"
  /\ UNCHANGED <<oldDid, jd, ischanged, otaVars, Cloud3Flag, linkVars, history>>

\* The M2M session is started anew, whether or not one runs.
ProvisionOk ==
  /\ Good("provision")
  /\ Cloud3Flag' \in BOOLEAN /\ Succeeded
  /\ mqtt' = "start"
  /\ Request(OTATypeflag) /\ CloudStatus' = "softver"
  /\ Did("provision")
  /\ UNCHANGED <<flashVars, otaVars, sta, jdAt>>

\* Fault: the old device id is not looked at.
SoftverNextSkipsDisable ==
  \/ /\ onlinePushflag /\ CloudStatus' = "ok" /\ Answered /\ UNCHANGED OTATypeflag
  \/ /\ ~onlinePushflag /\ OTATypeflag # "mcu"
     /\ OTATypeflag' = "mcu" /\ CloudStatus' = "softver" /\ Request("mcu")
  \/ /\ ~onlinePushflag /\ OTATypeflag = "mcu"
     /\ OTATypeflag' = "wifi" /\ CloudStatus' = "ok" /\ Answered

\* CLOUD_RES_GET_SOFTVER with an answer of either kind: the MCU's firmware
\* after the module's, then the old device id; a push asks for one firmware.
SoftverNext ==
  \/ /\ onlinePushflag
     /\ CloudStatus' = "ok"
     /\ IF OTATypeflag = "mcu" THEN Told ELSE Answered
     /\ UNCHANGED OTATypeflag
  \/ /\ ~onlinePushflag /\ OTATypeflag # "mcu"
     /\ OTATypeflag' = "mcu" /\ CloudStatus' = "softver" /\ Request("mcu")
  \/ /\ ~onlinePushflag /\ OTATypeflag = "mcu"
     /\ OTATypeflag' = "wifi"
     /\ IF oldDid THEN CloudStatus' = "disable" /\ Request("disable")
                  ELSE CloudStatus' = "ok" /\ Told

Softver ==
  /\ \/ Good("softver") /\ Succeeded
     \/ Bad("softver") /\ UNCHANGED countVars
  /\ Did(OTATypeflag)
  /\ SoftverNext
  /\ UNCHANGED <<flashVars, onlinePushflag, Cloud3Flag, linkVars, jdAt>>

\* CLOUD_RES_DISABLE_DID, done with either way.  Then the JD key if it waits,
\* which is not posted before a time-out or the end of the old connection.
Disable ==
  /\ \/ Good("disable") /\ Succeeded /\ oldDid' = FALSE
     \/ Bad("disable") /\ UNCHANGED <<countVars, oldDid>>
  /\ CloudStatus' = IF jd THEN "post_jd" ELSE "ok"
  /\ Answered
  /\ Did("disable")
  /\ UNCHANGED <<did, jd, ischanged, otaVars, Cloud3Flag, linkVars, jdAt>>

JdPosted ==
  /\ Good("post_jd") /\ ~ischanged
  /\ jd' = FALSE /\ CloudStatus' = "ok" /\ Succeeded /\ Answered
  /\ jdAt' = IF http.req = "jd" /\ jdAt = "sent" THEN "server" ELSE jdAt
  /\ UNCHANGED <<did, oldDid, ischanged, otaVars, Cloud3Flag, linkVars, done>>

\* CLOUD_REQ_GET_GSERVER_TIME falls through to CLOUD_QUERY_MCU_OTA: the MCU is
\* told a result, whether or not it asked; when time is up the socket is closed.
TimeOrQuery ==
  /\ sta /\ CloudStatus \in {"time", "query"}
  /\ \/ Readable /\ Told
     \/ http' = NoHttp \/ (mqtt = "running" /\ Request("query"))
  /\ CloudStatus' = "ok"
  /\ UNCHANGED <<flashVars, otaVars, countVars, Cloud3Flag, linkVars, history>>

\* An answer that is no use: only the socket notices.  Provisioning takes the
\* 3rd party cloud from whatever the buffer holds.
Ignored ==
  /\ \/ Bad("get_did") /\ UNCHANGED Cloud3Flag
     \/ Bad("provision") /\ Cloud3Flag' \in BOOLEAN
  /\ Answered
  /\ UNCHANGED <<CloudStatus, flashVars, otaVars, countVars, linkVars, history>>

\* What is asked for again when time is up.
Again == [get_did |-> "register", provision |-> "provision", softver |-> OTATypeflag,
          disable |-> "disable", post_jd |-> "jd"]

\* Time is up; a JD upload also fails by its answer, or by the next key.
Fails == /\ sta /\ CloudStatus \in DOMAIN Again

\* Fault: the failures are counted past MaxPings.
RetryUncapped ==
  /\ Fails /\ ~overdue
  /\ pings' = pings + 1 /\ UNCHANGED CloudStatus
  /\ Request(Again[CloudStatus]) /\ JdAsked(Again[CloudStatus], ischanged, FALSE)
  /\ UNCHANGED <<did, oldDid, jd, otaVars, overdue, Cloud3Flag, linkVars, done>>

\* Fault: a request made again counts as contact with the server.
RetryIsContact ==
  /\ Fails /\ overdue' = FALSE
  /\ IF pings + 1 = MaxPings
     THEN pings' = 0 /\ CloudStatus' = "provision" /\ Request("provision") /\ UNCHANGED <<ischanged, jdAt>>
     ELSE /\ pings' = pings + 1 /\ UNCHANGED CloudStatus
          /\ Request(Again[CloudStatus]) /\ JdAsked(Again[CloudStatus], ischanged, FALSE)
  /\ UNCHANGED <<did, oldDid, jd, otaVars, Cloud3Flag, linkVars, done>>

\* The request is made again; after MaxPings failures provisioning starts over,
\* on a connection of its own: a JD key just posted was posted in vain.
Retry ==
  /\ Fails /\ ~overdue
  /\ LET r == Again[CloudStatus] IN
     IF pings + 1 = MaxPings
     THEN /\ pings' = 0 /\ CloudStatus' = "provision" /\ Request("provision")
          /\ ischanged' \in (IF r = "jd" THEN {ischanged, FALSE} ELSE {ischanged})
          /\ UNCHANGED jdAt
     ELSE /\ pings' = pings + 1 /\ UNCHANGED CloudStatus /\ Request(r)
          /\ JdAsked(r, ischanged, FALSE)
  /\ CloudStatus # "provision" => UNCHANGED Cloud3Flag
  /\ Cloud3Flag' \in BOOLEAN
  /\ UNCHANGED <<did, oldDid, jd, otaVars, overdue, linkVars, done>>

\* The same after two hours without a success: the request is made, then the
\* module restarts.
DevReset ==
  /\ Fails /\ overdue
  /\ ischanged' \in (IF CloudStatus = "post_jd" THEN {ischanged, FALSE} ELSE {ischanged})
  /\ Booted
  /\ UNCHANGED <<did, oldDid, jd, jdAt>>

-----------------------------------------------------------------------------
(* The other users of CloudStatus *)

Cuts == done' = IF CloudStatus # "ok" THEN {"cut"} ELSE done

\* GAgent_CloudTick, every hour; without a router nothing is sent.
TimeSync ==
  /\ CloudStatus = "ok" /\ CloudStatus' = "time"
  /\ IF sta THEN Request("provision") ELSE UNCHANGED http
  /\ UNCHANGED <<flashVars, otaVars, countVars, Cloud3Flag, linkVars, history>>

\* 0x0211 of the M2M server: the state is set, nothing is asked.
OnlinePush(type) ==
  /\ sta /\ mqtt = "running"
  /\ onlinePushflag' = TRUE /\ OTATypeflag' = type
  /\ CloudStatus' = "softver" /\ done' = {"cut"}
  /\ UNCHANGED <<http, flashVars, countVars, Cloud3Flag, linkVars, jdAt>>

\* MCU_TRANSCTION_REQUEST: cloud_querymcuota; a query that cannot be sent
\* leaves CloudStatus alone.
McuQuery ==
  /\ mqtt = "running"
  /\ Request("query")
  /\ IF http' = NoHttp THEN UNCHANGED <<CloudStatus, done>>
                       ELSE CloudStatus' = "query" /\ Cuts
  /\ UNCHANGED <<flashVars, otaVars, countVars, Cloud3Flag, linkVars, jdAt>>

\* Fault: an upload under way is left to finish.
JdWriteWaits(new) ==
  /\ Cloud3Flag
  /\ jd' = TRUE /\ (new \/ jd)
  /\ CloudStatus' = "post_jd" /\ Cuts
  /\ IF CloudStatus = "post_jd" /\ http.req = "jd"
     THEN UNCHANGED http /\ ischanged' = FALSE /\ jdAt' = IF new THEN "module" ELSE jdAt
     ELSE Request("jd") /\ JdAsked("jd", ischanged \/ new, new)
  /\ UNCHANGED <<did, oldDid, otaVars, countVars, Cloud3Flag, linkVars>>

\* Lan3rdCloudUDPHandle_JD: the JD app writes a key, a new one or the last.
JdWrite(new) ==
  /\ Cloud3Flag
  /\ jd' = TRUE /\ (new \/ jd)
  /\ CloudStatus' = "post_jd" /\ Cuts
  /\ Request("jd") /\ JdAsked("jd", ischanged \/ new, new)
  /\ UNCHANGED <<did, oldDid, otaVars, countVars, Cloud3Flag, linkVars>>

\* A mode edge of GAgent_WiFiEventTick: the conversation that is over is left
\* alone and the session started anew, otherwise it is the conversation.
ModeEdge ==
  /\ IF CloudStatus = "ok" THEN mqtt' = "start" /\ UNCHANGED CloudStatus
                           ELSE CloudStatus' = "init" /\ UNCHANGED mqtt
  /\ UNCHANGED <<http, flashVars, otaVars, countVars, Cloud3Flag, sta, history>>

StationEdge ==
  /\ sta' = ~sta
  /\ mqtt' = IF sta THEN "start" ELSE mqtt
  /\ UNCHANGED <<CloudStatus, http, flashVars, otaVars, countVars, Cloud3Flag, history>>

\* MCU_RESET_WIFI: GAgent_Clean_Config asks for the disabling, without waiting,
\* and leaves it to the next start as well.
McuReset ==
  /\ oldDid' = did /\ did' = FALSE /\ jd' = FALSE /\ ischanged' = FALSE /\ jdAt' = "server"
  /\ Booted

-----------------------------------------------------------------------------
(* The environment *)

OnlyHttp == UNCHANGED <<CloudStatus, flashVars, otaVars, countVars, Cloud3Flag, linkVars, history>>

\* Nothing but a registration is granted to a device without an id, and
\* nothing was asked when the type is invalid.
Grantable == (did \/ http.req = "register") /\ http.req # "invalid"

ServerAnswers(g) ==
  /\ http.got = "waiting"
  /\ g = "good" => Grantable
  /\ http' = [http EXCEPT !.got = g]
  /\ OnlyHttp

ServerCloses ==
  /\ http.got = "read"
  /\ http' = [http EXCEPT !.got = "closed"]
  /\ OnlyHttp

TwoHoursPass ==
  /\ ~overdue /\ overdue' = TRUE
  /\ UNCHANGED <<CloudStatus, http, flashVars, otaVars, pings, Cloud3Flag, linkVars, history>>

\* The sessions of M2MSession: only a registered device gets one, and they end
\* of themselves, with the broker or with GAgent_WiFiEventTick.
Session ==
  /\ \/ sta /\ did /\ mqtt = "start" /\ mqtt' = "running"
     \/ mqtt = "running" /\ mqtt' = "start"
  /\ UNCHANGED <<CloudStatus, http, flashVars, otaVars, countVars, Cloud3Flag, sta, history>>

PowerCycle == Booted /\ UNCHANGED <<flashVars, jdAt>>

-----------------------------------------------------------------------------
Handle == \/ Start \/ CloseHttp \/ GotDid \/ ProvisionOk \/ Softver \/ Disable \/ JdPosted
          \/ TimeOrQuery \/ Ignored \/ Retry \/ DevReset

Users == \/ TimeSync \/ (\E t \in Types : OnlinePush(t)) \/ McuQuery
         \/ (\E new \in BOOLEAN : JdWrite(new))
         \/ ModeEdge \/ StationEdge \/ McuReset

Server == (\E g \in {"good", "bad", "closed"} : ServerAnswers(g)) \/ ServerCloses

Next == Handle \/ Users \/ Server \/ TwoHoursPass \/ Session \/ PowerCycle

Spec == Init /\ [][Next]_vars

\* The main loop serves the configuration, the tick sees the station come up,
\* and the clock goes on.
Fairness == /\ WF_vars(Handle) /\ WF_vars(Server) /\ WF_vars(TwoHoursPass)
            /\ WF_vars(StationEdge /\ sta')

FairSpec == Spec /\ Fairness

-----------------------------------------------------------------------------
(* Properties *)

TypeOK ==
  /\ CloudStatus \in States
  /\ http \in {NoHttp} \cup [req : Requests, got : {"waiting", "good", "bad", "closed", "read"}]
  /\ did \in BOOLEAN /\ oldDid \in BOOLEAN /\ jd \in BOOLEAN /\ ischanged \in BOOLEAN
  /\ OTATypeflag \in Types /\ onlinePushflag \in BOOLEAN
  /\ pings \in 0 .. MaxPings - 1 /\ overdue \in BOOLEAN /\ Cloud3Flag \in BOOLEAN
  /\ sta \in BOOLEAN /\ mqtt \in {"idle", "start", "running"}
  /\ done \in {{"cut"}} \cup SUBSET {"provision", "wifi", "mcu", "disable"}
  /\ jdAt \in {"module", "sent", "server"}

\* The configuration is not reported done before every step of it was taken:
\* the M2M server known, both firmwares asked for, an old device id disabled.
\* Failures, restarts of the flow and mode changes in between do not skip one.
\* A flow that another user of CloudStatus cut into is excepted: that one sets
\* the status by its own ends, and "ok" may then come with steps missing.
FlowComplete ==
  CloudStatus = "ok" /\ done # {"cut"} =>
    /\ {"provision", "wifi", "mcu"} \subseteq done
    /\ oldDid => "disable" \in done

\* The mark on the JD key is taken off only when the server has the newest one:
\* the answer to an upload that a newer key overtook does not take it off.
JdNewestAccepted == ~jd => jdAt = "server"

\* When the world leaves the module alone and the server grants what it may,
\* without delay, the configuration ends, with a device id, from wherever it
\* got to: answers to other requests, failures counted, the connection of the
\* disabling left open, a provisioning begun without a device id.
Undisturbed ==
  /\ \/ Handle \/ ServerCloses \/ TwoHoursPass \/ (StationEdge /\ sta')
     \/ ServerAnswers(IF Grantable THEN "good" ELSE "bad")
  /\ Retry \/ DevReset \/ TimeOrQuery => ~(http.got \in {"waiting", "good"})
  /\ http' = NoHttp => CloudStatus' \in {"ok", "init"}

ConfigCompletes ==
  <>[][Undisturbed]_vars => <>[](OTATypeflag = "invalid" \/ (CloudStatus = "ok" /\ did))

=============================================================================
