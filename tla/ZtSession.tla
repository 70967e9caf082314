----------------------------- MODULE ZtSession -----------------------------
(***************************************************************************)
(* febao_zt_cffex: a session with the NSQ market data service.  The core   *)
(* thread runs init (NewNsqApiExt, Init, wait for the connection, wait for *)
(* the login, query the instruments, subscribe, on_ready), connect and     *)
(* release; the SDK calls the spi object back on a thread of its own.  The *)
(* two meet in three flags of CHSNsqSpiImpl that only ever become TRUE.    *)
(* The SDK and the service are external: a connection may drop and come    *)
(* back at any time, and every request may be refused.  What a refused     *)
(* request leaves behind is only printed.  The specification has names of  *)
(* its own, so that its proofs can stand beside those of PluginLifecycle.  *)
(***************************************************************************)
EXTENDS Naturals

CONSTANTS
    MaxDrops,      \* bound: connections that are lost
    MaxDelivered   \* bound: quotes the service pushes

ASSUME BoundsAssumption == MaxDrops \in Nat /\ MaxDelivered \in Nat

VARIABLES
    pc,                 \* where the core thread is
    m_NsqApi, m_NsqSpi, \* "none", "alive", "released"
    m_isConnected, m_isLogined, m_isAllInstrReady,
    announced,          \* on_ready was called
    delivered,          \* calls of on_msg
    link,               \* the connection is up
    login,              \* on this connection: "no", "asked", "yes"
    query,              \* the instruments were asked for on this connection
    subscription,       \* to our instruments: "no", "asked", "yes" (the service pushes them)
    drops,              \* connections lost so far
    refused             \* some request was refused, at once or by its answer

coreThread == <<pc, m_NsqApi, m_NsqSpi, announced>>
flags      == <<m_isConnected, m_isLogined, m_isAllInstrReady>>
service    == <<link, login, query, subscription, drops>>
session    == <<coreThread, flags, service, delivered, refused>>

SessionInit ==
    /\ pc = "start" /\ m_NsqApi = "none" /\ m_NsqSpi = "none"
    /\ m_isConnected = FALSE /\ m_isLogined = FALSE /\ m_isAllInstrReady = FALSE
    /\ announced = FALSE /\ delivered = 0
    /\ link = FALSE /\ login = "no" /\ query = FALSE /\ subscription = "no"
    /\ drops = 0 /\ refused = FALSE

---------------------------------------------------------------------------
(* The core thread.                                                        *)

Go(from, to) == pc = from /\ pc' = to

Create ==
    /\ \/ Go("start", "created") /\ m_NsqApi' = "alive" /\ m_NsqSpi' = "alive"
       \/ Go("start", "failed") /\ UNCHANGED <<m_NsqApi, m_NsqSpi>>
    /\ UNCHANGED <<announced, flags, service, delivered, refused>>

\* Connections are made from here on.
ApiInit ==
    /\ Go("created", "connecting") \/ Go("created", "giving_up")
    /\ UNCHANGED <<m_NsqApi, m_NsqSpi, announced, flags, service, delivered, refused>>

\* This wait has no end of its own.
AwaitConnection ==
    /\ m_isConnected
    /\ Go("connecting", "logging_in")
    /\ UNCHANGED <<m_NsqApi, m_NsqSpi, announced, flags, service, delivered, refused>>

\* Mutant: the wait looks at the flag of the connection again.
AwaitLogin_Connected ==
    /\ m_isConnected
    /\ Go("logging_in", "querying")
    /\ UNCHANGED <<m_NsqApi, m_NsqSpi, announced, flags, service, delivered, refused>>

\* Mutant: no time limit.
AwaitLogin_Unlimited ==
    /\ m_isLogined
    /\ Go("logging_in", "querying")
    /\ UNCHANGED <<m_NsqApi, m_NsqSpi, announced, flags, service, delivered, refused>>

\* 30 seconds, which pass whenever no answer has come.
AwaitLogin ==
    /\ \/ m_isLogined /\ Go("logging_in", "querying")
       \/ ~m_isLogined /\ Go("logging_in", "giving_up")
    /\ UNCHANGED <<m_NsqApi, m_NsqSpi, announced, flags, service, delivered, refused>>

\* Mutant: init leaves without releasing the api.
GiveUp_Kept ==
    /\ Go("giving_up", "failed")
    /\ UNCHANGED <<m_NsqApi, m_NsqSpi, announced, flags, service, delivered, refused>>

\* The spi object is not deleted.
GiveUp ==
    /\ Go("giving_up", "failed")
    /\ m_NsqApi' = "released"
    /\ UNCHANGED <<m_NsqSpi, announced, flags, service, delivered, refused>>

ReqAllFutInstruments ==
    /\ Go("querying", "awaiting_instruments")
    /\ query' \in {FALSE, login = "yes"}
    /\ UNCHANGED <<m_NsqApi, m_NsqSpi, announced, flags, link, login, subscription,
                   drops, delivered, refused>>

\* 5 seconds; init goes on with or without the instruments.
AwaitInstruments ==
    /\ Go("awaiting_instruments", "subscribing")
    /\ UNCHANGED <<m_NsqApi, m_NsqSpi, announced, flags, service, delivered, refused>>

\* The only subscription the plugin ever asks for; 0 says no more than that
\* the request is sent.
FutSubscribe ==
    /\ Go("subscribing", "subscribed")
    /\ \/ /\ subscription' = IF login = "yes" THEN "asked" ELSE subscription
          /\ UNCHANGED refused
       \/ refused' = TRUE /\ UNCHANGED subscription
    /\ UNCHANGED <<m_NsqApi, m_NsqSpi, announced, flags, link, login, query, drops, delivered>>

\* 3 seconds, whatever the service has answered by then.
CallOnReady ==
    /\ Go("subscribed", "inited")
    /\ announced' = TRUE
    /\ UNCHANGED <<m_NsqApi, m_NsqSpi, flags, service, delivered, refused>>

\* connect, a later callback of the proxy, only sets g_running, which
\* nothing reads: release may come after init with or without it.  It
\* begins with m_worker, which nobody ever set: to read it may end the process.
BeginRelease ==
    /\ Go("inited", "releasing") \/ Go("inited", "crashed")
    /\ UNCHANGED <<m_NsqApi, m_NsqSpi, announced, flags, service, delivered, refused>>

ReleaseApi ==
    /\ Go("releasing", "deleting")
    /\ m_NsqApi' = "released"
    /\ UNCHANGED <<m_NsqSpi, announced, flags, service, delivered, refused>>

DeleteSpi ==
    /\ Go("deleting", "released")
    /\ m_NsqSpi' = "released"
    /\ UNCHANGED <<m_NsqApi, announced, flags, service, delivered, refused>>

InitSteps ==
    \/ Create \/ ApiInit \/ AwaitConnection \/ AwaitLogin \/ GiveUp
    \/ ReqAllFutInstruments \/ AwaitInstruments \/ FutSubscribe \/ CallOnReady
ReleaseSteps == BeginRelease \/ ReleaseApi \/ DeleteSpi

---------------------------------------------------------------------------
(* The callbacks, while there is an api object to make them.               *)

Live == m_NsqApi = "alive" /\ pc \notin {"created", "crashed"}

OnFrontConnected ==
    /\ Live /\ ~link
    /\ link' = TRUE /\ m_isConnected' = TRUE
    /\ \/ login' = "asked" /\ UNCHANGED refused
       \/ refused' = TRUE /\ UNCHANGED login
    /\ UNCHANGED <<coreThread, m_isLogined, m_isAllInstrReady, query, subscription,
                   drops, delivered>>

\* The flags stay as they are; the service may or may not remember us, and
\* may have granted a request whose answer is lost.
OnFrontDisconnected ==
    /\ Live /\ link /\ drops < MaxDrops
    /\ drops' = drops + 1
    /\ link' = FALSE /\ login' = "no" /\ query' = FALSE
    /\ subscription' = "no" \/ (subscription # "no" /\ subscription' = "yes")
    /\ UNCHANGED <<coreThread, flags, delivered, refused>>

OnRspUserLogin ==
    /\ Live /\ login = "asked"
    /\ \/ login' = "yes" /\ m_isLogined' = TRUE /\ UNCHANGED refused
       \/ login' = "no" /\ refused' = TRUE /\ UNCHANGED m_isLogined
    /\ UNCHANGED <<coreThread, m_isConnected, m_isAllInstrReady, link, query, subscription,
                   drops, delivered>>

\* The last record of the answer; the ones before it change nothing here.
OnRspQryFutuInstruments ==
    /\ Live /\ query
    /\ m_isAllInstrReady' = TRUE /\ query' = FALSE
    /\ UNCHANGED <<coreThread, m_isConnected, m_isLogined, link, login, subscription,
                   drops, delivered, refused>>

\* The answer is only printed, a refusal too.
OnRspFutuDepthMarketDataSubscribe ==
    /\ Live /\ subscription = "asked"
    /\ \/ subscription' = "yes" /\ UNCHANGED refused
       \/ subscription' = "no" /\ refused' = TRUE
    /\ UNCHANGED <<coreThread, flags, link, login, query, drops, delivered>>

\* Every quote goes to on_msg at once, before on_ready too.
OnRtnFutuDepthMarketData ==
    /\ Live /\ link /\ subscription = "yes" /\ delivered < MaxDelivered
    /\ delivered' = delivered + 1
    /\ UNCHANGED <<coreThread, flags, service, refused>>

Answers == OnRspUserLogin \/ OnRspQryFutuInstruments \/ OnRspFutuDepthMarketDataSubscribe

\* The end of the program, or a wait for an answer.
SessionIdle ==
    /\ pc \in {"failed", "released", "crashed", "logging_in"}
    /\ UNCHANGED session

SessionNext ==
    \/ InitSteps \/ ReleaseSteps
    \/ OnFrontConnected \/ OnFrontDisconnected \/ Answers \/ OnRtnFutuDepthMarketData
    \/ SessionIdle

(* The core thread runs, and the SDK delivers the answers it has; the      *)
(* proxy need not call release, no connection need be made, and none of    *)
(* them need last.                                                         *)
SessionSpec ==
    /\ SessionInit /\ [][SessionNext]_session
    /\ WF_session(InitSteps) /\ WF_session(Answers)

---------------------------------------------------------------------------
Objects == {"none", "alive", "released"}

(* Every variable has its type, and a program past NewNsqApiExt has an api *)
(* object, alive or released.                                              *)
SessionTypeOK ==
    /\ m_NsqApi = "none" => pc \in {"start", "failed"}
    /\ pc \in {"start", "created", "connecting", "logging_in", "giving_up", "failed", "querying",
               "awaiting_instruments", "subscribing", "subscribed", "inited", "releasing",
               "crashed", "deleting", "released"}
    /\ m_NsqApi \in Objects /\ m_NsqSpi \in Objects
    /\ m_isConnected \in BOOLEAN /\ m_isLogined \in BOOLEAN /\ m_isAllInstrReady \in BOOLEAN
    /\ announced \in BOOLEAN /\ delivered \in 0 .. MaxDelivered
    /\ link \in BOOLEAN /\ login \in {"no", "asked", "yes"} /\ query \in BOOLEAN
    /\ subscription \in {"no", "asked", "yes"} /\ drops \in 0 .. MaxDrops /\ refused \in BOOLEAN

(* The api object calls the spi object as long as it lives, also during    *)
(* release and after init has given up, so the spi object outlives it.     *)
SpiOutlivesApi == m_NsqApi = "alive" => m_NsqSpi = "alive"

(* init returned -1: no api object is left to call back, however late the  *)
(* answer to the login comes, and on_ready was not called.                 *)
FailedIsQuiet == pc = "failed" => m_NsqApi # "alive" /\ ~announced /\ delivered = 0

(* on_ready is called in a session that is logged in and has asked for its *)
(* instruments, and it stays one in which they are asked for or granted,   *)
(* unless a connection was lost or a request refused since the start.  The *)
(* grant itself is not waited for: on_ready may come first.  After a loss  *)
(* this says nothing: the flags keep the values of the lost connection,    *)
(* and nobody subscribes again.                                            *)
AskedUnlessDropped ==
    announced /\ drops = 0 /\ ~refused => link /\ login = "yes" /\ subscription # "no"

(* init ends once a connection was made, whatever the service answers.     *)
InitReturns ==
    m_isConnected ~> pc \in {"failed", "inited", "releasing", "crashed", "deleting", "released"}
=============================================================================
