--------------------------- MODULE NanoLifecycle ---------------------------
(***************************************************************************)
(* Start and stop of the plugins on the NanoMd receive library.  Three     *)
(* threads: fb_md_proxy's core thread, which makes the callbacks init,     *)
(* connect and release in that order; the worker Routine that init starts; *)
(* and the dispatcher ProcessMsg that the receiver object of Routine       *)
(* starts and its destructor joins.  g_running is the only thing connect   *)
(* and release tell the worker.                                            *)
(*                                                                         *)
(* dispatched = TRUE is nano_febao_dce (nano_febao_gfex is the same code); *)
(* FALSE is nano_api_gfex, whose Init, Run and destructor take the place   *)
(* of the callbacks (ready and m_fb_initialized only mark how far Init is  *)
(* there), whose Routine has no m_fb_initialized test and whose receiver   *)
(* calls back from the worker itself, with no dispatcher (the handler it   *)
(* calls and when that was registered are NanoApi's).                      *)
(* A quote is counted, not looked at; the ring is its number of entries.   *)
(***************************************************************************)
EXTENDS Integers

CONSTANTS
    Variants,     \* of the receiver: TRUE with a dispatcher thread, FALSE without
    RingSize,     \* capacity of m_ringbuffer_lv1
    MaxQuotes     \* bound: quotes the library delivers

ASSUME VariantsAssumption == Variants \subseteq BOOLEAN
ASSUME SizesAssumption == RingSize \in Nat \ {0} /\ MaxQuotes \in Nat

VARIABLES
    dispatched,         \* which plugin this is; never changes
    proxy,              \* the core thread
    worker,             \* Routine
    dispatcher,         \* ProcessMsg: "none" or "running"
    g_running,
    m_fb_initialized,
    ready,              \* on_ready was called
    ring,               \* entries of m_ringbuffer_lv1
    received,           \* quotes NanoRecv has delivered
    published,          \* calls of on_msg
    failed              \* history: NanoStart or NanoRecv returned an error

vars == <<dispatched, proxy, worker, dispatcher, g_running, m_fb_initialized, ready, ring,
          received, published, failed>>

Init ==
    /\ dispatched \in Variants
    /\ proxy = "registered"
    /\ worker = "none"
    /\ dispatcher = "none"
    /\ g_running = FALSE
    /\ m_fb_initialized = FALSE
    /\ ready = FALSE
    /\ ring = 0
    /\ received = 0
    /\ published = 0
    /\ failed = FALSE

---------------------------------------------------------------------------
(* The core thread.                                                        *)

\* init starts the worker first ...
InitSpawn ==
    /\ proxy = "registered"
    /\ proxy' = "spawned"
    /\ worker' = "created"
    /\ UNCHANGED <<dispatched, dispatcher, g_running, m_fb_initialized, ready, ring, received, published, failed>>

\* ... calls on_ready, and only then stores m_fb_initialized.
InitReady ==
    /\ proxy = "spawned"
    /\ proxy' = "ready"
    /\ ready' = TRUE
    /\ UNCHANGED <<dispatched, worker, dispatcher, g_running, m_fb_initialized, ring, received, published, failed>>

InitDone ==
    /\ proxy = "ready"
    /\ proxy' = "inited"
    /\ m_fb_initialized' = TRUE
    /\ UNCHANGED <<dispatched, worker, dispatcher, g_running, ready, ring, received, published, failed>>

\* Mutant: connect forgets to tell the worker.
Connect_Forgets ==
    /\ proxy = "inited"
    /\ proxy' = "connected"
    /\ UNCHANGED <<dispatched, worker, dispatcher, g_running, m_fb_initialized, ready, ring, received, published, failed>>

Connect ==
    /\ proxy = "inited"
    /\ proxy' = "connected"
    /\ g_running' = TRUE
    /\ UNCHANGED <<dispatched, worker, dispatcher, m_fb_initialized, ready, ring, received, published, failed>>

Release ==
    /\ proxy = "connected"
    /\ proxy' = "releasing"
    /\ g_running' = FALSE
    /\ UNCHANGED <<dispatched, worker, dispatcher, m_fb_initialized, ready, ring, received, published, failed>>

\* Mutant: release returns without waiting for the worker.
JoinWorker_Skipped ==
    /\ proxy = "releasing"
    /\ proxy' = "released"
    /\ UNCHANGED <<dispatched, worker, dispatcher, g_running, m_fb_initialized, ready, ring, received, published, failed>>

JoinWorker ==
    /\ proxy = "releasing"
    /\ worker = "ended"
    /\ proxy' = "released"
    /\ UNCHANGED <<dispatched, worker, dispatcher, g_running, m_fb_initialized, ready, ring, received, published, failed>>

---------------------------------------------------------------------------
(* The worker.                                                             *)

Goto(label) == worker' = label

\* The receiver's constructor starts the dispatcher.
CreateReceiver ==
    /\ worker = "created"
    /\ Goto("starting")
    /\ dispatcher' = IF dispatched THEN "running" ELSE "none"
    /\ UNCHANGED <<dispatched, proxy, g_running, m_fb_initialized, ready, ring, received, published, failed>>

NanoStart ==
    /\ worker = "starting"
    /\ \/ Goto("static") /\ failed' = failed
       \/ Goto("leaving") /\ failed' = TRUE
    /\ UNCHANGED <<dispatched, proxy, dispatcher, g_running, m_fb_initialized, ready, ring, received, published>>

\* SaveInstStaticInfo, then the test of m_fb_initialized (nano_febao only).
TestInitialized ==
    /\ worker = "static"
    /\ Goto(IF dispatched /\ ~m_fb_initialized THEN "destroying" ELSE "testing")
    /\ UNCHANGED <<dispatched, proxy, dispatcher, g_running, m_fb_initialized, ready, ring, received, published, failed>>

\* Mutant: g_running is tested only once.
TestRunning_OnlyOnce ==
    /\ worker = "testing"
    /\ Goto(IF g_running \/ received > 0 THEN "receiving" ELSE "destroying")
    /\ UNCHANGED <<dispatched, proxy, dispatcher, g_running, m_fb_initialized, ready, ring, received, published, failed>>

\* The loop condition: without g_running the loop is left for good.
TestRunning ==
    /\ worker = "testing"
    /\ Goto(IF g_running THEN "receiving" ELSE "destroying")
    /\ UNCHANGED <<dispatched, proxy, dispatcher, g_running, m_fb_initialized, ready, ring, received, published, failed>>

\* NanoRecv found nothing, or a quote the handler's filter rejects.
NanoRecvNothing ==
    /\ worker = "receiving"
    /\ Goto("testing")
    /\ UNCHANGED <<dispatched, proxy, dispatcher, g_running, m_fb_initialized, ready, ring, received, published, failed>>

\* NanoRecv calls the handler, which pushes; a full ring makes the push wait.
NanoRecvPush ==
    /\ worker = "receiving"
    /\ dispatched /\ ring < RingSize /\ received < MaxQuotes
    /\ Goto("testing")
    /\ received' = received + 1
    /\ ring' = ring + 1
    /\ UNCHANGED <<dispatched, proxy, dispatcher, g_running, m_fb_initialized, ready, published, failed>>

\* nano_api_gfex: the handler calls the user back at once.
NanoRecvCallback ==
    /\ worker = "receiving"
    /\ ~dispatched /\ received < MaxQuotes
    /\ Goto("testing")
    /\ received' = received + 1
    /\ published' = published + 1
    /\ UNCHANGED <<dispatched, proxy, dispatcher, g_running, m_fb_initialized, ready, ring, failed>>

NanoRecvError ==
    /\ worker = "receiving"
    /\ Goto("destroying")
    /\ failed' = TRUE
    /\ UNCHANGED <<dispatched, proxy, dispatcher, g_running, m_fb_initialized, ready, ring, received, published>>

DestroyApi ==
    /\ worker = "destroying"
    /\ Goto("leaving")
    /\ UNCHANGED <<dispatched, proxy, dispatcher, g_running, m_fb_initialized, ready, ring, received, published, failed>>

\* Leaving Routine runs the receiver's destructor, which joins the dispatcher.
LeaveRoutine ==
    /\ worker = "leaving"
    /\ dispatcher = "none"
    /\ Goto("ended")
    /\ UNCHANGED <<dispatched, proxy, dispatcher, g_running, m_fb_initialized, ready, ring, received, published, failed>>

---------------------------------------------------------------------------
(* The dispatcher: while (true).                                           *)

\* Mutant: the dispatcher stops with g_running.
Dispatch_WhileRunning ==
    /\ dispatcher = "running" /\ ring > 0 /\ g_running
    /\ ring' = ring - 1
    /\ published' = published + 1
    /\ UNCHANGED <<dispatched, proxy, worker, dispatcher, g_running, m_fb_initialized, ready, received, failed>>

Dispatch ==
    /\ dispatcher = "running" /\ ring > 0
    /\ ring' = ring - 1
    /\ published' = published + 1
    /\ UNCHANGED <<dispatched, proxy, worker, dispatcher, g_running, m_fb_initialized, ready, received, failed>>

\* try_pop finds nothing; also where a stopped process stays.
Idle ==
    /\ ring = 0
    /\ dispatcher = "running" \/ proxy = "released"
    /\ UNCHANGED vars

Callbacks == InitSpawn \/ InitReady \/ InitDone \/ Connect \/ JoinWorker
Routine   == \/ CreateReceiver \/ NanoStart \/ TestInitialized \/ TestRunning
             \/ NanoRecvNothing \/ NanoRecvPush \/ NanoRecvCallback \/ NanoRecvError
             \/ DestroyApi \/ LeaveRoutine

Next == Callbacks \/ Release \/ Routine \/ Dispatch \/ Idle

(* Every thread keeps running, and the proxy carries its callbacks up to   *)
(* connect; when it calls release, if ever, is its own affair.             *)
Spec == Init /\ [][Next]_vars /\ WF_vars(Callbacks) /\ WF_vars(Routine) /\ WF_vars(Dispatch)

---------------------------------------------------------------------------
TypeOK ==
    /\ dispatched \in BOOLEAN
    /\ proxy \in {"registered", "spawned", "ready", "inited", "connected", "releasing", "released"}
    /\ worker \in {"none", "created", "starting", "static", "testing", "receiving",
                   "destroying", "leaving", "ended"}
    /\ dispatcher \in {"none", "running"}
    /\ g_running \in BOOLEAN /\ m_fb_initialized \in BOOLEAN
    /\ ready \in BOOLEAN /\ failed \in BOOLEAN
    /\ ring \in 0 .. RingSize
    /\ received \in 0 .. MaxQuotes
    /\ published \in 0 .. MaxQuotes

(* No quote is received, queued or handed to on_msg before on_ready and    *)
(* connect were called, although the worker runs from the middle of init.  *)
NothingBeforeConnect ==
    worker = "receiving" \/ received > 0
        => ready /\ proxy \in {"connected", "releasing", "released"}

(* Once release has returned nothing calls back any more: join is what     *)
(* makes it safe to unload the plugin.                                     *)
SilentAfterRelease == [][proxy = "released" => published' = published]_vars

(* Every quote the worker queued reaches on_msg, during a release too.     *)
Drained == \A n \in 1 .. MaxQuotes : received = n ~> published >= n

(* release stops the reception: the worker leaves its receive loop.        *)
ReceptionStops == proxy = "releasing" ~> worker \in {"leaving", "ended"}

(* The connect callback starts the reception if it comes before the worker *)
(* has tested m_fb_initialized and g_running; a worker that tests earlier  *)
(* is gone.  The library may fail and release may come first.              *)
ConnectInTimeStarts ==
    proxy = "connected" /\ worker \in {"created", "starting", "static", "testing"}
        ~> worker = "receiving" \/ failed \/ proxy # "connected"

---------------------------------------------------------------------------
(* The inductive invariant behind the two safety properties: g_running is  *)
(* set only between connect and release, the worker cannot outlive a       *)
(* release that returned, and then no dispatcher was there to outlive it.  *)
LifecycleInv ==
    /\ TypeOK
    /\ NothingBeforeConnect
    /\ g_running => proxy = "connected"
    /\ proxy \notin {"registered", "spawned"} => ready
    /\ proxy = "registered" => worker = "none"
    /\ proxy = "released" => worker = "ended"
    /\ worker = "ended" => dispatcher = "none"
    /\ published + ring = received
    /\ dispatcher = "none" => ring = 0
    /\ dispatched /\ worker \notin {"none", "created"} => dispatcher = "running"
    /\ worker \in {"none", "created"} => dispatcher = "none"
=============================================================================
