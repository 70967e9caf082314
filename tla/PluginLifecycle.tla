-------------------------- MODULE PluginLifecycle --------------------------
(***************************************************************************)
(* Start and stop of the plugins that do not use the NanoMd library.  Each *)
(* plugin is a script: the steps its init, connect and release take on     *)
(* fb_md_proxy's core thread, in program order, and what its threads test. *)
(* The threads run beside the core thread:                                 *)
(*   worker      Routine: the initialised flags, then while (g_running)    *)
(*   stats       StatsRoutine of npro_febao_shfe                           *)
(*   dispatcher  ProcessMsg: while (true), pops the ring, calls on_msg     *)
(*   lv1, lv2    a receiver object's thread: while (m_running)             *)
(* The sleeps of the code order nothing and are left out.  A quote is      *)
(* counted, not looked at; the ring is its number of entries.              *)
(***************************************************************************)
EXTENDS Integers, Sequences

CONSTANTS
    Plugins,      \* the scripts to run
    MaxQuotes     \* bound: packets that arrive

Receivers == {"lv1", "lv2"}
Threads == {"worker", "stats", "dispatcher"} \cup Receivers

---------------------------------------------------------------------------
(* The steps of a script.                                                  *)

Step(op, t) == [op |-> op, thread |-> t]
Spawn(t)    == Step("spawn", t)      \* new std::thread
Join(t)     == Step("join", t)
Start(r)    == Step("start", r)      \* the receiver's start()
Launch(r)   == Step("launch", r)     \* ExanicReceiver::start, which cannot fail
Stop(r)     == Step("stop", r)       \* the receiver's stop()
Close(r)    == Step("close", r)      \* part of RawTcpReceiver::stop
Signals     == Step("signals", "core") \* signal(SIGINT, &on_exit), the same for SIGQUIT
Flags       == Step("flags", "core") \* m_exanic_initialized, m_fb_initialized
OnReady     == Step("on_ready", "core")
Run         == Step("run", "core")   \* g_running = true
Halt        == Step("halt", "core")  \* g_running = false

(* szse_etf_mdsz_exanic has its call of on_msg commented out: it receives  *)
(* like the others, and publishes here where the call was.                 *)
(* tests: when the worker looks at the flags; blocking: recv blocks (the   *)
(* RawTcpReceivers); ring: quotes go through the ring to the dispatcher.   *)
Plugin(init, connect, release, tests, blocking, ring) ==
    [init |-> init, connect |-> connect, release |-> release,
     tests |-> tests, blocking |-> blocking, ring |-> ring]

\* InitExanic (InitSzMd) installs on_exit before the worker is created; the
\* other plugins that define an on_exit never install it.
cffex_md_exanic      == Plugin(<<Signals, Spawn("worker"), Flags, OnReady>>, <<Run>>,
                               <<Halt, Join("worker")>>, "before", FALSE, FALSE)
qx_index_etf_md      == cffex_md_exanic
szse_etf             == cffex_md_exanic
szse_etf_mdsz        == cffex_md_exanic
szse_etf_mdsz_exanic == cffex_md_exanic
sse_etf_md_exanic    == cffex_md_exanic
sse_etf_mdsh_exanic  == Plugin(<<Signals, Spawn("worker"), Flags, OnReady>>, <<Run>>,
                               <<Halt, Join("worker")>>, "inside", FALSE, FALSE)
sse_etf_mdsh_efvi    == Plugin(<<Spawn("worker"), OnReady, Signals>>, <<Run>>,
                               <<Halt, Join("worker")>>, "never", FALSE, FALSE)
\* With m_config.stats and without.
npro_febao_shfe_stats == Plugin(<<Flags, Spawn("worker"), Spawn("stats"), OnReady>>, <<Run>>,
                               <<Halt, Join("worker"), Join("stats")>>, "before", FALSE, FALSE)
npro_febao_shfe      == Plugin(<<Flags, Spawn("worker"), OnReady>>, <<Run>>,
                               <<Halt, Join("worker")>>, "before", FALSE, FALSE)
dz_gfex_md           == Plugin(<<>>, <<Spawn("dispatcher"), Start("lv2"), Start("lv1"), Run, OnReady>>,
                               <<Halt, Stop("lv2"), Stop("lv1")>>, "never", TRUE, TRUE)
gfex_md_exanic       == Plugin(<<>>, <<Spawn("dispatcher"), Launch("lv2"), Start("lv1"), Run, OnReady>>,
                               <<Halt, Stop("lv1"), Stop("lv2")>>, "never", FALSE, TRUE)
zx_gfex_md           == Plugin(<<>>, <<Start("lv1"), Run, OnReady>>, <<Halt, Stop("lv1")>>,
                               "never", FALSE, FALSE)
gz_dce_udp           == Plugin(<<OnReady, Flags>>, <<Start("lv1"), Run>>, <<Halt>>, "never", FALSE, FALSE)
sse_option_md        == Plugin(<<Start("lv1"), OnReady>>, <<Run>>, <<Stop("lv1"), Halt>>,
                               "never", FALSE, FALSE)

AllPlugins == {cffex_md_exanic, sse_etf_mdsh_exanic, sse_etf_mdsh_efvi, npro_febao_shfe_stats,
               npro_febao_shfe, dz_gfex_md, gfex_md_exanic, zx_gfex_md, gz_dce_udp, sse_option_md}

ASSUME PluginsAssumption == Plugins \subseteq AllPlugins
ASSUME QuotesAssumption == MaxQuotes \in Nat

---------------------------------------------------------------------------
VARIABLES
    plugin,       \* which plugin this is; never changes
    call,         \* the callback the core thread is in, or has returned from
    todo,         \* the steps the callback has left
    thread,       \* program counter of every thread
    m_running,    \* of every receiver object
    open,         \* its socket is open
    initialized,  \* m_exanic_initialized and m_fb_initialized
    g_running,
    ready,        \* on_ready was called
    handled,      \* on_exit is installed
    signalled,    \* history: a signal cleared g_running
    ring,         \* entries of the ring
    received,     \* packets taken from the network
    published     \* calls of on_msg

vars == <<plugin, call, todo, thread, m_running, open, initialized, g_running, ready, handled,
          signalled, ring, received, published>>
core == <<plugin, call, todo>>
flow == <<ring, received, published>>
handler == <<handled, signalled>>
switches == <<m_running, open, initialized, g_running, ready, handler>>

Init ==
    /\ plugin \in Plugins
    /\ call = "init" /\ todo = plugin.init
    /\ thread = [t \in Threads |-> "none"]
    /\ m_running = [r \in Receivers |-> FALSE]
    /\ open = [r \in Receivers |-> FALSE]
    /\ initialized = FALSE /\ g_running = FALSE /\ ready = FALSE
    /\ handled = FALSE /\ signalled = FALSE
    /\ ring = 0 /\ received = 0 /\ published = 0

---------------------------------------------------------------------------
(* The core thread.                                                        *)

At(op) == todo # <<>> /\ Head(todo).op = op
Done   == todo' = Tail(todo) /\ UNCHANGED <<plugin, call>>
self   == Head(todo).thread

\* A callback has returned: the proxy makes the next one.
Connect ==
    /\ call = "init" /\ todo = <<>>
    /\ call' = "connect" /\ todo' = plugin.connect
    /\ UNCHANGED <<plugin, thread, switches, flow>>

Release ==
    /\ call = "connect" /\ todo = <<>>
    /\ call' = "release" /\ todo' = plugin.release
    /\ UNCHANGED <<plugin, thread, switches, flow>>

Released ==
    /\ call = "release" /\ todo = <<>>
    /\ call' = "released" /\ todo' = <<>>
    /\ UNCHANGED <<plugin, thread, switches, flow>>

DoSpawn ==
    /\ At("spawn") /\ Done
    /\ thread' = [thread EXCEPT ![self] = "created"]
    /\ UNCHANGED <<switches, flow>>

DoSignals == At("signals") /\ Done /\ handled' = TRUE
             /\ UNCHANGED <<thread, m_running, open, initialized, g_running, ready, signalled, flow>>
DoFlags   == At("flags") /\ Done /\ initialized' = TRUE
             /\ UNCHANGED <<thread, m_running, open, g_running, ready, handler, flow>>
DoOnReady == At("on_ready") /\ Done /\ ready' = TRUE
             /\ UNCHANGED <<thread, m_running, open, initialized, g_running, handler, flow>>
DoRun     == At("run") /\ Done /\ g_running' = TRUE
             /\ UNCHANGED <<thread, m_running, open, initialized, ready, handler, flow>>
DoHalt    == At("halt") /\ Done /\ g_running' = FALSE
             /\ UNCHANGED <<thread, m_running, open, initialized, ready, handler, flow>>

\* start() opens the socket and starts the thread, or returns FALSE, which
\* no caller looks at.
DoStart ==
    /\ At("start") \/ At("launch")
    /\ Done
    /\ \/ /\ m_running' = [m_running EXCEPT ![self] = TRUE]
          /\ open' = [open EXCEPT ![self] = TRUE]
          /\ thread' = [thread EXCEPT ![self] = "created"]
       \/ At("start") /\ UNCHANGED <<m_running, open, thread>>
    /\ UNCHANGED <<initialized, g_running, ready, handler, flow>>


\* stop() returns at once if not running; RawTcpReceiver's closes the socket
\* before the join.
DoStop ==
    /\ At("stop")
    /\ todo' = IF ~m_running[self] THEN Tail(todo)
               ELSE IF plugin.blocking
                    THEN <<Close(self), Join(self)>> \o Tail(todo)
                    ELSE <<Join(self)>> \o Tail(todo)
    /\ m_running' = [m_running EXCEPT ![self] = FALSE]
    /\ UNCHANGED <<plugin, call, thread, open, initialized, g_running, ready, handler, flow>>

DoClose ==
    /\ At("close") /\ Done
    /\ open' = [open EXCEPT ![self] = FALSE]
    /\ UNCHANGED <<thread, m_running, initialized, g_running, ready, handler, flow>>

\* Mutant: detach instead of join.
DoJoin_Detached == At("join") /\ Done /\ UNCHANGED <<thread, switches, flow>>

DoJoin == At("join") /\ thread[self] = "ended" /\ Done /\ UNCHANGED <<thread, switches, flow>>

Callbacks == \/ DoSignals \/ DoSpawn \/ DoFlags \/ DoOnReady \/ DoRun \/ DoHalt
             \/ DoStart \/ DoStop \/ DoClose \/ DoJoin

\* SIGINT or SIGQUIT runs on_exit on whatever thread.  Before connect and after
\* release g_running is clear as it is, and a signal changes nothing.
OnExit ==
    /\ handled /\ g_running
    /\ g_running' = FALSE /\ signalled' = TRUE
    /\ UNCHANGED <<core, thread, m_running, open, initialized, ready, handled, flow>>

---------------------------------------------------------------------------
(* The threads.                                                            *)

Goto(t, label) == thread' = [thread EXCEPT ![t] = label]

\* One packet becomes one quote: into the ring, or straight to on_msg.
Quote ==
    /\ received < MaxQuotes
    /\ received' = received + 1
    /\ IF plugin.ring THEN ring' = ring + 1 /\ published' = published
                      ELSE published' = published + 1 /\ ring' = ring

\* Mutant: the test of the flags is the other way round.
WorkerEnter_Negated ==
    /\ thread["worker"] = "created"
    /\ Goto("worker", IF plugin.tests = "before" /\ initialized THEN "ended" ELSE "testing")
    /\ UNCHANGED <<core, switches, flow>>

\* Routine up to its loop; the plugins that test the flags here test once.
WorkerEnter ==
    /\ thread["worker"] = "created"
    /\ Goto("worker", IF plugin.tests = "before" /\ ~initialized THEN "ended" ELSE "testing")
    /\ UNCHANGED <<core, switches, flow>>

\* Mutant: the worker does not look at g_running.
WorkerTest_Skipped ==
    /\ thread["worker"] = "testing"
    /\ Goto("worker", "receiving")
    /\ UNCHANGED <<core, switches, flow>>

WorkerTest ==
    /\ thread["worker"] = "testing"
    /\ Goto("worker", IF g_running THEN "receiving" ELSE "ended")
    /\ UNCHANGED <<core, switches, flow>>

\* OnData polls: a quote, or nothing, or a quote the plugin does not want.
WorkerReceive ==
    /\ thread["worker"] = "receiving"
    /\ Goto("worker", "testing")
    /\ \/ ~(plugin.tests = "inside" /\ ~initialized) /\ Quote
       \/ UNCHANGED flow
    /\ UNCHANGED <<core, switches>>

StatsEnter ==
    /\ thread["stats"] = "created"
    /\ Goto("stats", IF initialized THEN "testing" ELSE "ended")
    /\ UNCHANGED <<core, switches, flow>>

\* Past logtime it writes its file and leaves; before, it sleeps.
StatsTest ==
    /\ thread["stats"] = "testing"
    /\ \/ g_running /\ Goto("stats", "testing")
       \/ Goto("stats", "ended")
    /\ UNCHANGED <<core, switches, flow>>

\* Mutant: the dispatcher drops what it pops once g_running is cleared.
Dispatch_Drops ==
    /\ thread["dispatcher"] = "created" /\ ring > 0
    /\ ring' = ring - 1
    /\ published' = IF g_running THEN published + 1 ELSE published
    /\ UNCHANGED <<core, thread, switches, received>>

Dispatch ==
    /\ thread["dispatcher"] = "created" /\ ring > 0
    /\ ring' = ring - 1
    /\ published' = published + 1
    /\ UNCHANGED <<core, thread, switches, received>>

ReceiverTest(r) ==
    /\ thread[r] \in {"created", "testing"}
    /\ Goto(r, IF m_running[r] THEN "receiving" ELSE "ended")
    /\ UNCHANGED <<core, switches, flow>>

\* A socket that is not blocking, or closed, returns with or without a packet.
ReceiverPoll(r) ==
    /\ thread[r] = "receiving"
    /\ ~(plugin.blocking /\ open[r])
    /\ Goto(r, "testing")
    /\ \/ open[r] /\ Quote
       \/ UNCHANGED flow
    /\ UNCHANGED <<core, switches>>

ReceiverBlock(r) ==
    /\ thread[r] = "receiving"
    /\ plugin.blocking /\ open[r]
    /\ Goto(r, "blocked")
    /\ UNCHANGED <<core, switches, flow>>

\* A packet, of the feed or not, wakes recv, also after another thread closed the socket: the
\* call in progress still holds it.  close() itself wakes nobody.
ReceiverWake(r) ==
    /\ thread[r] = "blocked"
    /\ Goto(r, "testing")
    /\ Quote \/ UNCHANGED flow
    /\ UNCHANGED <<core, switches>>

Worker      == WorkerEnter \/ WorkerTest \/ WorkerReceive
Stats       == StatsEnter \/ StatsTest
Receiver(r) == ReceiverTest(r) \/ ReceiverPoll(r) \/ ReceiverBlock(r)

\* Where a stopped process stays, and a receiver without traffic.
Idle ==
    /\ call = "released" \/ \E r \in Receivers : thread[r] = "blocked"
    /\ UNCHANGED vars

Next ==
    \/ Connect \/ Release \/ Released \/ Callbacks \/ OnExit
    \/ Worker \/ Stats \/ Dispatch
    \/ \E r \in Receivers : Receiver(r) \/ ReceiverWake(r)
    \/ Idle

(* Every thread keeps running and the core thread carries out the callback *)
(* it is in; when the proxy makes the next callback is its own affair, and *)
(* so is whether there is traffic, or ever a signal.                       *)
Spec ==
    /\ Init /\ [][Next]_vars
    /\ WF_vars(Callbacks \/ Released) /\ WF_vars(Worker) /\ WF_vars(Stats) /\ WF_vars(Dispatch)
    /\ \A r \in Receivers : WF_vars(Receiver(r))

---------------------------------------------------------------------------
(* What a script does, read off its text.                                  *)

Within(s, op, t) == \E i \in 1 .. Len(s) : s[i] = Step(op, t)

\* Threads the plugin starts, and the ones its release waits for.
StartedBy(p) ==
    {t \in Threads : \E s \in {p.init, p.connect} :
                        \E op \in {"spawn", "start", "launch"} : Within(s, op, t)}
JoinedBy(p)  == {t \in Threads : Within(p.release, "join", t) \/ Within(p.release, "stop", t)}

\* The thread is started while on_ready is still to come.
StartsEarly(p, t) ==
    \E s \in {p.init, p.connect} : \E i, j \in 1 .. Len(s) :
        i < j /\ s[i].thread = t /\ s[j] = OnReady

(* Every variable has its type: the ring never holds less than nothing.    *)
TypeOK ==
    /\ plugin \in Plugins
    /\ call \in {"init", "connect", "release", "released"}
    /\ thread \in [Threads -> {"none", "created", "testing", "receiving", "blocked", "ended"}]
    /\ m_running \in [Receivers -> BOOLEAN] /\ open \in [Receivers -> BOOLEAN]
    /\ initialized \in BOOLEAN /\ g_running \in BOOLEAN /\ ready \in BOOLEAN
    /\ handled \in BOOLEAN /\ signalled \in BOOLEAN
    /\ ring \in 0 .. MaxQuotes /\ received \in 0 .. MaxQuotes /\ published \in 0 .. MaxQuotes

(* on_msg comes after on_ready, except in the plugins whose receiving      *)
(* threads are started before on_ready and test nothing that connect sets. *)
MsgAfterReady ==
    published > 0 => ready \/ \E r \in Receivers : StartsEarly(plugin, r)

(* A worker publishes only after connect, whenever it was created.         *)
WorkerWaitsForConnect ==
    thread["worker"] = "receiving" => ready /\ call # "init"

(* In every state: the types, and nothing received or published before the *)
(* callback that allows it.                                                *)
StartInv == TypeOK /\ MsgAfterReady /\ WorkerWaitsForConnect

(* Once release has returned, a plugin whose release waits for every       *)
(* thread it started makes no further call of on_msg.                      *)
SilentAfterRelease ==
    [][call = "released" /\ StartedBy(plugin) \subseteq JoinedBy(plugin)
        => published' = published]_vars


(* Every packet taken from the network reaches on_msg, those still in the  *)
(* ring when release is called too: the dispatcher outlives it.            *)
Drained == \A n \in 1 .. MaxQuotes : received = n ~> published >= n

(* A worker that has neither tested the flags too early nor g_running      *)
(* before connect does receive once connect has returned, unless a signal  *)
(* cleared g_running again (on_exit): that ends it for good, while the     *)
(* proxy runs on.                                                          *)
InTimeReceives ==
    call = "connect" /\ todo = <<>> /\ thread["worker"] \in {"created", "testing"}
        ~> thread["worker"] = "receiving" \/ call # "connect" \/ signalled
=============================================================================
