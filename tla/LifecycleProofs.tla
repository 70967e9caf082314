-------------------------- MODULE LifecycleProofs --------------------------
(***************************************************************************)
(* Proofs about the three models of start and stop: PluginLifecycle, for   *)
(* every plugin of AllPlugins and any number of packets, NanoLifecycle (as *)
(* Nano), for either receiver, any ring size and any number of quotes, and *)
(* ZtSession, for any number of lost connections and quotes.  They are     *)
(* separate systems: no theorem here is about two of them, and the names   *)
(* NanoLifecycle shares are no connection.  Liveness is left to TLC.       *)
(*                                                                         *)
(* The proof about the plugins never runs a script.  It reads four facts   *)
(* off the text of each (Proper), and from then on knows of todo only that *)
(* it is what is left of the callback's script.                            *)
(***************************************************************************)
EXTENDS PluginLifecycle, ZtSession, SequenceTheorems, TLAPS

---------------------------------------------------------------------------
(* What the proof knows of a script.                                       *)

\* The steps of init and connect, and those of release.
Starting == {Spawn(t) : t \in Threads \ Receivers}
            \cup {Start(r) : r \in Receivers} \cup {Launch(r) : r \in Receivers}
            \cup {Signals, Flags, OnReady, Run}
Ending   == {Halt} \cup {Join(t) : t \in Threads}
            \cup {Stop(r) : r \in Receivers} \cup {Close(r) : r \in Receivers}

\* on_ready is called in s.
Announces(s) == Within(s, "on_ready", "core")

\* Neither init sets g_running nor release starts a thread; on_ready comes in
\* init or connect, and in init if init starts a receiver or anything a worker.
Proper(p) ==
    /\ p.init \in Seq(Starting \ {Run}) /\ p.connect \in Seq(Starting) /\ p.release \in Seq(Ending)
    /\ Announces(p.init) \/ Announces(p.connect)
    /\ (\E i \in 1 .. Len(p.init) : p.init[i].thread \in Receivers) => Announces(p.init)
    /\ "worker" \in StartedBy(p) => Announces(p.init)

---------------------------------------------------------------------------
(* Sequences of steps.                                                     *)

\* The first step of what is left, and what is left after it.
LEMMA Suffix ==
    ASSUME NEW S, NEW s \in Seq(S), NEW k \in 0 .. Len(s), SubSeq(s, k + 1, Len(s)) # <<>>
    PROVE  /\ k + 1 \in 1 .. Len(s)
           /\ Head(SubSeq(s, k + 1, Len(s))) = s[k + 1]
           /\ Tail(SubSeq(s, k + 1, Len(s))) = SubSeq(s, k + 2, Len(s))
<1>1. Len(s) \in Nat
  OBVIOUS
<1>2. k + 1 <= Len(s)
  BY <1>1
<1> DEFINE u == SubSeq(s, k + 1, Len(s))
           v == SubSeq(s, k + 2, Len(s))
<1>3. u \in Seq(S) /\ Len(u) = Len(s) - k /\ \A i \in 1 .. Len(s) - k : u[i] = s[k + i]
  BY <1>1, <1>2
<1>4. v \in Seq(S) /\ Len(v) = Len(s) - k - 1 /\ \A i \in 1 .. Len(s) - k - 1 : v[i] = s[k + 1 + i]
  BY <1>1, <1>2
<1> HIDE DEF u, v
<1>5. Head(u) = s[k + 1]
  BY <1>1, <1>2, <1>3
<1>6. Tail(u) = v
  <2>1. Tail(u) \in Seq(S) /\ Len(Tail(u)) = Len(v)
    BY <1>1, <1>2, <1>3, <1>4
  <2>2. \A i \in 1 .. Len(v) : Tail(u)[i] = v[i]
    BY <1>1, <1>2, <1>3, <1>4
  <2> QED
    BY <2>1, <2>2, <1>4, SeqEqual
<1> QED
  BY <1>1, <1>2, <1>5, <1>6 DEF u, v

\* A step of a sequence is its first or one of the rest.
LEMMA WithinTail ==
    ASSUME NEW S, NEW s \in Seq(S), s # <<>>, NEW op, NEW t, Within(s, op, t)
    PROVE  Head(s) = Step(op, t) \/ Within(Tail(s), op, t)
<1>1. PICK i \in 1 .. Len(s) : s[i] = Step(op, t)
  BY DEF Within
<1>2. CASE i = 1
  BY <1>1, <1>2
<1>3. CASE i # 1
  <2>1. i - 1 \in 1 .. Len(Tail(s)) /\ Tail(s)[i - 1] = s[i]
    BY <1>3
  <2> QED
    BY <1>1, <2>1 DEF Within
<1> QED
  BY <1>2, <1>3

\* Putting steps before or after a sequence takes none away.
LEMMA WithinAppended ==
    ASSUME NEW S, NEW a \in Seq(S), NEW s \in Seq(S), NEW op, NEW t,
           Within(a, op, t) \/ Within(s, op, t)
    PROVE  Within(a \o s, op, t)
<1>1. CASE Within(a, op, t)
  <2>1. PICK i \in 1 .. Len(a) : a[i] = Step(op, t)
    BY <1>1 DEF Within
  <2>2. i \in 1 .. Len(a \o s) /\ (a \o s)[i] = a[i]
    BY <2>1
  <2> QED
    BY <2>1, <2>2 DEF Within
<1>2. CASE Within(s, op, t)
  <2>1. PICK i \in 1 .. Len(s) : s[i] = Step(op, t)
    BY <1>2 DEF Within
  <2>2. Len(a) + i \in 1 .. Len(a \o s) /\ (a \o s)[Len(a) + i] = s[i]
    BY <2>1
  <2> QED
    BY <2>1, <2>2 DEF Within
<1> QED
  BY <1>1, <1>2

\* Which steps are which.
LEMMA Kinds ==
    /\ \A t \in {"worker", "stats", "dispatcher"} : Spawn(t) \in Starting \ {Run}
    /\ \A r \in {"lv1", "lv2"} : Start(r) \in Starting \ {Run} /\ Launch(r) \in Starting \ {Run}
    /\ Signals \in Starting \ {Run} /\ Flags \in Starting \ {Run} /\ OnReady \in Starting \ {Run}
    /\ Run \in Starting
    /\ \A t \in {"worker", "stats"} : Join(t) \in Ending
    /\ \A r \in {"lv1", "lv2"} : Stop(r) \in Ending
    /\ Halt \in Ending
<1> USE DEF Starting, Ending, Spawn, Join, Start, Launch, Stop, Signals, Flags, OnReady, Run, Halt,
            Step, Threads, Receivers
<1>1. \A t \in {"worker", "stats", "dispatcher"} : Spawn(t) \in Starting \ {Run}
  OBVIOUS
<1>2. \A r \in {"lv1", "lv2"} : Start(r) \in Starting \ {Run} /\ Launch(r) \in Starting \ {Run}
  OBVIOUS
<1>3. /\ Signals \in Starting \ {Run} /\ Flags \in Starting \ {Run} /\ OnReady \in Starting \ {Run}
      /\ Run \in Starting
  OBVIOUS
<1>4. \A t \in {"worker", "stats"} : Join(t) \in Ending
  OBVIOUS
<1>5. (\A r \in {"lv1", "lv2"} : Stop(r) \in Ending) /\ Halt \in Ending
  OBVIOUS
<1> QED
  BY <1>1, <1>2, <1>3, <1>4, <1>5

\* Every plugin's scripts are made of them.
LEMMA Typed ==
    \A p \in AllPlugins :
        p.init \in Seq(Starting \ {Run}) /\ p.connect \in Seq(Starting) /\ p.release \in Seq(Ending)
<1> DEFINE T(p) == /\ p.init \in Seq(Starting \ {Run})
                   /\ p.connect \in Seq(Starting)
                   /\ p.release \in Seq(Ending)
<1>1. T(cffex_md_exanic)
  BY Kinds DEF cffex_md_exanic, Plugin
<1>2. T(sse_etf_mdsh_exanic)
  BY Kinds DEF sse_etf_mdsh_exanic, Plugin
<1>3. T(sse_etf_mdsh_efvi)
  BY Kinds DEF sse_etf_mdsh_efvi, Plugin
<1>4. T(npro_febao_shfe)
  BY Kinds DEF npro_febao_shfe, Plugin
<1>5. T(dz_gfex_md)
  BY Kinds DEF dz_gfex_md, Plugin
<1>6. T(gfex_md_exanic)
  BY Kinds DEF gfex_md_exanic, Plugin
<1>7. T(zx_gfex_md)
  BY Kinds DEF zx_gfex_md, Plugin
<1>8. T(gz_dce_udp)
  BY Kinds DEF gz_dce_udp, Plugin
<1>9. T(sse_option_md)
  BY Kinds DEF sse_option_md, Plugin
<1>10. T(npro_febao_shfe_stats)
  BY Kinds DEF npro_febao_shfe_stats, Plugin
<1> HIDE DEF T
<1>11. \A p \in AllPlugins : T(p)
  BY <1>1, <1>2, <1>3, <1>4, <1>5, <1>6, <1>7, <1>8, <1>9, <1>10 DEF AllPlugins
<1> QED
  BY <1>11 DEF T

\* on_ready is where Proper wants it.
LEMMA Ready ==
    \A p \in AllPlugins :
        \/ Announces(p.init)
        \/ /\ Announces(p.connect) /\ p.init = <<>>
           /\ \A i \in 1 .. Len(p.connect) : p.connect[i].thread # "worker"
<1> DEFINE R(p) == \/ Announces(p.init)
                   \/ /\ Announces(p.connect) /\ p.init = <<>>
                      /\ \A i \in 1 .. Len(p.connect) : p.connect[i].thread # "worker"
<1>1. R(cffex_md_exanic)
  <2>1. 4 \in 1 .. Len(cffex_md_exanic.init) /\ cffex_md_exanic.init[4] = OnReady
    BY DEF cffex_md_exanic, Plugin
  <2> QED
    BY <2>1 DEF Announces, Within, OnReady
<1>2. R(sse_etf_mdsh_exanic)
  <2>1. 4 \in 1 .. Len(sse_etf_mdsh_exanic.init) /\ sse_etf_mdsh_exanic.init[4] = OnReady
    BY DEF sse_etf_mdsh_exanic, Plugin
  <2> QED
    BY <2>1 DEF Announces, Within, OnReady
<1>3. R(sse_etf_mdsh_efvi)
  <2>1. 2 \in 1 .. Len(sse_etf_mdsh_efvi.init) /\ sse_etf_mdsh_efvi.init[2] = OnReady
    BY DEF sse_etf_mdsh_efvi, Plugin
  <2> QED
    BY <2>1 DEF Announces, Within, OnReady
<1>4. R(npro_febao_shfe)
  <2>1. 3 \in 1 .. Len(npro_febao_shfe.init) /\ npro_febao_shfe.init[3] = OnReady
    BY DEF npro_febao_shfe, Plugin
  <2> QED
    BY <2>1 DEF Announces, Within, OnReady
<1>5. R(dz_gfex_md)
  <2>1. 5 \in 1 .. Len(dz_gfex_md.connect) /\ dz_gfex_md.connect[5] = OnReady
    BY DEF dz_gfex_md, Plugin
  <2>2. Announces(dz_gfex_md.connect)
    BY <2>1 DEF Announces, Within, OnReady
  <2>3. dz_gfex_md.init = <<>>
    BY DEF dz_gfex_md, Plugin
  <2>4. \A i \in 1 .. Len(dz_gfex_md.connect) : dz_gfex_md.connect[i].thread # "worker"
    BY DEF dz_gfex_md, Plugin, Spawn, Start, Launch, Run, OnReady, Step
  <2> QED
    BY <2>2, <2>3, <2>4
<1>6. R(gfex_md_exanic)
  <2>1. 5 \in 1 .. Len(gfex_md_exanic.connect) /\ gfex_md_exanic.connect[5] = OnReady
    BY DEF gfex_md_exanic, Plugin
  <2>2. Announces(gfex_md_exanic.connect)
    BY <2>1 DEF Announces, Within, OnReady
  <2>3. gfex_md_exanic.init = <<>>
    BY DEF gfex_md_exanic, Plugin
  <2>4. \A i \in 1 .. Len(gfex_md_exanic.connect) : gfex_md_exanic.connect[i].thread # "worker"
    BY DEF gfex_md_exanic, Plugin, Spawn, Start, Launch, Run, OnReady, Step
  <2> QED
    BY <2>2, <2>3, <2>4
<1>7. R(zx_gfex_md)
  <2>1. 3 \in 1 .. Len(zx_gfex_md.connect) /\ zx_gfex_md.connect[3] = OnReady
    BY DEF zx_gfex_md, Plugin
  <2>2. Announces(zx_gfex_md.connect)
    BY <2>1 DEF Announces, Within, OnReady
  <2>3. zx_gfex_md.init = <<>>
    BY DEF zx_gfex_md, Plugin
  <2>4. \A i \in 1 .. Len(zx_gfex_md.connect) : zx_gfex_md.connect[i].thread # "worker"
    BY DEF zx_gfex_md, Plugin, Spawn, Start, Launch, Run, OnReady, Step
  <2> QED
    BY <2>2, <2>3, <2>4
<1>8. R(gz_dce_udp)
  <2>1. 1 \in 1 .. Len(gz_dce_udp.init) /\ gz_dce_udp.init[1] = OnReady
    BY DEF gz_dce_udp, Plugin
  <2> QED
    BY <2>1 DEF Announces, Within, OnReady
<1>9. R(sse_option_md)
  <2>1. 2 \in 1 .. Len(sse_option_md.init) /\ sse_option_md.init[2] = OnReady
    BY DEF sse_option_md, Plugin
  <2> QED
    BY <2>1 DEF Announces, Within, OnReady
<1>10. R(npro_febao_shfe_stats)
  <2>1. 4 \in 1 .. Len(npro_febao_shfe_stats.init) /\ npro_febao_shfe_stats.init[4] = OnReady
    BY DEF npro_febao_shfe_stats, Plugin
  <2> QED
    BY <2>1 DEF Announces, Within, OnReady
<1> HIDE DEF R
<1>11. \A p \in AllPlugins : R(p)
  BY <1>1, <1>2, <1>3, <1>4, <1>5, <1>6, <1>7, <1>8, <1>9, <1>10 DEF AllPlugins
<1> QED
  BY <1>11 DEF R

\* Every plugin's script has the four facts.
LEMMA Scripts == \A p \in AllPlugins : Proper(p)
<1> SUFFICES ASSUME NEW p \in AllPlugins PROVE Proper(p)
  OBVIOUS
<1>1. CASE Announces(p.init)
  BY <1>1, Typed DEF Proper
<1>2. CASE /\ Announces(p.connect) /\ p.init = <<>>
           /\ \A i \in 1 .. Len(p.connect) : p.connect[i].thread # "worker"
  <2>1. \A i \in 1 .. Len(p.init) : FALSE
    BY <1>2
  <2>2. \A op : Step(op, "worker").thread = "worker"
    BY DEF Step
  <2>3. "worker" \notin StartedBy(p)
    BY <1>2, <2>1, <2>2 DEF StartedBy, Within
  <2> QED
    BY <1>2, <2>1, <2>3, Typed DEF Proper
<1> QED
  BY <1>1, <1>2, Ready

---------------------------------------------------------------------------
(* The inductive invariant.                                                *)

\* The plugin starts a receiver before it calls on_ready.
Early == \E r \in Receivers : StartsEarly(plugin, r)
\* todo is what is left of s, and if its on_ready has been passed, it was called.
Passed(s) == \E k \in 0 .. Len(s) :
                /\ todo = SubSeq(s, k + 1, Len(s))
                /\ \A j \in 1 .. k : s[j] = OnReady => ready
\* A thread that does not run.
Over == {"none", "ended"}

\* The core thread is somewhere in the callback's script; g_running is still
\* clear during init, and an on_ready of init is over once init is.
PlaceInv ==
    /\ call = "init" => Passed(plugin.init) /\ ~g_running
    /\ call = "connect" => Passed(plugin.connect)
    /\ call \in {"release", "released"} => todo \in Seq(Ending)
    /\ call = "released" => todo = <<>>
    /\ call # "init" /\ Announces(plugin.init) => ready

\* Only what the plugin starts runs, a receiver not before on_ready unless it
\* was started early; a receiver that was told to stop is being joined, and
\* during release what it joins has ended or is still to be joined.
ThreadInv ==
    /\ \A t \in Threads : thread[t] # "none" => t \in StartedBy(plugin)
    /\ \A r \in Receivers : thread[r] # "none" => ready \/ StartsEarly(plugin, r)
    /\ \A r \in Receivers : thread[r] \notin Over => m_running[r] \/ Within(todo, "join", r)
    /\ call \in {"release", "released"} =>
         \A t \in JoinedBy(plugin) :
            thread[t] \in Over \/ Within(todo, "join", t) \/ Within(todo, "stop", t)

\* No packet is lost, and none comes before on_ready unless a receiver was early.
FlowInv ==
    /\ published + ring = received
    /\ received > 0 => ready \/ Early

\* All of it.
PluginInv == TypeOK /\ WorkerWaitsForConnect /\ FlowInv /\ PlaceInv /\ ThreadInv

---------------------------------------------------------------------------
(* The core thread.                                                        *)

\* What op and thread of a step say about each other.
LEMMA Ops ==
    /\ \A s \in Starting :
         /\ s.op \in {"spawn", "start", "launch", "signals", "flags", "on_ready", "run"}
         /\ s = Step(s.op, s.thread)
         /\ s.op = "spawn" => s.thread \in Threads \ Receivers
         /\ s.op \in {"start", "launch"} => s.thread \in Receivers
         /\ s.op = "on_ready" => s = OnReady
         /\ s.op = "run" => s = Run
    /\ \A s \in Ending :
         /\ s.op \in {"halt", "join", "stop", "close"}
         /\ s = Step(s.op, s.thread)
         /\ s.op = "join" => s.thread \in Threads
         /\ s.op \in {"stop", "close"} => s.thread \in Receivers
  BY DEF Starting, Ending, Spawn, Join, Start, Launch, Stop, Close, Signals, Flags, OnReady, Run,
         Halt, Step, Threads, Receivers

\* A step taken is one passed; no on_ready was passed before without a call.
LEMMA NextPlace ==
    ASSUME NEW S, NEW s \in Seq(S), Passed(s), todo # <<>>, todo' = Tail(todo),
           ready => ready', Head(todo) = OnReady => ready'
    PROVE  /\ Passed(s)'
           /\ \E i \in 1 .. Len(s) : /\ s[i] = Head(todo)
                                     /\ \A j \in 1 .. i - 1 : s[j] = OnReady => ready
<1>1. PICK k \in 0 .. Len(s) : /\ todo = SubSeq(s, k + 1, Len(s))
                              /\ \A j \in 1 .. k : s[j] = OnReady => ready
  BY DEF Passed
<1>2. k + 1 \in 1 .. Len(s) /\ Head(todo) = s[k + 1] /\ todo' = SubSeq(s, k + 2, Len(s))
  BY <1>1, Suffix
<1>3. \A j \in 1 .. k + 1 : s[j] = OnReady => ready'
  <2> TAKE j \in 1 .. k + 1
  <2>1. j \in 1 .. k \/ j = k + 1
    BY <1>1
  <2> QED
    BY <2>1, <1>1, <1>2
<1>4. k + 1 \in 0 .. Len(s) /\ (k + 1) + 1 = k + 2 /\ (k + 1) - 1 = k
  BY <1>2
<1>5. Passed(s)'
  BY <1>2, <1>3, <1>4 DEF Passed
<1> QED
  BY <1>1, <1>2, <1>4, <1>5

\* Which callback the next step belongs to.
LEMMA Place ==
    ASSUME PluginInv, todo # <<>>
    PROVE  \/ call = "init" /\ Head(todo) \in Starting \ {Run}
           \/ call = "connect" /\ Head(todo) \in Starting
           \/ call = "release" /\ Head(todo) \in Ending
<1>1. Proper(plugin)
  BY Scripts, PluginsAssumption DEF PluginInv, TypeOK
<1>2. call \in {"init", "connect", "release", "released"}
  BY DEF PluginInv, TypeOK
<1>3. CASE call = "init"
  <2>1. PICK k \in 0 .. Len(plugin.init) : todo = SubSeq(plugin.init, k + 1, Len(plugin.init))
    BY <1>3 DEF PluginInv, PlaceInv, Passed
  <2>2. plugin.init \in Seq(Starting \ {Run})
    BY <1>1 DEF Proper
  <2>3. k + 1 \in 1 .. Len(plugin.init) /\ Head(todo) = plugin.init[k + 1]
    BY <2>1, <2>2, Suffix
  <2> QED
    BY <1>3, <2>2, <2>3, ElementOfSeq
<1>4. CASE call = "connect"
  <2>1. PICK k \in 0 .. Len(plugin.connect) : todo = SubSeq(plugin.connect, k + 1, Len(plugin.connect))
    BY <1>4 DEF PluginInv, PlaceInv, Passed
  <2>2. plugin.connect \in Seq(Starting)
    BY <1>1 DEF Proper
  <2>3. k + 1 \in 1 .. Len(plugin.connect) /\ Head(todo) = plugin.connect[k + 1]
    BY <2>1, <2>2, Suffix
  <2> QED
    BY <1>4, <2>2, <2>3, ElementOfSeq
<1>5. CASE call = "release"
  <2>1. todo \in Seq(Ending)
    BY <1>5 DEF PluginInv, PlaceInv
  <2> QED
    BY <1>5, <2>1
<1>6. CASE call = "released"
  BY <1>6 DEF PluginInv, PlaceInv
<1> QED
  BY <1>2, <1>3, <1>4, <1>5, <1>6

\* A step of init or connect keeps the place, and stands in that script.
LEMMA Begins ==
    ASSUME PluginInv, todo # <<>>, Head(todo) \in Starting, Done,
           ready => ready', Head(todo) = OnReady => ready',
           g_running' => g_running \/ Head(todo) = Run
    PROVE  /\ PlaceInv' /\ call \in {"init", "connect"}
           /\ \E s \in {plugin.init, plugin.connect} : \E i \in 1 .. Len(s) :
                 /\ s[i] = Head(todo)
                 /\ \A j \in 1 .. i - 1 : s[j] = OnReady => ready
                 /\ \/ call = "init" /\ s = plugin.init
                    \/ call = "connect" /\ s = plugin.connect /\ (Announces(plugin.init) => ready)
<1>1. Proper(plugin)
  BY Scripts, PluginsAssumption DEF PluginInv, TypeOK
<1>2. \/ call = "init" /\ Head(todo) # Run
      \/ call = "connect"
  BY Place, Ops
<1>3. plugin' = plugin /\ call' = call /\ todo' = Tail(todo)
  BY DEF Done
<1>4. call # "init" /\ Announces(plugin.init) => ready
  BY DEF PluginInv, PlaceInv
<1>5. CASE call = "init"
  <2>1. PICK s \in Seq(Starting) : s = plugin.init
    BY <1>1 DEF Proper
  <2>2. Passed(s) /\ ~g_running
    BY <1>5, <2>1 DEF PluginInv, PlaceInv
  <2>3. /\ Passed(s)'
        /\ \E i \in 1 .. Len(s) : /\ s[i] = Head(todo)
                                  /\ \A j \in 1 .. i - 1 : s[j] = OnReady => ready
    BY <1>3, <2>2, NextPlace
  <2>4. Passed(plugin.init)' /\ ~g_running'
    BY <1>2, <1>3, <1>5, <2>1, <2>2, <2>3 DEF Passed
  <2>5. PlaceInv'
    BY <1>3, <1>5, <2>4 DEF PlaceInv
  <2> QED
    BY <1>5, <2>1, <2>3, <2>5, <1>1
<1>6. CASE call = "connect"
  <2>1. PICK s \in Seq(Starting) : s = plugin.connect
    BY <1>1 DEF Proper
  <2>2. Passed(s)
    BY <1>6, <2>1 DEF PluginInv, PlaceInv
  <2>3. /\ Passed(s)'
        /\ \E i \in 1 .. Len(s) : /\ s[i] = Head(todo)
                                  /\ \A j \in 1 .. i - 1 : s[j] = OnReady => ready
    BY <1>3, <2>2, NextPlace
  <2>4. Passed(plugin.connect)'
    BY <1>3, <2>1, <2>3 DEF Passed
  <2>5. PlaceInv'
    <3>1. (Announces(plugin.init) => ready)'
      BY <1>3, <1>4, <1>6 DEF Announces, Within
    <3> QED
      BY <1>3, <1>6, <2>4, <3>1 DEF PlaceInv
  <2> QED
    BY <1>4, <1>6, <2>1, <2>3, <2>5
<1> QED
  BY <1>2, <1>5, <1>6

\* A receiver is started before on_ready only by a plugin that starts it early.
LEMMA Announced ==
    ASSUME PluginInv, todo # <<>>, Head(todo) \in Starting, Done, UNCHANGED ready,
           g_running' => g_running, Head(todo).op # "on_ready",
           Head(todo).thread \in Receivers
    PROVE  ready \/ StartsEarly(plugin, Head(todo).thread)
<1>1. Proper(plugin)
  BY Scripts, PluginsAssumption DEF PluginInv, TypeOK
<1>2. Head(todo) # OnReady
  BY DEF OnReady, Step
<1>3. PICK s \in {plugin.init, plugin.connect} : \E i \in 1 .. Len(s) :
                 /\ s[i] = Head(todo)
                 /\ \A j \in 1 .. i - 1 : s[j] = OnReady => ready
                 /\ \/ call = "init" /\ s = plugin.init
                    \/ call = "connect" /\ s = plugin.connect /\ (Announces(plugin.init) => ready)
  BY <1>2, Begins
<1>4. PICK i \in 1 .. Len(s) :
                 /\ s[i] = Head(todo)
                 /\ \A j \in 1 .. i - 1 : s[j] = OnReady => ready
                 /\ \/ call = "init" /\ s = plugin.init
                    \/ call = "connect" /\ s = plugin.connect /\ (Announces(plugin.init) => ready)
  BY <1>3
<1>5. ready \/ Announces(s)
  <2>1. call = "init" /\ s = plugin.init => Announces(s)
    BY <1>1, <1>4 DEF Proper
  <2>2. call = "connect" /\ s = plugin.connect => ready \/ Announces(s)
    BY <1>1, <1>4 DEF Proper
  <2> QED
    BY <1>4, <2>1, <2>2
<1>6. ASSUME Announces(s) PROVE ready \/ StartsEarly(plugin, Head(todo).thread)
  <2>1. PICK j \in 1 .. Len(s) : s[j] = OnReady
    BY <1>6 DEF Announces, Within, OnReady
  <2>2. Len(s) \in Nat
    BY <1>1, <1>3 DEF Proper
  <2>3. j < i \/ i < j
    BY <1>2, <1>4, <2>1, <2>2
  <2>4. j < i => ready
    BY <1>4, <2>1, <2>2
  <2>5. i < j => StartsEarly(plugin, Head(todo).thread)
    BY <1>3, <1>4, <2>1 DEF StartsEarly
  <2> QED
    BY <2>3, <2>4, <2>5
<1> QED
  BY <1>5, <1>6

\* Whatever a callback starts is among the threads its script starts.
LEMMA Listed ==
    ASSUME NEW s \in {plugin.init, plugin.connect}, NEW i \in 1 .. Len(s),
           s[i] = Step(s[i].op, s[i].thread), s[i].op \in {"spawn", "start", "launch"},
           s[i].thread \in Threads
    PROVE  s[i].thread \in StartedBy(plugin)
  BY DEF StartedBy, Within

\* A step that is not the one waited for leaves it in todo.
LEMMA Waits ==
    ASSUME PluginInv, todo # <<>>, NEW op, NEW t, Within(todo, op, t), Done,
           Head(todo) # Step(op, t)
    PROVE  Within(todo, op, t)'
<1>1. \E S : todo \in Seq(S)
  <2>1. plugin.init \in Seq(Starting) /\ plugin.connect \in Seq(Starting)
    BY Scripts, PluginsAssumption DEF PluginInv, TypeOK, Proper
  <2>2. \A s \in Seq(Starting) : Passed(s) => todo \in Seq(Starting)
    <3> SUFFICES ASSUME NEW s \in Seq(Starting), Passed(s) PROVE todo \in Seq(Starting)
      OBVIOUS
    <3>1. PICK k \in 0 .. Len(s) : todo = SubSeq(s, k + 1, Len(s))
      BY DEF Passed
    <3> QED
      BY <3>1
  <2> QED
    BY <2>1, <2>2 DEF PluginInv, PlaceInv, TypeOK
<1>2. PICK S : todo \in Seq(S)
  BY <1>1
<1>3. Within(Tail(todo), op, t)
  BY <1>2, WithinTail
<1>4. todo' = Tail(todo)
  BY DEF Done
<1> QED
  BY <1>3, <1>4 DEF Within

\* A step of init or connect that touches no thread.
LEMMA SwitchStep ==
    ASSUME PluginInv, todo # <<>>, Head(todo) \in Starting, Done,
           UNCHANGED <<thread, m_running, open>>, UNCHANGED flow,
           initialized' \in BOOLEAN, g_running' \in BOOLEAN, ready' \in BOOLEAN,
           handled' \in BOOLEAN, UNCHANGED signalled,
           ready => ready', Head(todo) = OnReady => ready',
           g_running' => g_running \/ Head(todo) = Run
    PROVE  PluginInv'
<1>1. PlaceInv' /\ call \in {"init", "connect"}
  BY Begins
<1>2. plugin' = plugin /\ call' = call
  BY DEF Done
<1>3. TypeOK'
  BY <1>2 DEF PluginInv, TypeOK, flow
<1>4. WorkerWaitsForConnect'
  BY <1>2 DEF PluginInv, WorkerWaitsForConnect
<1>5. FlowInv'
  BY <1>2 DEF PluginInv, FlowInv, flow, Early, StartsEarly
<1>6. ThreadInv'
  <2>1. \A t \in Threads : thread'[t] # "none" => (t \in StartedBy(plugin))'
    BY <1>2 DEF PluginInv, ThreadInv, StartedBy, Within
  <2>2. \A r \in Receivers : thread'[r] # "none" => ready' \/ StartsEarly(plugin, r)'
    BY <1>2 DEF PluginInv, ThreadInv, StartsEarly
  <2>3. \A r \in Receivers : Within(todo, "join", r) => Within(todo, "join", r)'
    <3> TAKE r \in Receivers
    <3>1. Head(todo) # Step("join", r)
      BY Ops DEF Step
    <3> QED
      BY <3>1, Waits
  <2>4. \A r \in Receivers : thread'[r] \notin Over => m_running'[r] \/ Within(todo, "join", r)'
    BY <2>3 DEF PluginInv, ThreadInv
  <2> QED
    BY <1>1, <1>2, <2>1, <2>2, <2>4 DEF ThreadInv
<1> QED
  BY <1>1, <1>3, <1>4, <1>5, <1>6 DEF PluginInv

\* The signal handler, the flags, on_ready and g_running = true.
LEMMA FlagSteps ==
    ASSUME PluginInv, DoSignals \/ DoFlags \/ DoOnReady \/ DoRun
    PROVE  PluginInv'
<1>1. todo # <<>> /\ Head(todo).op \in {"signals", "flags", "on_ready", "run"} /\ Done
  BY DEF DoSignals, DoFlags, DoOnReady, DoRun, At
<1>2. Head(todo) \in Starting
  BY <1>1, Place, Ops
<1>3. initialized \in BOOLEAN /\ g_running \in BOOLEAN /\ ready \in BOOLEAN /\ handled \in BOOLEAN
  BY DEF PluginInv, TypeOK
<1>4. CASE DoFlags
  <2>1. Head(todo) # OnReady
    BY <1>4 DEF DoFlags, At, OnReady, Step
  <2> QED
    BY <1>1, <1>2, <1>3, <1>4, <2>1, SwitchStep DEF DoFlags, handler
<1>5. CASE DoOnReady
  BY <1>1, <1>2, <1>3, <1>5, SwitchStep DEF DoOnReady, handler
<1>6. CASE DoRun
  <2>1. Head(todo) = Run
    BY <1>2, <1>6, Ops DEF DoRun, At
  <2>2. Head(todo) # OnReady
    BY <2>1 DEF Run, OnReady, Step
  <2> QED
    BY <1>1, <1>2, <1>3, <1>6, <2>1, <2>2, SwitchStep DEF DoRun, handler
<1>7. CASE DoSignals
  <2>1. Head(todo) # OnReady
    BY <1>7 DEF DoSignals, At, OnReady, Step
  <2> QED
    BY <1>1, <1>2, <1>3, <1>7, <2>1, SwitchStep DEF DoSignals
<1> QED
  BY <1>4, <1>5, <1>6, <1>7

\* A step of init or connect that starts a thread.
LEMMA StartStep ==
    ASSUME PluginInv, todo # <<>>, Head(todo) \in Starting, Done,
           Head(todo).op \in {"spawn", "start", "launch"},
           thread' = [thread EXCEPT ![self] = "created"],
           \/ self \notin Receivers /\ UNCHANGED <<m_running, open>>
           \/ /\ self \in Receivers
              /\ m_running' = [m_running EXCEPT ![self] = TRUE]
              /\ open' = [open EXCEPT ![self] = TRUE],
           UNCHANGED <<initialized, g_running, ready, handler, flow>>
    PROVE  PluginInv'
<1>1. Head(todo) # OnReady /\ Head(todo).op # "on_ready"
  BY DEF OnReady, Step
<1>2. PlaceInv' /\ call \in {"init", "connect"}
  BY <1>1, Begins
<1>3. plugin' = plugin /\ call' = call /\ ready' = ready
  BY DEF Done
<1>4. self \in Threads
  BY Ops DEF self, Threads
<1>5. TypeOK'
  BY <1>3, <1>4 DEF PluginInv, TypeOK, flow, handler
<1>6. WorkerWaitsForConnect'
  BY <1>3, <1>4, "created" # "receiving" DEF PluginInv, WorkerWaitsForConnect, TypeOK
<1>7. FlowInv'
  BY <1>3 DEF PluginInv, FlowInv, flow, Early, StartsEarly
<1>8. self \in StartedBy(plugin)
  <2>1. PICK s \in {plugin.init, plugin.connect} : \E i \in 1 .. Len(s) : s[i] = Head(todo)
    BY <1>1, Begins
  <2>2. PICK i \in 1 .. Len(s) : s[i] = Head(todo)
    BY <2>1
  <2>3. s[i] = Step(s[i].op, s[i].thread)
    BY <2>2, Ops
  <2> QED
    BY <1>4, <2>1, <2>2, <2>3, Listed DEF self
<1>9. self \in Receivers => ready \/ StartsEarly(plugin, self)
  BY <1>1, Announced DEF self
<1>10. ThreadInv'
  <2>1. \A t \in Threads : thread'[t] # "none" => (t \in StartedBy(plugin))'
    BY <1>3, <1>8 DEF PluginInv, TypeOK, ThreadInv, StartedBy, Within
  <2>2. \A r \in Receivers : thread'[r] # "none" => ready' \/ StartsEarly(plugin, r)'
    <3> TAKE r \in Receivers
    <3>1. CASE r = self
      BY <1>3, <1>9, <3>1 DEF StartsEarly
    <3>2. CASE r # self
      BY <1>3, <3>2 DEF PluginInv, TypeOK, ThreadInv, StartsEarly, Threads
    <3> QED
      BY <3>1, <3>2
  <2>3. \A r \in Receivers : Within(todo, "join", r) => Within(todo, "join", r)'
    <3> TAKE r \in Receivers
    <3>1. Head(todo) # Step("join", r)
      BY Ops DEF Step
    <3> QED
      BY <3>1, Waits
  <2>4. \A r \in Receivers : thread'[r] \notin Over => m_running'[r] \/ Within(todo, "join", r)'
    <3> TAKE r \in Receivers
    <3>1. CASE r = self
      BY <3>1 DEF PluginInv, TypeOK
    <3>2. CASE r # self
      <4>1. thread'[r] = thread[r]
        BY <1>4, <3>2 DEF PluginInv, TypeOK, Threads
      <4>2. m_running'[r] = m_running[r]
        BY <3>2 DEF PluginInv, TypeOK
      <4> QED
        BY <2>3, <4>1, <4>2 DEF PluginInv, ThreadInv
    <3> QED
      BY <3>1, <3>2
  <2> QED
    BY <1>2, <1>3, <2>1, <2>2, <2>4 DEF ThreadInv
<1> QED
  BY <1>2, <1>5, <1>6, <1>7, <1>10 DEF PluginInv

\* new std::thread and a receiver's start, which may fail.
LEMMA StartSteps ==
    ASSUME PluginInv, DoSpawn \/ DoStart
    PROVE  PluginInv'
<1>1. todo # <<>> /\ Head(todo).op \in {"spawn", "start", "launch"} /\ Done
  BY DEF DoSpawn, DoStart, At
<1>2. Head(todo) \in Starting
  BY <1>1, Place, Ops
<1>3. initialized \in BOOLEAN /\ g_running \in BOOLEAN /\ ready \in BOOLEAN /\ handled \in BOOLEAN
  BY DEF PluginInv, TypeOK
<1>4. CASE DoSpawn
  <2>1. self \notin Receivers
    BY <1>2, <1>4, Ops DEF self, DoSpawn, At
  <2> QED
    BY <1>1, <1>2, <1>4, <2>1, StartStep DEF DoSpawn, switches
<1>5. CASE DoStart
  <2>1. self \in Receivers
    BY <1>2, <1>5, Ops DEF self, DoStart, At
  <2>2. Head(todo) # OnReady
    BY <1>1 DEF OnReady, Step
  <2>3. CASE UNCHANGED <<m_running, open, thread>>
    BY <1>1, <1>2, <1>3, <1>5, <2>2, <2>3, SwitchStep DEF DoStart, handler
  <2>4. CASE ~UNCHANGED <<m_running, open, thread>>
    BY <1>1, <1>2, <1>5, <2>1, <2>4, StartStep DEF DoStart
  <2> QED
    BY <2>3, <2>4
<1> QED
  BY <1>4, <1>5

\* A step of release: what it has to keep is who is still waited for.
LEMMA EndStep ==
    ASSUME PluginInv, call = "release", todo' \in Seq(Ending),
           UNCHANGED <<plugin, call, thread, initialized, ready, handler, flow>>,
           m_running' \in [Receivers -> BOOLEAN], open' \in [Receivers -> BOOLEAN],
           g_running' \in BOOLEAN,
           g_running' => g_running,
           \A r \in Receivers : thread[r] \notin Over => m_running'[r] \/ Within(todo, "join", r)',
           \A t \in JoinedBy(plugin) :
              thread[t] \in Over \/ Within(todo, "join", t)' \/ Within(todo, "stop", t)'
    PROVE  PluginInv'
<1>1. TypeOK'
  BY DEF PluginInv, TypeOK, flow, handler
<1>2. WorkerWaitsForConnect'
  BY DEF PluginInv, WorkerWaitsForConnect
<1>3. FlowInv'
  BY DEF PluginInv, FlowInv, flow, Early, StartsEarly
<1>4. PlaceInv'
  BY DEF PluginInv, PlaceInv, Announces, Within
<1>5. ThreadInv'
  <2>1. \A t \in Threads : thread'[t] # "none" => (t \in StartedBy(plugin))'
    BY DEF PluginInv, ThreadInv, StartedBy, Within
  <2>2. \A r \in Receivers : thread'[r] # "none" => ready' \/ StartsEarly(plugin, r)'
    BY DEF PluginInv, ThreadInv, StartsEarly
  <2>3. JoinedBy(plugin)' = JoinedBy(plugin)
    BY DEF JoinedBy, Within
  <2> QED
    BY <2>1, <2>2, <2>3 DEF ThreadInv
<1> QED
  BY <1>1, <1>2, <1>3, <1>4, <1>5 DEF PluginInv

\* g_running = false, stop, close and join: a thread joined has ended, and
\* stop puts the join of a receiver that runs into todo.
LEMMA EndSteps ==
    ASSUME PluginInv, DoHalt \/ DoStop \/ DoClose \/ DoJoin
    PROVE  PluginInv'
<1>1. todo # <<>> /\ Head(todo).op \in {"halt", "stop", "close", "join"}
  BY DEF DoHalt, DoStop, DoClose, DoJoin, At
<1>2. call = "release" /\ Head(todo) \in Ending /\ todo \in Seq(Ending)
  BY <1>1, Place, Ops DEF PluginInv, PlaceInv
<1>3. /\ m_running \in [Receivers -> BOOLEAN] /\ open \in [Receivers -> BOOLEAN]
      /\ g_running \in BOOLEAN
  BY DEF PluginInv, TypeOK
<1>4. Tail(todo) \in Seq(Ending) /\ Head(todo) = Step(Head(todo).op, self)
  BY <1>1, <1>2, Ops DEF self
<1>5. /\ \A r \in Receivers : thread[r] \notin Over => m_running[r] \/ Within(todo, "join", r)
      /\ \A t \in JoinedBy(plugin) :
            thread[t] \in Over \/ Within(todo, "join", t) \/ Within(todo, "stop", t)
  BY <1>2 DEF PluginInv, ThreadInv
<1>6. \A op, t : Within(todo, op, t) => Head(todo) = Step(op, t) \/ Within(Tail(todo), op, t)
  BY <1>1, <1>2, WithinTail
<1>7. \A t : todo' = Tail(todo) =>
        (Within(todo, "join", t)' <=> Within(Tail(todo), "join", t))
        /\ (Within(todo, "stop", t)' <=> Within(Tail(todo), "stop", t))
  BY DEF Within
<1>8. CASE DoHalt
  <2>1. \A op, t : op \in {"join", "stop"} => Head(todo) # Step(op, t)
    BY <1>8 DEF DoHalt, At, Step
  <2>2. todo' = Tail(todo) /\ UNCHANGED <<plugin, call, thread, m_running, open, initialized, ready, handler, flow>>
        /\ ~g_running' /\ g_running' \in BOOLEAN
    BY <1>8 DEF DoHalt, Done
  <2>3. \A r \in Receivers : thread[r] \notin Over => m_running'[r] \/ Within(todo, "join", r)'
    BY <1>5, <1>6, <1>7, <2>1, <2>2
  <2>4. \A t \in JoinedBy(plugin) :
              thread[t] \in Over \/ Within(todo, "join", t)' \/ Within(todo, "stop", t)'
    BY <1>5, <1>6, <1>7, <2>1, <2>2
  <2> QED
    BY <1>2, <1>3, <1>4, <2>2, <2>3, <2>4, EndStep
<1>9. CASE DoClose
  <2>1. \A op, t : op \in {"join", "stop"} => Head(todo) # Step(op, t)
    BY <1>9 DEF DoClose, At, Step
  <2>2. todo' = Tail(todo) /\ UNCHANGED <<plugin, call, thread, m_running, initialized, g_running, ready, handler,
                                          flow>>
        /\ open' \in [Receivers -> BOOLEAN]
    BY <1>3, <1>9 DEF DoClose, Done
  <2>3. \A r \in Receivers : thread[r] \notin Over => m_running'[r] \/ Within(todo, "join", r)'
    BY <1>5, <1>6, <1>7, <2>1, <2>2
  <2>4. \A t \in JoinedBy(plugin) :
              thread[t] \in Over \/ Within(todo, "join", t)' \/ Within(todo, "stop", t)'
    BY <1>5, <1>6, <1>7, <2>1, <2>2
  <2> QED
    BY <1>2, <1>3, <1>4, <2>2, <2>3, <2>4, EndStep
<1>10. CASE DoJoin
  <2>1. Head(todo) = Step("join", self) /\ thread[self] = "ended"
    BY <1>4, <1>10 DEF DoJoin, At
  <2>2. todo' = Tail(todo) /\ UNCHANGED <<plugin, call, thread, m_running, open, initialized, g_running, ready,
                                          handler, flow>>
    BY <1>10 DEF DoJoin, Done, switches
  <2>3. \A t : Head(todo) # Step("stop", t) /\ (Head(todo) = Step("join", t) => thread[t] \in Over)
    BY <2>1 DEF Step, Over
  <2>4. \A r \in Receivers : thread[r] \notin Over => m_running'[r] \/ Within(todo, "join", r)'
    BY <1>5, <1>6, <1>7, <2>2, <2>3
  <2>5. \A t \in JoinedBy(plugin) :
              thread[t] \in Over \/ Within(todo, "join", t)' \/ Within(todo, "stop", t)'
    BY <1>5, <1>6, <1>7, <2>2, <2>3
  <2> QED
    BY <1>2, <1>3, <1>4, <2>2, <2>4, <2>5, EndStep
<1>11. CASE DoStop
  <2> PICK w : w = self
    OBVIOUS
  <2>1. Head(todo) = Step("stop", w) /\ w \in Receivers
    BY <1>2, <1>4, <1>11, Ops DEF DoStop, At, self
  <2>2. /\ UNCHANGED <<plugin, call, thread, open, initialized, g_running, ready, handler, flow>>
        /\ m_running' = [m_running EXCEPT ![w] = FALSE] /\ m_running' \in [Receivers -> BOOLEAN]
    BY <1>3, <1>11 DEF DoStop
  <2>3. \A t : Head(todo) # Step("join", t) /\ (Head(todo) = Step("stop", t) => t = w)
    BY <2>1 DEF Step
  <2> DEFINE a == IF ~m_running[w] THEN <<>>
                  ELSE IF plugin.blocking THEN <<Close(w), Join(w)>> ELSE <<Join(w)>>
  <2>4. Close(w) \in Ending /\ Join(w) \in Ending
    BY <2>1 DEF Ending, Threads
  <2>5. a \in Seq(Ending)
    BY <2>4
  <2>6. todo' = a \o Tail(todo)
    BY <1>4, <1>11 DEF DoStop
  <2>7. m_running[w] => Within(a, "join", w)
    <3>1. CASE plugin.blocking
      <4>1. m_running[w] => Len(a) = 2 /\ a[2] = Join(w)
        BY <3>1
      <4> QED
        BY <4>1 DEF Within, Join
    <3>2. CASE ~plugin.blocking
      <4>1. m_running[w] => Len(a) = 1 /\ a[1] = Join(w)
        BY <3>2
      <4> QED
        BY <4>1 DEF Within, Join
    <3> QED
      BY <3>1, <3>2
  <2> HIDE DEF a
  <2>8. \A op, t : Within(a, op, t) \/ Within(Tail(todo), op, t) => Within(todo, op, t)'
    <3> SUFFICES ASSUME NEW op, NEW t, Within(a, op, t) \/ Within(Tail(todo), op, t)
                 PROVE  Within(todo, op, t)'
      OBVIOUS
    <3>1. Within(a \o Tail(todo), op, t)
      BY <1>4, <2>5, WithinAppended
    <3> QED
      BY <2>6, <3>1 DEF Within
  <2>9. thread[w] \in Over \/ Within(todo, "join", w)'
    BY <1>5, <1>6, <2>1, <2>3, <2>7, <2>8
  <2>10. \A r \in Receivers : thread[r] \notin Over => m_running'[r] \/ Within(todo, "join", r)'
    <3> TAKE r \in Receivers
    <3>1. CASE r = w
      BY <2>9, <3>1
    <3>2. CASE r # w
      <4>1. m_running'[r] = m_running[r]
        BY <1>3, <2>2, <3>2
      <4> QED
        BY <1>5, <1>6, <2>3, <2>8, <4>1
    <3> QED
      BY <3>1, <3>2
  <2>11. \A t \in JoinedBy(plugin) :
              thread[t] \in Over \/ Within(todo, "join", t)' \/ Within(todo, "stop", t)'
    BY <1>5, <1>6, <2>3, <2>8, <2>9
  <2>12. todo' \in Seq(Ending)
    BY <1>4, <2>5, <2>6
  <2> QED
    BY <1>2, <1>3, <2>2, <2>10, <2>11, <2>12, EndStep
<1> QED
  BY <1>8, <1>9, <1>10, <1>11

\* The proxy's step from one callback to the next.
LEMMA ProxySteps ==
    ASSUME PluginInv, Connect \/ Release \/ Released
    PROVE  PluginInv'
<1>1. /\ todo = <<>> /\ UNCHANGED <<plugin, thread, switches, flow>>
      /\ \/ call = "init" /\ call' = "connect" /\ todo' = plugin.connect
         \/ call = "connect" /\ call' = "release" /\ todo' = plugin.release
         \/ call = "release" /\ call' = "released" /\ todo' = <<>>
  BY DEF Connect, Release, Released
<1>2. Proper(plugin)
  BY Scripts, PluginsAssumption DEF PluginInv, TypeOK
<1>3. TypeOK'
  BY <1>1 DEF PluginInv, TypeOK, flow, switches, handler
<1>4. WorkerWaitsForConnect'
  BY <1>1 DEF PluginInv, WorkerWaitsForConnect, switches
<1>5. FlowInv'
  BY <1>1 DEF PluginInv, FlowInv, flow, switches, Early, StartsEarly
<1>6. ASSUME NEW s \in Seq(Starting), Passed(s), Announces(s) PROVE ready
  <2>1. PICK k \in 0 .. Len(s) : todo = SubSeq(s, k + 1, Len(s)) /\ \A j \in 1 .. k : s[j] = OnReady => ready
    BY <1>6 DEF Passed
  <2>2. k = Len(s)
    <3> DEFINE u == SubSeq(s, k + 1, Len(s))
    <3>1. Len(s) \in Nat /\ (k < Len(s) => Len(u) = Len(s) - k)
      OBVIOUS
    <3>2. u = <<>>
      BY <1>1, <2>1
    <3> HIDE DEF u
    <3>3. Len(u) = 0
      BY <3>2
    <3> QED
      BY <3>1, <3>3
  <2>3. PICK j \in 1 .. Len(s) : s[j] = OnReady
    BY <1>6 DEF Announces, Within, OnReady
  <2> QED
    BY <2>1, <2>2, <2>3
<1>7. Announces(plugin.init) => ready
  <2>1. CASE call = "init"
    <3>1. PICK s \in Seq(Starting) : s = plugin.init
      BY <1>2 DEF Proper
    <3> QED
      BY <1>6, <2>1, <3>1 DEF PluginInv, PlaceInv
  <2>2. CASE call # "init"
    BY <2>2 DEF PluginInv, PlaceInv
  <2> QED
    BY <2>1, <2>2
<1>8. PlaceInv'
  <2>1. (call # "init" /\ Announces(plugin.init) => ready)'
    BY <1>1, <1>7 DEF switches, Announces, Within
  <2>2. call' = "connect" => Passed(plugin.connect)'
    <3> SUFFICES ASSUME call' = "connect" PROVE Passed(plugin.connect)'
      OBVIOUS
    <3>1. PICK s \in Seq(Starting) : s = plugin.connect
      BY <1>2 DEF Proper
    <3>2. todo' = s /\ plugin'.connect = s
      BY <1>1, <3>1
    <3>3. s = SubSeq(s, 0 + 1, Len(s)) /\ 0 \in 0 .. Len(s)
      BY SeqEqual
    <3>4. \A j \in 1 .. 0 : s[j] = OnReady => ready'
      OBVIOUS
    <3> QED
      BY <3>2, <3>3, <3>4 DEF Passed
  <2>3. call' \in {"release", "released"} => todo' \in Seq(Ending)
    <3>1. plugin.release \in Seq(Ending) /\ <<>> \in Seq(Ending)
      BY <1>2 DEF Proper
    <3> QED
      BY <1>1, <3>1
  <2> QED
    BY <1>1, <2>1, <2>2, <2>3 DEF PlaceInv
<1>9. ThreadInv'
  <2>1. \A t \in Threads : thread'[t] # "none" => (t \in StartedBy(plugin))'
    BY <1>1 DEF PluginInv, ThreadInv, StartedBy, Within
  <2>2. \A r \in Receivers : thread'[r] # "none" => ready' \/ StartsEarly(plugin, r)'
    BY <1>1 DEF PluginInv, ThreadInv, StartsEarly, switches
  <2>3. \A op, t : ~Within(todo, op, t)
    BY <1>1 DEF Within
  <2>4. \A r \in Receivers : thread'[r] \notin Over => m_running'[r] \/ Within(todo, "join", r)'
    BY <1>1, <2>3 DEF PluginInv, ThreadInv, switches
  <2>5. JoinedBy(plugin)' = JoinedBy(plugin)
    BY <1>1 DEF JoinedBy, Within
  <2>6. call' \in {"release", "released"} =>
          \A t \in JoinedBy(plugin) :
              thread'[t] \in Over \/ Within(todo, "join", t)' \/ Within(todo, "stop", t)'
    <3>1. CASE call = "connect"
      BY <1>1, <3>1 DEF JoinedBy, Within
    <3>2. CASE call = "release"
      BY <1>1, <2>3, <3>2 DEF PluginInv, ThreadInv
    <3> QED
      BY <1>1, <3>1, <3>2
  <2> QED
    BY <2>1, <2>2, <2>4, <2>5, <2>6 DEF ThreadInv
<1> QED
  BY <1>3, <1>4, <1>5, <1>8, <1>9 DEF PluginInv

---------------------------------------------------------------------------
(* The threads.                                                            *)

\* One packet more is one quote more, in the ring or published.
LEMMA QuoteFlow ==
    ASSUME PluginInv, UNCHANGED <<plugin, ready>>,
           UNCHANGED flow \/ (Quote /\ (ready \/ Early))
    PROVE  /\ FlowInv'
           /\ ring' \in 0 .. MaxQuotes /\ received' \in 0 .. MaxQuotes /\ published' \in 0 .. MaxQuotes
<1>1. Early' = Early
  BY DEF Early, StartsEarly
<1>2. /\ ring \in 0 .. MaxQuotes /\ received \in 0 .. MaxQuotes /\ published \in 0 .. MaxQuotes
      /\ published + ring = received /\ (received > 0 => ready \/ Early)
  BY DEF PluginInv, TypeOK, FlowInv
<1>3. CASE UNCHANGED flow
  BY <1>1, <1>2, <1>3 DEF flow, FlowInv
<1>4. CASE Quote /\ (ready \/ Early)
  BY <1>1, <1>2, <1>4, QuotesAssumption DEF Quote, FlowInv
<1> QED
  BY <1>3, <1>4

\* A thread that runs goes from label to label.
LEMMA Runs ==
    ASSUME PluginInv, UNCHANGED <<core, switches>>,
           NEW t \in Threads, NEW l \in {"testing", "receiving", "blocked", "ended"},
           thread[t] \notin Over, Goto(t, l),
           t = "worker" /\ l = "receiving" => g_running,
           UNCHANGED flow \/ Quote,
           t = "worker" /\ thread[t] # "receiving" => UNCHANGED flow,
           t \notin {"worker"} \cup Receivers => UNCHANGED flow
    PROVE  PluginInv'
<1>1. /\ UNCHANGED <<plugin, call, todo, m_running, open, initialized, g_running, ready, handled, signalled>>
      /\ thread' = [thread EXCEPT ![t] = l]
  BY DEF core, switches, handler, Goto
<1>2. thread'[t] = l /\ \A u \in Threads : u # t => thread'[u] = thread[u]
  BY <1>1 DEF PluginInv, TypeOK
<1>3. ready \/ Early \/ UNCHANGED flow
  <2>1. CASE t = "worker" /\ thread[t] = "receiving"
    BY <2>1 DEF PluginInv, WorkerWaitsForConnect
  <2>2. CASE t \in Receivers
    BY <2>2 DEF PluginInv, ThreadInv, Early, Over
  <2> QED
    BY <2>1, <2>2
<1>4. /\ FlowInv'
      /\ ring' \in 0 .. MaxQuotes /\ received' \in 0 .. MaxQuotes /\ published' \in 0 .. MaxQuotes
  BY <1>1, <1>3, QuoteFlow
<1>5. TypeOK'
  BY <1>1, <1>4 DEF PluginInv, TypeOK
<1>6. WorkerWaitsForConnect'
  <2>1. CASE t = "worker" /\ l = "receiving"
    <3>1. Proper(plugin)
      BY Scripts, PluginsAssumption DEF PluginInv, TypeOK
    <3>2. "worker" \in StartedBy(plugin)
      BY <2>1 DEF PluginInv, ThreadInv, Over
    <3>3. g_running /\ call # "init"
      BY <2>1 DEF PluginInv, PlaceInv
    <3> QED
      BY <1>1, <3>1, <3>2, <3>3 DEF PluginInv, PlaceInv, Proper, WorkerWaitsForConnect
  <2>2. CASE t # "worker" \/ l # "receiving"
    <3>1. thread'["worker"] = "receiving" => thread["worker"] = "receiving"
      BY <1>2, <2>2 DEF Threads
    <3> QED
      BY <1>1, <3>1 DEF PluginInv, WorkerWaitsForConnect
  <2> QED
    BY <2>1, <2>2
<1>7. PlaceInv'
  BY <1>1 DEF PluginInv, PlaceInv, Passed, Announces, Within
<1>8. ThreadInv'
  <2>1. \A u \in Threads : (thread[u] \in Over => thread'[u] = thread[u]) /\ (thread'[u] # "none" => thread[u] # "none")
    BY <1>2 DEF Over
  <2>2. \A op, u : Within(todo, op, u)' = Within(todo, op, u)
    BY <1>1 DEF Within
  <2>3. StartedBy(plugin)' = StartedBy(plugin) /\ JoinedBy(plugin)' = JoinedBy(plugin)
    BY <1>1 DEF StartedBy, JoinedBy, Within
  <2>4. \A r \in Receivers : StartsEarly(plugin, r)' = StartsEarly(plugin, r)
    BY <1>1 DEF StartsEarly
  <2>5. \A r \in Receivers : r \in Threads
    BY DEF Threads
  <2>6. \A u \in JoinedBy(plugin) : u \in Threads
    BY DEF JoinedBy
  <2> QED
    BY <1>1, <2>1, <2>2, <2>3, <2>4, <2>5, <2>6 DEF PluginInv, ThreadInv
<1> QED
  BY <1>4, <1>5, <1>6, <1>7, <1>8 DEF PluginInv

\* Every step of worker, stats thread, dispatcher and receivers.
LEMMA ThreadSteps ==
    ASSUME PluginInv, Worker \/ Stats \/ Dispatch \/ \E r \in Receivers : Receiver(r) \/ ReceiverWake(r)
    PROVE  PluginInv'
<1> USE DEF Over
<1>1. "worker" \in Threads \ Receivers /\ "stats" \in Threads \ Receivers /\ Receivers \subseteq Threads
  BY DEF Threads, Receivers
<1>2. CASE WorkerEnter
  <2>1. PICK l \in {"testing", "ended"} : Goto("worker", l)
    BY <1>2 DEF WorkerEnter
  <2> QED
    BY <1>1, <1>2, <2>1, Runs DEF WorkerEnter
<1>3. CASE WorkerTest
  <2>1. PICK l \in {"receiving", "ended"} : Goto("worker", l) /\ (l = "receiving" => g_running)
    BY <1>3 DEF WorkerTest
  <2> QED
    BY <1>1, <1>3, <2>1, Runs DEF WorkerTest
<1>4. CASE WorkerReceive
  BY <1>1, <1>4, Runs DEF WorkerReceive
<1>5. CASE StatsEnter
  <2>1. PICK l \in {"testing", "ended"} : Goto("stats", l)
    BY <1>5 DEF StatsEnter
  <2> QED
    BY <1>1, <1>5, <2>1, Runs DEF StatsEnter
<1>6. CASE StatsTest
  <2>1. PICK l \in {"testing", "ended"} : Goto("stats", l)
    BY <1>6 DEF StatsTest
  <2> QED
    BY <1>1, <1>6, <2>1, Runs DEF StatsTest
<1>7. CASE Dispatch
  <2>1. /\ UNCHANGED <<plugin, call, todo, m_running, open, initialized, g_running, ready, handled,
                       signalled, thread, received>>
        /\ ring > 0 /\ ring' = ring - 1 /\ published' = published + 1
    BY <1>7 DEF Dispatch, core, switches, handler
  <2>2. TypeOK' /\ FlowInv'
    <3>1. Early' = Early
      BY <2>1 DEF Early, StartsEarly
    <3>2. /\ ring' \in 0 .. MaxQuotes /\ published' \in 0 .. MaxQuotes
          /\ published' + ring' = received'
      BY <2>1, QuotesAssumption DEF PluginInv, TypeOK, FlowInv
    <3> QED
      BY <2>1, <3>1, <3>2 DEF PluginInv, TypeOK, FlowInv
  <2>3. WorkerWaitsForConnect' /\ PlaceInv'
    BY <2>1 DEF PluginInv, WorkerWaitsForConnect, PlaceInv, Passed, Announces, Within
  <2>4. ThreadInv'
    BY <2>1 DEF PluginInv, ThreadInv, StartedBy, JoinedBy, StartsEarly, Within
  <2> QED
    BY <2>2, <2>3, <2>4 DEF PluginInv
<1>8. ASSUME NEW r \in Receivers, Receiver(r) \/ ReceiverWake(r) PROVE PluginInv'
  <2>1. r \in Threads /\ r # "worker"
    BY <1>1
  <2>2. CASE ReceiverTest(r)
    <3>1. PICK l \in {"receiving", "ended"} : Goto(r, l)
      BY <2>2 DEF ReceiverTest
    <3> QED
      BY <2>1, <2>2, <3>1, Runs DEF ReceiverTest
  <2>3. CASE ReceiverPoll(r)
    BY <2>1, <2>3, Runs DEF ReceiverPoll
  <2>4. CASE ReceiverBlock(r)
    BY <2>1, <2>4, Runs DEF ReceiverBlock
  <2>5. CASE ReceiverWake(r)
    BY <2>1, <2>5, Runs DEF ReceiverWake
  <2> QED
    BY <1>8, <2>2, <2>3, <2>4, <2>5 DEF Receiver
<1> QED
  BY <1>2, <1>3, <1>4, <1>5, <1>6, <1>7, <1>8 DEF Worker, Stats

\* A signal clears g_running, on which no more than a worker's next test depends.
LEMMA SignalStep ==
    ASSUME PluginInv, OnExit
    PROVE  PluginInv'
<1>1. /\ UNCHANGED <<plugin, call, todo, thread, m_running, open, initialized, ready, handled>>
      /\ UNCHANGED <<ring, received, published>> /\ ~g_running' /\ signalled' /\ g_running' \in BOOLEAN
      /\ signalled' \in BOOLEAN
  BY DEF OnExit, core, flow
<1>2. TypeOK' /\ WorkerWaitsForConnect'
  BY <1>1 DEF PluginInv, TypeOK, WorkerWaitsForConnect
<1>3. FlowInv'
  BY <1>1 DEF PluginInv, FlowInv, Early, StartsEarly
<1>4. PlaceInv'
  BY <1>1 DEF PluginInv, PlaceInv, Passed, Announces, Within
<1>5. ThreadInv'
  <2>1. \A t : /\ Within(todo, "join", t)' = Within(todo, "join", t)
               /\ Within(todo, "stop", t)' = Within(todo, "stop", t)
    BY <1>1 DEF Within
  <2>2. StartedBy(plugin)' = StartedBy(plugin) /\ JoinedBy(plugin)' = JoinedBy(plugin)
    BY <1>1 DEF StartedBy, JoinedBy, Within
  <2> QED
    BY <1>1, <2>1, <2>2 DEF PluginInv, ThreadInv, StartsEarly
<1> QED
  BY <1>2, <1>3, <1>4, <1>5 DEF PluginInv

---------------------------------------------------------------------------
(* The theorems about the plugins.                                         *)

\* Before init nothing runs.
LEMMA PluginStart == Init => PluginInv
<1> SUFFICES ASSUME Init PROVE PluginInv
  OBVIOUS
<1>1. Proper(plugin)
  BY Scripts, PluginsAssumption DEF Init
<1>2. TypeOK
  <2>1. ring \in 0 .. MaxQuotes /\ received \in 0 .. MaxQuotes /\ published \in 0 .. MaxQuotes
    BY QuotesAssumption DEF Init
  <2>2. /\ m_running \in [Receivers -> BOOLEAN] /\ open \in [Receivers -> BOOLEAN]
        /\ thread \in [Threads -> {"none", "created", "testing", "receiving", "blocked", "ended"}]
    BY DEF Init
  <2> QED
    BY <2>1, <2>2 DEF Init, TypeOK
<1>3. \A t \in Threads : thread[t] = "none"
  BY DEF Init
<1>4. WorkerWaitsForConnect /\ FlowInv
  BY <1>3 DEF Init, WorkerWaitsForConnect, FlowInv, Threads
<1>5. PlaceInv
  <2>1. PICK s \in Seq(Starting) : s = plugin.init
    BY <1>1 DEF Proper
  <2>2. s = SubSeq(s, 0 + 1, Len(s)) /\ 0 \in 0 .. Len(s)
    BY SeqEqual
  <2>3. \A j \in 1 .. 0 : s[j] = OnReady => ready
    OBVIOUS
  <2>4. Passed(plugin.init)
    BY <2>1, <2>2, <2>3 DEF Passed, Init
  <2> QED
    BY <2>4 DEF PlaceInv, Init
<1>6. ThreadInv
  BY <1>3 DEF ThreadInv, Over, Init, Threads
<1> QED
  BY <1>2, <1>4, <1>5, <1>6 DEF PluginInv

\* No step of the core thread or of any other leaves the invariant.
LEMMA PluginStep == PluginInv /\ [Next]_vars => PluginInv'
<1> SUFFICES ASSUME PluginInv, [Next]_vars PROVE PluginInv'
  OBVIOUS
<1>1. CASE UNCHANGED vars
  <2> USE <1>1 DEF vars
  <2>1. TypeOK' /\ WorkerWaitsForConnect'
    BY DEF PluginInv, TypeOK, WorkerWaitsForConnect
  <2>2. FlowInv'
    BY DEF PluginInv, FlowInv, Early, StartsEarly
  <2>3. PlaceInv'
    BY DEF PluginInv, PlaceInv, Passed, Announces, Within
  <2>4. \A t : /\ Within(todo, "join", t)' = Within(todo, "join", t)
               /\ Within(todo, "stop", t)' = Within(todo, "stop", t)
    BY DEF Within
  <2>5. StartedBy(plugin)' = StartedBy(plugin) /\ JoinedBy(plugin)' = JoinedBy(plugin)
    BY DEF StartedBy, JoinedBy, Within
  <2>6. ThreadInv'
    BY <2>4, <2>5 DEF PluginInv, ThreadInv, StartsEarly
  <2> QED
    BY <2>1, <2>2, <2>3, <2>6 DEF PluginInv
<1>2. CASE Callbacks
  BY <1>2, FlagSteps, StartSteps, EndSteps DEF Callbacks
<1> QED
  BY <1>1, <1>2, ProxySteps, ThreadSteps, SignalStep DEF Next, Idle

(* Every thread of a plugin and its callbacks are where the script has     *)
(* them, whatever failed to start.                                         *)
THEOREM Scripted == Spec => []PluginInv
  BY PluginStart, PluginStep, PTL DEF Spec

(* on_msg never comes before on_ready, but in a plugin that starts its     *)
(* receiver first, and no worker receives before connect.                  *)
THEOREM PluginsStartInOrder == Spec => []StartInv
<1>1. PluginInv => StartInv
  BY DEF PluginInv, FlowInv, TypeOK, StartInv, MsgAfterReady, Early
<1> QED
  BY <1>1, Scripted, PTL

\* A release that waited for every thread leaves none that runs.
LEMMA NoneLeft ==
    ASSUME PluginInv, call = "released", StartedBy(plugin) \subseteq JoinedBy(plugin)
    PROVE  \A t \in Threads : thread[t] \in Over
<1>1. \A op, t : ~Within(todo, op, t)
  BY DEF PluginInv, PlaceInv, Within
<1> QED
  BY <1>1 DEF PluginInv, ThreadInv, Over

(* After the release of a plugin that waits for every thread it starts     *)
(* there is no further on_msg: neither from a receiver that was already    *)
(* being stopped nor from one whose start had failed.                      *)
THEOREM PluginsFallSilent == Spec => SilentAfterRelease
<1>1. PluginInv /\ [Next]_vars =>
        [call = "released" /\ StartedBy(plugin) \subseteq JoinedBy(plugin) => published' = published]_vars
  <2> SUFFICES ASSUME PluginInv, Next, call = "released", StartedBy(plugin) \subseteq JoinedBy(plugin)
               PROVE  published' = published
    BY DEF vars
  <2>1. \A t \in Threads : thread[t] \in Over
    BY NoneLeft
  <2>2. "worker" \in Threads /\ "dispatcher" \in Threads /\ Receivers \subseteq Threads
    BY DEF Threads
  <2>3. ~WorkerReceive /\ ~Dispatch /\ \A r \in Receivers : ~Receiver(r) /\ ~ReceiverWake(r)
    BY <2>1, <2>2 DEF Over, WorkerReceive, Dispatch, Receiver, ReceiverTest, ReceiverPoll, ReceiverBlock,
                      ReceiverWake
  <2> QED
    BY <2>3 DEF Next, Idle, vars, Connect, Release, Released, Callbacks, OnExit, DoSignals, DoSpawn,
                DoFlags, DoOnReady, DoRun, DoHalt, DoStart, DoStop, DoClose, DoJoin, Worker, WorkerEnter, WorkerTest,
                Stats, StatsEnter, StatsTest, flow
<1> QED
  BY <1>1, Scripted, PTL DEF Spec, SilentAfterRelease

---------------------------------------------------------------------------
(* The plugins on the NanoMd library.                                      *)

CONSTANTS Variants, RingSize
VARIABLES dispatched, proxy, worker, dispatcher, m_fb_initialized, failed

Nano == INSTANCE NanoLifecycle

\* The assumptions of NanoLifecycle on its constants.
NanoConstants == Variants \subseteq BOOLEAN /\ RingSize \in Nat \ {0} /\ MaxQuotes \in Nat

\* Nothing runs before init.
LEMMA LifecycleInit ==
    ASSUME NanoConstants, Nano!Init
    PROVE  Nano!LifecycleInv
<1>1. ring \in 0 .. RingSize /\ received \in 0 .. MaxQuotes /\ published \in 0 .. MaxQuotes
  BY DEF NanoConstants, Nano!Init
<1>2. published + ring = received /\ ~(received > 0)
  BY DEF Nano!Init
<1>3. /\ dispatched \in BOOLEAN /\ g_running \in BOOLEAN /\ m_fb_initialized \in BOOLEAN
      /\ ready \in BOOLEAN /\ failed \in BOOLEAN
  BY DEF NanoConstants, Nano!Init
<1>4. /\ proxy = "registered" /\ worker = "none" /\ dispatcher = "none" /\ ~g_running /\ ring = 0
  BY DEF Nano!Init
<1> QED
  BY <1>1, <1>2, <1>3, <1>4 DEF Nano!LifecycleInv, Nano!TypeOK, Nano!NothingBeforeConnect

\* The callbacks: connect is the only step that sets g_running.
LEMMA CallbackStep ==
    ASSUME NanoConstants, Nano!LifecycleInv, Nano!Callbacks \/ Nano!Release
    PROVE  Nano!LifecycleInv' /\ (proxy = "released" => published' = published)
<1> USE DEF NanoConstants, Nano!LifecycleInv, Nano!TypeOK, Nano!NothingBeforeConnect
<1>1. CASE Nano!InitSpawn
  <2>1. worker # "receiving" /\ received = 0
    BY <1>1 DEF Nano!InitSpawn
  <2> QED
    BY <1>1, <2>1 DEF Nano!InitSpawn
<1>2. CASE Nano!InitReady
  BY <1>2 DEF Nano!InitReady
<1>3. CASE Nano!InitDone
  BY <1>3 DEF Nano!InitDone
<1>4. CASE Nano!Connect
  BY <1>4 DEF Nano!Connect
<1>5. CASE Nano!Release
  BY <1>5 DEF Nano!Release
<1>6. CASE Nano!JoinWorker
  BY <1>6 DEF Nano!JoinWorker
<1> QED
  BY <1>1, <1>2, <1>3, <1>4, <1>5, <1>6 DEF Nano!Callbacks

\* The worker: it receives only after it saw g_running set.
LEMMA RoutineStep ==
    ASSUME NanoConstants, Nano!LifecycleInv, Nano!Routine
    PROVE  Nano!LifecycleInv' /\ (proxy = "released" => published' = published)
<1> USE DEF NanoConstants, Nano!LifecycleInv, Nano!TypeOK, Nano!NothingBeforeConnect, Nano!Goto
<1>1. CASE Nano!CreateReceiver
  BY <1>1 DEF Nano!CreateReceiver
<1>2. CASE Nano!NanoStart
  BY <1>2 DEF Nano!NanoStart
<1>3. CASE Nano!TestInitialized
  BY <1>3 DEF Nano!TestInitialized
<1>4. CASE Nano!TestRunning
  BY <1>4 DEF Nano!TestRunning
<1>5. CASE Nano!NanoRecvNothing
  BY <1>5 DEF Nano!NanoRecvNothing
<1>6. CASE Nano!NanoRecvPush
  BY <1>6 DEF Nano!NanoRecvPush
<1>7. CASE Nano!NanoRecvCallback
  BY <1>7 DEF Nano!NanoRecvCallback
<1>8. CASE Nano!NanoRecvError
  BY <1>8 DEF Nano!NanoRecvError
<1>9. CASE Nano!DestroyApi
  BY <1>9 DEF Nano!DestroyApi
<1>10. CASE Nano!LeaveRoutine
  BY <1>10 DEF Nano!LeaveRoutine
<1> QED
  BY <1>1, <1>2, <1>3, <1>4, <1>5, <1>6, <1>7, <1>8, <1>9, <1>10 DEF Nano!Routine

\* No step of proxy, worker or dispatcher leaves the invariant.
LEMMA LifecycleStep ==
    ASSUME NanoConstants, Nano!LifecycleInv, [Nano!Next]_(Nano!vars)
    PROVE  Nano!LifecycleInv' /\ (proxy = "released" => published' = published)
<1>1. CASE Nano!Dispatch
  BY <1>1 DEF NanoConstants, Nano!Dispatch, Nano!LifecycleInv, Nano!TypeOK, Nano!NothingBeforeConnect
<1>2. CASE UNCHANGED Nano!vars
  BY <1>2 DEF Nano!vars, Nano!LifecycleInv, Nano!TypeOK, Nano!NothingBeforeConnect
<1> QED
  BY <1>1, <1>2, CallbackStep, RoutineStep DEF Nano!Next, Nano!Idle

\* Who runs, and who has been told what, fit together throughout.
THEOREM LifecycleInvariant ==
    ASSUME NanoConstants
    PROVE  Nano!Spec => []Nano!LifecycleInv
<1>1. Nano!LifecycleInv /\ [Nano!Next]_(Nano!vars) => Nano!LifecycleInv'
  BY LifecycleStep
<1> QED
  <2>1. Nano!Init => Nano!LifecycleInv
    BY LifecycleInit
  <2> QED
    BY <1>1, <2>1, PTL DEF Nano!Spec

(* Whenever the worker reaches its receive loop and whatever the library   *)
(* does, no quote is received or handed on before on_ready and connect.    *)
THEOREM QuietUntilConnect ==
    ASSUME NanoConstants
    PROVE  Nano!Spec => []Nano!NothingBeforeConnect
<1>1. Nano!LifecycleInv => Nano!NothingBeforeConnect
  BY DEF Nano!LifecycleInv
<1> QED
  BY <1>1, LifecycleInvariant, PTL

(* After a release that returned there is no further call back.            *)
THEOREM QuietAfterRelease ==
    ASSUME NanoConstants
    PROVE  Nano!Spec => Nano!SilentAfterRelease
<1>1. Nano!LifecycleInv /\ [Nano!Next]_(Nano!vars) => [proxy = "released" => published' = published]_(Nano!vars)
  BY LifecycleStep
<1> QED
  BY <1>1, LifecycleInvariant, PTL DEF Nano!Spec, Nano!SilentAfterRelease

(* With a dispatcher, release never returns: the invariant leaves the      *)
(* worker no way to end, and release waits for it.                         *)
THEOREM DispatchedNeverReleased ==
    ASSUME NanoConstants
    PROVE  Nano!Spec => [](dispatched => proxy # "released")
<1>1. Nano!LifecycleInv => (dispatched => proxy # "released")
  BY DEF Nano!LifecycleInv
<1> QED
  BY <1>1, LifecycleInvariant, PTL
---------------------------------------------------------------------------
(* The session of febao_zt_cffex.                                          *)

\* Steps of init before the subscription, and the ones after on_ready.
BeforeSubscription == {"start", "created", "connecting", "logging_in", "giving_up", "failed",
                       "querying", "awaiting_instruments", "subscribing"}
SinceReady == {"inited", "releasing", "crashed", "deleting", "released"}

\* The objects follow the core thread.
SessionObjects ==
    /\ pc = "start" => m_NsqApi = "none"
    /\ m_NsqApi = "alive" => m_NsqSpi = "alive"
    /\ pc \in {"failed", "deleting", "released"} => m_NsqApi # "alive"

\* on_ready and the first quote come after the request to subscribe.
SessionOrder ==
    /\ announced => pc \in SinceReady
    /\ pc \in BeforeSubscription => subscription = "no" /\ delivered = 0

\* As long as no connection is lost the flags say what the service says.
SessionFlags ==
    /\ login # "no" => link
    /\ m_isLogined /\ drops = 0 => login = "yes"
    /\ pc \in {"querying", "awaiting_instruments", "subscribing", "subscribed"} \cup SinceReady
          => m_isLogined
    /\ pc \in {"subscribed"} \cup SinceReady /\ drops = 0 /\ ~refused => subscription # "no"

\* What holds of the session throughout.
SessionInv == SessionTypeOK /\ SessionObjects /\ SessionOrder /\ SessionFlags

(* The program starts in the invariant.                                    *)
LEMMA SessionStart ==
    ASSUME SessionInit
    PROVE  SessionInv
<1>1. delivered \in 0 .. MaxDelivered /\ drops \in 0 .. MaxDrops
  BY BoundsAssumption DEF SessionInit
<1>2. SessionTypeOK
  BY <1>1, Zenon DEF SessionInit, SessionTypeOK, Objects
<1>3. SessionObjects /\ SessionOrder /\ SessionFlags
  BY DEF SessionInit, SessionObjects, SessionOrder, SessionFlags, BeforeSubscription, SinceReady
<1> QED
  BY <1>2, <1>3 DEF SessionInv

(* The core thread's steps of init keep it.                                *)
LEMMA SessionInitSteps ==
    ASSUME SessionInv, InitSteps
    PROVE  SessionInv'
<1> USE DEF SessionInv, SessionTypeOK, Objects, SessionObjects, SessionOrder, SessionFlags,
            BeforeSubscription, SinceReady, coreThread, flags, service, Go
<1>1. CASE Create
  <2>1. SessionTypeOK'
    BY <1>1, Zenon DEF Create
  <2>2. SessionObjects'
    <3>1. CASE Go("start", "created") /\ m_NsqApi' = "alive" /\ m_NsqSpi' = "alive"
      BY <3>1
    <3>2. CASE Go("start", "failed") /\ UNCHANGED <<m_NsqApi, m_NsqSpi>>
      BY <3>2
    <3> QED
      BY <1>1, <3>1, <3>2 DEF Create
  <2>3. SessionOrder'
    BY <1>1, Zenon DEF Create
  <2>4. SessionFlags'
    BY <1>1 DEF Create
  <2> QED
    BY <2>1, <2>2, <2>3, <2>4
<1>2. CASE ApiInit
  BY <1>2 DEF ApiInit
<1>3. CASE AwaitConnection
  BY <1>3 DEF AwaitConnection
<1>4. CASE AwaitLogin
  BY <1>4 DEF AwaitLogin
<1>5. CASE GiveUp
  BY <1>5 DEF GiveUp
<1>6. CASE ReqAllFutInstruments
  BY <1>6 DEF ReqAllFutInstruments
<1>7. CASE AwaitInstruments
  BY <1>7 DEF AwaitInstruments
<1>8. CASE FutSubscribe
  BY <1>8 DEF FutSubscribe
<1>9. CASE CallOnReady
  BY <1>9 DEF CallOnReady
<1> QED
  BY <1>1, <1>2, <1>3, <1>4, <1>5, <1>6, <1>7, <1>8, <1>9 DEF InitSteps

(* So do those of release, which frees the api object before the spi object. *)
LEMMA SessionReleaseSteps ==
    ASSUME SessionInv, ReleaseSteps
    PROVE  SessionInv'
<1> USE DEF SessionInv, SessionTypeOK, Objects, SessionObjects, SessionOrder, SessionFlags,
            BeforeSubscription, SinceReady, coreThread, flags, service, Go
<1>1. CASE BeginRelease
  BY <1>1 DEF BeginRelease
<1>2. CASE ReleaseApi
  BY <1>2 DEF ReleaseApi
<1>3. CASE DeleteSpi
  BY <1>3 DEF DeleteSpi
<1> QED
  BY <1>1, <1>2, <1>3 DEF ReleaseSteps

(* So do the callbacks, whenever they come.                                *)
LEMMA SessionCallbacks ==
    ASSUME SessionInv,
           \/ OnFrontConnected \/ OnFrontDisconnected
           \/ Answers \/ OnRtnFutuDepthMarketData
    PROVE  SessionInv'
<1> USE BoundsAssumption
<1> USE DEF SessionInv, SessionTypeOK, Objects, SessionObjects, SessionOrder, SessionFlags,
            BeforeSubscription, SinceReady, coreThread, flags, service, Live
<1>1. CASE OnFrontConnected
  BY <1>1 DEF OnFrontConnected
<1>2. CASE OnFrontDisconnected
  <2>1. SessionTypeOK'
    <3>1. drops' \in 0 .. MaxDrops /\ delivered' \in 0 .. MaxDelivered
      BY <1>2 DEF OnFrontDisconnected
    <3>2. subscription' \in {"no", "asked", "yes"}
      BY <1>2, Zenon DEF OnFrontDisconnected
    <3> QED
      BY <1>2, <3>1, <3>2, Zenon DEF OnFrontDisconnected
  <2>2. SessionObjects' /\ SessionOrder'
    BY <1>2 DEF OnFrontDisconnected
  <2>3. SessionFlags'
    BY <1>2 DEF OnFrontDisconnected
  <2> QED
    BY <2>1, <2>2, <2>3
<1>3. CASE OnRspUserLogin
  <2>1. SessionTypeOK'
    BY <1>3 DEF OnRspUserLogin
  <2>2. SessionObjects' /\ SessionOrder'
    BY <1>3 DEF OnRspUserLogin
  <2>3. SessionFlags'
    BY <1>3 DEF OnRspUserLogin
  <2> QED
    BY <2>1, <2>2, <2>3
<1>4. CASE OnRspQryFutuInstruments
  BY <1>4 DEF OnRspQryFutuInstruments
<1>5. CASE OnRspFutuDepthMarketDataSubscribe
  <2>1. SessionTypeOK'
    BY <1>5 DEF OnRspFutuDepthMarketDataSubscribe
  <2>2. SessionObjects' /\ SessionOrder'
    BY <1>5 DEF OnRspFutuDepthMarketDataSubscribe
  <2>3. SessionFlags'
    BY <1>5 DEF OnRspFutuDepthMarketDataSubscribe
  <2> QED
    BY <2>1, <2>2, <2>3
<1>6. CASE OnRtnFutuDepthMarketData
  BY <1>6 DEF OnRtnFutuDepthMarketData
<1> QED
  BY <1>1, <1>2, <1>3, <1>4, <1>5, <1>6 DEF Answers

(* A stuttering step changes nothing.                                      *)
LEMMA SessionStutter ==
    ASSUME SessionInv, UNCHANGED session
    PROVE  SessionInv'
  BY DEF SessionInv, SessionTypeOK, Objects, SessionObjects, SessionOrder, SessionFlags,
         BeforeSubscription, SinceReady, session, coreThread, flags, service

(* The invariant holds throughout.                                         *)
THEOREM SessionInvariance == SessionSpec => []SessionInv
<1>1. SessionInv /\ [SessionNext]_session => SessionInv'
  BY SessionInitSteps, SessionReleaseSteps, SessionCallbacks, SessionStutter
     DEF SessionNext, SessionIdle
<1>2. SessionInit => SessionInv
  BY SessionStart
<1> QED
  BY <1>1, <1>2, PTL DEF SessionSpec

(* Type correctness: every variable keeps its type, and past NewNsqApiExt   *)
(* there is an api object.                                                 *)
THEOREM SessionTypeCorrect == SessionSpec => []SessionTypeOK
<1>1. SessionInv => SessionTypeOK
  BY DEF SessionInv
<1> QED
  BY SessionInvariance, <1>1, PTL

(* The spi object outlives the api object that calls it, in init and in     *)
(* release, wherever the callbacks fall.                                   *)
THEOREM SpiOutlives == SessionSpec => []SpiOutlivesApi
<1>1. SessionInv => SpiOutlivesApi
  BY DEF SessionInv, SessionObjects, SpiOutlivesApi
<1> QED
  BY SessionInvariance, <1>1, PTL

(* An init that gave up is not called back and has published nothing.       *)
THEOREM FailedStaysQuiet == SessionSpec => []FailedIsQuiet
<1>1. SessionInv => FailedIsQuiet
  BY DEF SessionInv, SessionObjects, SessionOrder, FailedIsQuiet, BeforeSubscription, SinceReady
<1> QED
  BY SessionInvariance, <1>1, PTL

(* on_ready stands for a session logged in that has asked for its         *)
(* instruments, granted or still unanswered, for as long as no connection  *)
(* is lost and nothing was refused, by the answer to the request neither.  *)
THEOREM AskedWhenReady == SessionSpec => []AskedUnlessDropped
<1>1. SessionInv => AskedUnlessDropped
  BY DEF SessionInv, SessionOrder, SessionFlags, AskedUnlessDropped, BeforeSubscription, SinceReady
<1> QED
  BY SessionInvariance, <1>1, PTL
=============================================================================
