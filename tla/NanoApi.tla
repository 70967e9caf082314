------------------------------ MODULE NanoApi ------------------------------
(***************************************************************************)
(* The libraries nano_api_gfex and nano_api_shfe.  Their user calls Init,  *)
(* RegistMdCallback and Run, in the order the header asks for, and at the  *)
(* end the destructor; Init starts the workers.  A worker copies the       *)
(* user's handler into its receiver, starts the vendor library and, while  *)
(* g_running, lets NanoRecv deliver quotes to the receiver, which keeps    *)
(* open, high and low of the instrument, fills the static md_data and      *)
(* calls the handler it copied with it.                                    *)
(*   gfex: one worker; Run sets g_running; IsValidQuota filters.           *)
(*   shfe: a worker per configuration file found, all with one md_data;    *)
(*         Init sets g_running, a signal clears it; no filter.             *)
(* A quote is its exchange time, volume and last price, NaN before the     *)
(* first trade.  Instruments do not touch each other: the quotes are those *)
(* of one.  The handlers of level 1 and 2 differ in what they copy only.   *)
(***************************************************************************)
EXTENDS Integers

CONSTANTS
    Variants,       \* which libraries: of "gfex" and "shfe"
    Configs,        \* length of config_path
    NaN,            \* FLOAT64_NAN
    Quotes,         \* what NanoRecv may deliver
    MaxQuotes       \* bound: quotes delivered

Prices == Int \cup {NaN}
Quote  == [time : Nat, volume : Nat, last : Prices]

ASSUME VariantsAssumption == Variants \subseteq {"gfex", "shfe"} /\ Configs \in Nat \ {0}
ASSUME QuotesAssumption   == NaN \notin Int /\ Quotes \subseteq Quote /\ MaxQuotes \in Nat

VARIABLES
    plugin,         \* which library; never changes
    user,           \* the user's thread
    visited,        \* config_path entries Init has been through
    g_running,
    m_md_cb,        \* "unset" until RegistMdCallback: the constructor leaves it uninitialised
    worker,         \* Routine, per entry
    m_md_handler,   \* the receiver's copy of m_md_cb, per entry
    quote,          \* the message the handler works on, per entry: none or one
    m_quota_merge,  \* the receiver's entry of the instrument, per entry: none or one
    m_md_interval,  \* likewise
    md_data,        \* the static record, as two words: what is copied first and what then
    crashed,        \* a call through an uninitialised pointer
    received,       \* bound: quotes delivered so far
    prices,         \* history: last prices the receiver took, per entry
    overlapped      \* history: two workers were in the handler at a time

vars == <<plugin, user, visited, g_running, m_md_cb, worker, m_md_handler, quote,
          m_quota_merge, m_md_interval, md_data, crashed, received, prices, overlapped>>

Entries == 1 .. Configs
InHandler(w) == worker[w] \in {"filling", "halfway", "calling"}

Init ==
    /\ plugin \in Variants
    /\ user = "constructed"
    /\ visited = 0
    /\ g_running = FALSE
    /\ m_md_cb = "unset"
    /\ worker = [w \in Entries |-> "none"]
    /\ m_md_handler = [w \in Entries |-> "unset"]
    /\ quote = [w \in Entries |-> {}]
    /\ m_quota_merge = [w \in Entries |-> {}]
    /\ m_md_interval = [w \in Entries |-> {}]
    /\ md_data = [head |-> {}, rest |-> {}]
    /\ crashed = FALSE
    /\ received = 0
    /\ prices = [w \in Entries |-> {}]
    /\ overlapped = FALSE

data == <<m_quota_merge, m_md_interval, md_data, received, prices, overlapped, quote>>

---------------------------------------------------------------------------
(* The user's thread.                                                      *)

CallInit ==
    /\ user = "constructed"
    /\ user' = "initialising"
    /\ g_running' = (plugin = "shfe")
    /\ UNCHANGED <<plugin, visited, m_md_cb, worker, m_md_handler, crashed, data>>

\* gfex counts to 1; shfe goes through config_path and skips a missing file.
Last == IF plugin = "gfex" THEN 1 ELSE Configs

Spawn ==
    /\ user = "initialising" /\ visited < Last
    /\ visited' = visited + 1
    /\ \/ worker' = [worker EXCEPT ![visited + 1] = "created"]
       \/ plugin = "shfe" /\ worker' = worker
    /\ UNCHANGED <<plugin, user, g_running, m_md_cb, m_md_handler, crashed, data>>

InitReturns ==
    /\ user = "initialising" /\ visited = Last
    /\ user' = "initialised"
    /\ UNCHANGED <<plugin, visited, g_running, m_md_cb, worker, m_md_handler, crashed, data>>

RegistMdCallback ==
    /\ user = "initialised"
    /\ user' = "registered"
    /\ m_md_cb' = "user"
    /\ UNCHANGED <<plugin, visited, g_running, worker, m_md_handler, crashed, data>>

Run ==
    /\ user = "registered"
    /\ user' = "running"
    /\ g_running' = TRUE
    /\ UNCHANGED <<plugin, visited, m_md_cb, worker, m_md_handler, crashed, data>>

\* The destructor, also of a library that was never run.
Destroy ==
    /\ user \in {"constructed", "initialised", "registered", "running"}
    /\ user' = "destroying"
    /\ g_running' = FALSE
    /\ UNCHANGED <<plugin, visited, m_md_cb, worker, m_md_handler, crashed, data>>

JoinWorkers ==
    /\ user = "destroying" /\ \A w \in Entries : worker[w] \in {"none", "ended"}
    /\ user' = "destroyed"
    /\ UNCHANGED <<plugin, visited, g_running, m_md_cb, worker, m_md_handler, crashed, data>>

\* shfe: SIGINT or SIGQUIT, once a worker has installed on_exit.
OnExit ==
    /\ plugin = "shfe" /\ g_running
    /\ \E w \in Entries : worker[w] \notin {"none", "created"}
    /\ g_running' = FALSE
    /\ UNCHANGED <<plugin, user, visited, m_md_cb, worker, m_md_handler, crashed, data>>

---------------------------------------------------------------------------
(* The receiver.                                                           *)

\* Comparisons of doubles: false as soon as one side is NaN.
Less(a, b) == a # NaN /\ b # NaN /\ a < b

GoesBack(w, q) ==
    plugin = "gfex" /\ \E m \in m_quota_merge[w] : q.time < m.time \/ q.volume < m.volume

\* IsValidQuota keeps the first quote, and then each one it rejects.
KeepQuote(w, q) ==
    m_quota_merge' =
        IF plugin = "gfex" /\ (m_quota_merge[w] = {} \/ GoesBack(w, q))
        THEN [m_quota_merge EXCEPT ![w] = {[time |-> q.time, volume |-> q.volume]}]
        ELSE m_quota_merge

\* Mutant: high and low are compared the wrong way round.
Widened_Swapped(m, p) ==
    [open |-> IF m.open = NaN /\ Less(0, p) THEN p ELSE m.open,
     high |-> IF Less(p, m.high) THEN p ELSE m.high,
     low  |-> IF Less(m.low, p) THEN p ELSE m.low]

Widened(m, p) ==
    [open |-> IF m.open = NaN /\ Less(0, p) THEN p ELSE m.open,
     high |-> IF Less(m.high, p) THEN p ELSE m.high,
     low  |-> IF Less(p, m.low) THEN p ELSE m.low]

\* m_md_interval.at(inst), emplaced with the last price first if need be.
Interval(w, p) ==
    IF m_md_interval[w] = {} THEN [open |-> p, high |-> p, low |-> p]
    ELSE CHOOSE m \in m_md_interval[w] : TRUE

\* NanoRecv delivers a quote, which the handler rejects or puts into the interval.
Deliver(w, q) ==
    /\ worker[w] = "receiving" /\ received < MaxQuotes
    /\ received' = received + 1
    /\ KeepQuote(w, q)
    /\ UNCHANGED <<plugin, user, visited, g_running, m_md_cb, m_md_handler, crashed, md_data>>

Reject(w, q) ==
    /\ Deliver(w, q)
    /\ GoesBack(w, q)
    /\ worker' = [worker EXCEPT ![w] = "testing"]
    /\ UNCHANGED <<quote, m_md_interval, prices, overlapped>>

Accept(w, q) ==
    /\ Deliver(w, q)
    /\ ~GoesBack(w, q)
    /\ worker' = [worker EXCEPT ![w] = "filling"]
    /\ quote' = [quote EXCEPT ![w] = {q}]
    /\ m_md_interval' = [m_md_interval EXCEPT ![w] = {Widened(Interval(w, q.last), q.last)}]
    /\ prices' = [prices EXCEPT ![w] = @ \cup {q.last}]
    /\ overlapped' = (overlapped \/ \E v \in Entries \ {w} : InHandler(v))

FillHead(w) ==
    /\ worker[w] = "filling"
    /\ worker' = [worker EXCEPT ![w] = "halfway"]
    /\ md_data' = [md_data EXCEPT !.head = quote[w]]
    /\ UNCHANGED <<plugin, user, visited, g_running, m_md_cb, m_md_handler, crashed,
                   m_quota_merge, m_md_interval, received, prices, overlapped, quote>>

Rest(w) == {[last |-> q.last, interval |-> m_md_interval[w]] : q \in quote[w]}

\* Mutant: the rest is what the previous quote left.
FillRest_Skipped(w) ==
    /\ worker[w] = "halfway"
    /\ worker' = [worker EXCEPT ![w] = "calling"]
    /\ UNCHANGED <<plugin, user, visited, g_running, m_md_cb, m_md_handler, crashed, data>>

FillRest(w) ==
    /\ worker[w] = "halfway"
    /\ worker' = [worker EXCEPT ![w] = "calling"]
    /\ md_data' = [md_data EXCEPT !.rest = Rest(w)]
    /\ UNCHANGED <<plugin, user, visited, g_running, m_md_cb, m_md_handler, crashed,
                   m_quota_merge, m_md_interval, received, prices, overlapped, quote>>

\* m_md_handler(&md_data): the user's handler has read md_data when it returns.
CallHandler(w) ==
    /\ worker[w] = "calling"
    /\ worker' = [worker EXCEPT ![w] = "testing"]
    /\ crashed' = (m_md_handler[w] = "unset")
    /\ UNCHANGED <<plugin, user, visited, g_running, m_md_cb, m_md_handler, data>>

---------------------------------------------------------------------------
(* Routine.                                                                *)

CopyHandler(w) ==
    /\ worker[w] = "created"
    /\ worker' = [worker EXCEPT ![w] = "starting"]
    /\ m_md_handler' = [m_md_handler EXCEPT ![w] = m_md_cb]
    /\ UNCHANGED <<plugin, user, visited, g_running, m_md_cb, crashed, data>>

Goto(w, from, to) ==
    /\ worker[w] = from
    /\ worker' = [worker EXCEPT ![w] = to]
    /\ UNCHANGED <<plugin, user, visited, g_running, m_md_cb, m_md_handler, crashed, data>>

NanoStart(w) == Goto(w, "starting", "testing") \/ Goto(w, "starting", "ended")

\* Mutant: an earlier test of g_running is trusted.
TestRunning_Once(w) ==
    Goto(w, "testing", IF g_running \/ prices[w] # {} THEN "receiving" ELSE "destroying")

TestRunning(w) == Goto(w, "testing", IF g_running THEN "receiving" ELSE "destroying")

\* NanoRecv returns without a quote, or with -1.
NanoRecv(w) == Goto(w, "receiving", "testing") \/ Goto(w, "receiving", "destroying")

DestroyApi(w) == Goto(w, "destroying", "ended")

Handler(w) == \/ FillHead(w) \/ FillRest(w) \/ CallHandler(w)
              \/ \E q \in Quotes : Reject(w, q) \/ Accept(w, q)
Routine(w) == \/ CopyHandler(w) \/ NanoStart(w) \/ TestRunning(w) \/ NanoRecv(w)
              \/ DestroyApi(w) \/ Handler(w)

Calls == CallInit \/ Spawn \/ InitReturns \/ RegistMdCallback \/ Run \/ JoinWorkers

\* The library was destroyed, or the process is gone.
Gone == (user = "destroyed" \/ crashed) /\ UNCHANGED vars

Next == Gone \/ (~crashed /\ (Calls \/ Destroy \/ OnExit \/ \E w \in Entries : Routine(w)))

(* Every thread keeps running and NanoRecv returns; the user gets as far   *)
(* as Run, and destroys the library or lets it be.                         *)
Spec ==
    /\ Init /\ [][Next]_vars
    /\ WF_vars(~crashed /\ Calls)
    /\ \A w \in Entries : WF_vars(~crashed /\ Routine(w))

---------------------------------------------------------------------------
md_interval_t == [open : Prices, high : Prices, low : Prices]

\* Types of the threads and of what they hold; MaxQuotes bounds the quotes.
TypeOK ==
    /\ plugin \in {"gfex", "shfe"}
    /\ user \in {"constructed", "initialising", "initialised", "registered", "running",
                 "destroying", "destroyed"}
    /\ visited \in 0 .. Last
    /\ g_running \in BOOLEAN /\ crashed \in BOOLEAN /\ overlapped \in BOOLEAN
    /\ m_md_cb \in {"unset", "user"}
    /\ worker \in [Entries -> {"none", "created", "starting", "testing", "receiving", "filling",
                               "halfway", "calling", "destroying", "ended"}]
    /\ m_md_handler \in [Entries -> {"unset", "user"}]
    /\ quote \in [Entries -> SUBSET Quotes]
    /\ m_md_interval \in [Entries -> SUBSET md_interval_t]
    /\ prices \in [Entries -> SUBSET Prices]
    /\ received \in 0 .. MaxQuotes

(* While the user's handler runs, md_data is the worker's own quote with   *)
(* the interval that belongs to it.  That the record is static is harmless *)
(* with one worker; with two it holds until they met in the handler.       *)
WholeUnlessOverlapped ==
    \A w \in Entries : worker[w] = "calling" /\ ~overlapped
        => md_data.head = quote[w] /\ md_data.rest = Rest(w)

(* When the first price was a price, high and low are the extremes of the  *)
(* prices the receiver has taken; when it was NaN, they stay NaN, whatever *)
(* is traded later.                                                        *)
IntervalIsRange ==
    \A w \in Entries : \A d \in m_md_interval[w] :
        LET traded == prices[w] \ {NaN}
        IN  \/ d.high = NaN /\ d.low = NaN /\ NaN \in prices[w]
            \/ /\ d.high \in traded /\ d.low \in traded
               /\ \A p \in traded : d.low <= p /\ p <= d.high

(* gfex has no quote before Run, whenever the worker was started, so its   *)
(* user is never called back from Init; shfe has quotes from Init on, also *)
(* before a handler is registered.                                         *)
GfexWaitsForRun ==
    plugin = "gfex" /\ received > 0 => user \in {"running", "destroying", "destroyed"}

(* In every state: the types, gfex waiting for Run, and high and low.      *)
ReceiverInv == TypeOK /\ GfexWaitsForRun /\ IntervalIsRange

(* After the destructor no handler is called: every worker has ended.      *)
SilentAfterDestroy ==
    [][user = "destroyed" => UNCHANGED <<received, md_data, crashed>>]_vars

(* The destructor joins every worker and returns, unless a worker brings   *)
(* the process down.                                                       *)
DestroyReturns == user = "destroying" ~> user = "destroyed" \/ crashed

(* After Run, the signal stops the reception of every worker.  Before Run  *)
(* it does not: Run sets g_running again.                                  *)
SignalStops ==
    user = "running" /\ ~g_running
        ~> crashed \/ \A w \in Entries : worker[w] \in {"none", "ended"}
=============================================================================
