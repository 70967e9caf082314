--------------------------- MODULE NanoApiProofs ---------------------------
(***************************************************************************)
(* Proofs about NanoApi, for any number of configurations, any quotes and  *)
(* either library.  Liveness is left to TLC.                               *)
(***************************************************************************)
EXTENDS NanoApi, TLAPS

Started == {"running", "destroying", "destroyed"}

\* Which actions a step may be: the user's, a worker's own, the handler's.
UserStep       == Calls \/ Destroy \/ OnExit
WorkerStep(w)  == CopyHandler(w) \/ NanoStart(w) \/ TestRunning(w) \/ NanoRecv(w) \/ DestroyApi(w)
DeliverStep(w) == \E q \in Quotes : Reject(w, q) \/ Accept(w, q)
FillStep(w)    == FillHead(w) \/ FillRest(w) \/ CallHandler(w)

\* What each worker has, and that it is in one place.
FunctionsInv ==
    /\ DOMAIN worker = Entries /\ DOMAIN quote = Entries
    /\ DOMAIN m_md_interval = Entries /\ DOMAIN prices = Entries
    /\ md_data = [head |-> md_data.head, rest |-> md_data.rest]

\* Who may be where: gfex receives between Run and the destructor only.
ThreadInv ==
    /\ plugin = "gfex" /\ g_running => user = "running"
    /\ \A w \in Entries : plugin = "gfex" /\ (worker[w] = "receiving" \/ InHandler(w))
                            => user \in Started
    /\ GfexWaitsForRun
    /\ user = "destroyed" => \A w \in Entries : worker[w] \in {"none", "ended"}

\* While no two workers have met, the one in the handler owns md_data.
RecordInv ==
    ~overlapped =>
        /\ \A v, w \in Entries : InHandler(v) /\ InHandler(w) => v = w
        /\ \A w \in Entries :
            /\ worker[w] \in {"halfway", "calling"} => md_data.head = quote[w]
            /\ worker[w] = "calling" => md_data.rest = Rest(w)

Silent == user = "destroyed" => UNCHANGED <<received, md_data, crashed>>

IInv == FunctionsInv /\ ThreadInv /\ RecordInv

(* The library starts in the invariant.                                    *)
LEMMA InitInv == Init => IInv
<1> SUFFICES ASSUME Init PROVE IInv
  OBVIOUS
<1>1. FunctionsInv
  BY DEF Init, FunctionsInv
<1>2. ThreadInv
  BY DEF Init, ThreadInv, InHandler, GfexWaitsForRun
<1>3. RecordInv
  BY DEF Init, RecordInv, InHandler
<1> QED
  BY <1>1, <1>2, <1>3 DEF IInv

(* The user's calls and the signal start and stop workers, and touch       *)
(* neither their handlers nor the record.                                  *)
LEMMA UserInv == IInv /\ UserStep => IInv' /\ Silent
<1> SUFFICES ASSUME IInv, UserStep PROVE IInv' /\ Silent
  OBVIOUS
<1>1. UNCHANGED <<md_data, quote, m_md_interval, prices, overlapped, received, plugin, crashed>>
  BY Zenon DEF UserStep, Calls, CallInit, Spawn, InitReturns, RegistMdCallback, Run, JoinWorkers,
         Destroy, OnExit, data
<1>2. \/ worker' = worker
      \/ /\ user = "initialising" /\ user' = user
         /\ worker' = [worker EXCEPT ![visited + 1] = "created"]
  BY Zenon DEF UserStep, Calls, CallInit, Spawn, InitReturns, RegistMdCallback, Run, JoinWorkers,
         Destroy, OnExit
<1>3. \A w \in Entries : worker'[w] # worker[w] => worker'[w] = "created"
  BY <1>2 DEF IInv, FunctionsInv
<1>4. DOMAIN worker' = Entries
  BY <1>2 DEF IInv, FunctionsInv
<1>5. FunctionsInv'
  BY <1>1, <1>4 DEF IInv, FunctionsInv
<1>6. RecordInv'
  BY <1>1, <1>3 DEF IInv, RecordInv, InHandler, Rest
<1>7. plugin = "gfex" /\ g_running' => user' = "running"
  BY DEF IInv, ThreadInv, UserStep, Calls, CallInit, Spawn, InitReturns, RegistMdCallback, Run,
         JoinWorkers, Destroy, OnExit
<1>8. user \in Started => user' \in Started
  BY DEF Started, UserStep, Calls, CallInit, Spawn, InitReturns, RegistMdCallback, Run,
         JoinWorkers, Destroy, OnExit
<1>9. user' = "destroyed" => worker' = worker /\ \A w \in Entries : worker[w] \in {"none", "ended"}
  BY DEF IInv, ThreadInv, UserStep, Calls, CallInit, Spawn, InitReturns, RegistMdCallback, Run,
         JoinWorkers, Destroy, OnExit
<1>10. ThreadInv'
  <2>1. \A w \in Entries : (worker'[w] = "receiving" \/ InHandler(w)')
                              => worker[w] = "receiving" \/ InHandler(w)
    BY <1>3 DEF InHandler
  <2> QED
    BY <2>1, <1>1, <1>7, <1>8, <1>9 DEF IInv, ThreadInv, GfexWaitsForRun, Started
<1> QED
  BY <1>1, <1>5, <1>6, <1>10 DEF IInv, Silent

(* A worker's own steps: it goes to NanoRecv only when g_running is set.   *)
LEMMA WorkerInv == ASSUME NEW w \in Entries, IInv, WorkerStep(w) PROVE IInv' /\ Silent
<1>1. UNCHANGED <<md_data, quote, m_md_interval, prices, overlapped, received, plugin, crashed,
                  user, g_running>>
  BY DEF WorkerStep, CopyHandler, NanoStart, TestRunning, NanoRecv, DestroyApi, Goto, data
<1>2. /\ worker[w] \in {"created", "starting", "testing", "receiving", "destroying"}
      /\ \/ worker' = [worker EXCEPT ![w] = "starting"]
         \/ worker' = [worker EXCEPT ![w] = "testing"]
         \/ worker' = [worker EXCEPT ![w] = "ended"]
         \/ worker' = [worker EXCEPT ![w] = "destroying"]
         \/ g_running /\ worker' = [worker EXCEPT ![w] = "receiving"]
  BY DEF WorkerStep, CopyHandler, NanoStart, TestRunning, NanoRecv, DestroyApi, Goto
<1>3. /\ DOMAIN worker' = Entries
      /\ \A v \in Entries \ {w} : worker'[v] = worker[v]
      /\ \/ worker'[w] \in {"starting", "testing", "ended", "destroying"}
         \/ g_running /\ worker'[w] = "receiving"
  BY <1>2 DEF IInv, FunctionsInv
<1>4. FunctionsInv'
  BY <1>1, <1>3 DEF IInv, FunctionsInv
<1>5. \A v \in Entries : InHandler(v)' => worker'[v] = worker[v] /\ InHandler(v)
  BY <1>3 DEF InHandler
<1>6. RecordInv'
  BY <1>1, <1>3, <1>5 DEF IInv, RecordInv, Rest
<1>7. user # "destroyed"
  BY <1>2 DEF IInv, ThreadInv
<1>8. ThreadInv'
  BY <1>1, <1>3, <1>5, <1>7 DEF IInv, ThreadInv, GfexWaitsForRun, Started
<1> QED
  BY <1>1, <1>4, <1>6, <1>8 DEF IInv, Silent

(* A delivered quote takes its worker into the handler, or nowhere.        *)
LEMMA DeliverInv == ASSUME NEW w \in Entries, IInv, DeliverStep(w) PROVE IInv' /\ Silent
<1> PICK q \in Quotes : Reject(w, q) \/ Accept(w, q)
  BY DEF DeliverStep
<1>1. /\ worker[w] = "receiving"
      /\ UNCHANGED <<md_data, plugin, crashed, user, g_running>>
  BY DEF Reject, Accept, Deliver
<1>2. user # "destroyed" /\ (plugin = "gfex" => user \in Started)
  BY <1>1 DEF IInv, ThreadInv
<1>3. CASE Reject(w, q)
  <2>1. /\ UNCHANGED <<quote, m_md_interval, prices, overlapped>>
        /\ worker' = [worker EXCEPT ![w] = "testing"]
    BY <1>3 DEF Reject
  <2>2. /\ DOMAIN worker' = Entries /\ worker'[w] = "testing"
        /\ \A v \in Entries \ {w} : worker'[v] = worker[v]
    BY <2>1 DEF IInv, FunctionsInv
  <2>3. \A v \in Entries : InHandler(v)' => worker'[v] = worker[v] /\ InHandler(v)
    BY <2>2 DEF InHandler
  <2>4. RecordInv'
    BY <1>1, <2>1, <2>2, <2>3 DEF IInv, RecordInv, Rest
  <2>5. ThreadInv'
    BY <1>1, <1>2, <2>2, <2>3 DEF IInv, ThreadInv, GfexWaitsForRun, Started
  <2> QED
    BY <1>1, <1>2, <2>1, <2>2, <2>4, <2>5 DEF IInv, FunctionsInv, Silent
<1>4. CASE Accept(w, q)
  <2>1. /\ worker' = [worker EXCEPT ![w] = "filling"]
        /\ quote' = [quote EXCEPT ![w] = {q}]
        /\ m_md_interval' = [m_md_interval EXCEPT ![w] = {Widened(Interval(w, q.last), q.last)}]
        /\ prices' = [prices EXCEPT ![w] = @ \cup {q.last}]
        /\ overlapped' = (overlapped \/ \E v \in Entries \ {w} : InHandler(v))
    BY <1>4 DEF Accept
  <2>2. FunctionsInv'
    BY <1>1, <2>1 DEF IInv, FunctionsInv
  <2>3. /\ worker'[w] = "filling"
        /\ \A v \in Entries \ {w} : /\ worker'[v] = worker[v] /\ quote'[v] = quote[v]
                                    /\ m_md_interval'[v] = m_md_interval[v]
    BY <2>1 DEF IInv, FunctionsInv
  <2>4. RecordInv'
    <3> SUFFICES ASSUME ~overlapped' PROVE RecordInv'
      BY DEF RecordInv
    <3>1. ~overlapped /\ \A v \in Entries \ {w} : ~InHandler(v)
      BY <2>1
    <3>2. \A v \in Entries : InHandler(v)' => v = w
      BY <3>1, <2>3 DEF InHandler
    <3> QED
      BY <3>2, <2>3 DEF RecordInv, InHandler
  <2>5. ThreadInv'
    BY <1>1, <1>2, <2>3 DEF IInv, ThreadInv, GfexWaitsForRun, InHandler, Started
  <2> QED
    BY <1>2, <2>2, <2>4, <2>5 DEF IInv, Silent
<1> QED
  BY <1>3, <1>4

(* The handler fills md_data and calls.                                    *)
LEMMA FillInv == ASSUME NEW w \in Entries, IInv, FillStep(w) PROVE IInv' /\ Silent
<1>1. /\ InHandler(w)
      /\ UNCHANGED <<plugin, user, g_running, m_md_interval, received, prices, overlapped, quote>>
  BY DEF FillStep, FillHead, FillRest, CallHandler, InHandler, data
<1>2. \E to \in {"halfway", "calling", "testing"} : worker' = [worker EXCEPT ![w] = to]
  BY DEF FillStep, FillHead, FillRest, CallHandler
<1>3. /\ DOMAIN worker' = Entries
      /\ \A v \in Entries \ {w} : worker'[v] = worker[v]
  BY <1>2 DEF IInv, FunctionsInv
<1>4. /\ worker'[w] \in {"halfway", "calling", "testing"}
  BY <1>2 DEF IInv, FunctionsInv
<1>5. user # "destroyed"
  BY <1>1 DEF IInv, ThreadInv, InHandler
<1>6. ThreadInv'
  BY <1>1, <1>3, <1>4, <1>5 DEF IInv, ThreadInv, GfexWaitsForRun, InHandler, Started
<1>7. \/ md_data' = [md_data EXCEPT !.head = quote[w]] /\ worker'[w] = "halfway"
      \/ /\ md_data' = [md_data EXCEPT !.rest = Rest(w)]
         /\ worker[w] = "halfway" /\ worker'[w] = "calling"
      \/ md_data' = md_data /\ worker'[w] = "testing"
  BY DEF FillStep, FillHead, FillRest, CallHandler, data, IInv, FunctionsInv
<1>8. /\ md_data' = [head |-> md_data'.head, rest |-> md_data'.rest]
      /\ worker'[w] = "halfway" => md_data'.head = quote[w]
      /\ worker'[w] = "calling" => /\ worker[w] = "halfway" /\ md_data'.head = md_data.head
                                   /\ md_data'.rest = Rest(w)
  BY <1>7 DEF IInv, FunctionsInv
<1>9. RecordInv'
  <2> SUFFICES ASSUME ~overlapped' PROVE RecordInv'
    BY DEF RecordInv
  <2>1. ~overlapped /\ \A v \in Entries : InHandler(v) => v = w
    BY <1>1 DEF IInv, RecordInv
  <2>2. \A v \in Entries : InHandler(v)' => v = w
    BY <2>1, <1>3 DEF InHandler
  <2>3. Rest(w)' = Rest(w) /\ quote'[w] = quote[w]
    BY <1>1 DEF Rest
  <2>4. worker[w] = "halfway" => md_data.head = quote[w]
    BY <2>1 DEF IInv, RecordInv
  <2> QED
    BY <2>2, <2>3, <2>4, <1>8 DEF RecordInv, InHandler
<1> QED
  BY <1>1, <1>3, <1>5, <1>6, <1>8, <1>9 DEF IInv, FunctionsInv, Silent

\* No step of user, worker or handler leaves the invariant.
LEMMA StepInv == IInv /\ [Next]_vars => IInv' /\ Silent
<1> SUFFICES ASSUME IInv, [Next]_vars PROVE IInv' /\ Silent
  OBVIOUS
<1>1. CASE UNCHANGED vars
  BY <1>1 DEF vars, IInv, FunctionsInv, ThreadInv, RecordInv, GfexWaitsForRun, InHandler, Rest, Silent
<1>2. CASE UserStep
  BY <1>2, UserInv
<1>3. CASE \E w \in Entries : Routine(w)
  <2> PICK w \in Entries : Routine(w)
    BY <1>3
  <2> QED
    BY WorkerInv, DeliverInv, FillInv DEF Routine, Handler, WorkerStep, DeliverStep, FillStep
<1> QED
  BY <1>1, <1>2, <1>3 DEF Next, Gone, UserStep

\* The invariant of threads and record holds throughout.
THEOREM Invariance == Spec => []IInv
<1> QED
  BY InitInv, StepInv, PTL DEF Spec

(* One worker in the handler reads and writes md_data alone, so what the   *)
(* user is called with is one quote with the interval that belongs to it.  *)
THEOREM RecordIsWhole == Spec => []WholeUnlessOverlapped
<1>1. IInv => WholeUnlessOverlapped
  BY DEF IInv, RecordInv, WholeUnlessOverlapped
<1> QED
  BY <1>1, Invariance, PTL

(* gfex delivers nothing before Run, however early its worker runs.        *)
THEOREM GfexWaits == Spec => []GfexWaitsForRun
<1>1. IInv => GfexWaitsForRun
  BY DEF IInv, ThreadInv
<1> QED
  BY <1>1, Invariance, PTL

(* The destructor leaves no worker behind that could call back.            *)
THEOREM DestroyedIsSilent == Spec => SilentAfterDestroy
<1>1. IInv /\ [Next]_vars => [user = "destroyed" => UNCHANGED <<received, md_data, crashed>>]_vars
  BY StepInv DEF Silent
<1> QED
  BY <1>1, Invariance, PTL DEF Spec, SilentAfterDestroy

---------------------------------------------------------------------------
(* High and low.                                                           *)

\* d holds the extremes of the prices S, or the NaN it began with.
IsRange(d, S) ==
    \/ d.high = NaN /\ d.low = NaN /\ NaN \in S
    \/ /\ d.high \in S \ {NaN} /\ d.low \in S \ {NaN}
       /\ \A p \in S \ {NaN} : d.low <= p /\ p <= d.high

\* No entry without a price, and no price without an entry.
RangeInv ==
    /\ DOMAIN m_md_interval = Entries /\ DOMAIN prices = Entries
    /\ \A w \in Entries :
        /\ prices[w] \subseteq Prices
        /\ m_md_interval[w] = {} => prices[w] = {}
        /\ \A d \in m_md_interval[w] : IsRange(d, prices[w])

(* Widening an interval by a price, or by the NaN of a quote without one,  *)
(* keeps it the range of what was taken.                                   *)
LEMMA WidenedRange ==
    ASSUME NEW d, NEW S \in SUBSET Prices, NEW p \in Prices, IsRange(d, S)
    PROVE  IsRange(Widened(d, p), S \cup {p})
<1> DEFINE e == Widened(d, p)
<1>1. /\ e.high = IF Less(d.high, p) THEN p ELSE d.high
      /\ e.low = IF Less(p, d.low) THEN p ELSE d.low
  BY DEF Widened
<1>2. CASE d.high = NaN /\ d.low = NaN /\ NaN \in S
  BY <1>1, <1>2 DEF Less, IsRange
<1>3. CASE p = NaN
  <2>1. e.high = d.high /\ e.low = d.low
    BY <1>1, <1>3 DEF Less
  <2>2. (S \cup {p}) \ {NaN} = S \ {NaN}
    BY <1>3
  <2> QED
    BY <2>1, <2>2 DEF IsRange
<1>4. CASE p # NaN /\ ~(d.high = NaN /\ d.low = NaN /\ NaN \in S)
  <2>1. /\ d.high \in S \ {NaN} /\ d.low \in S \ {NaN}
        /\ \A r \in S \ {NaN} : d.low <= r /\ r <= d.high
    BY <1>4 DEF IsRange
  <2>2. p \in Int /\ S \ {NaN} \subseteq Int
    BY <1>4 DEF Prices
  <2>3. d.high \in Int /\ d.low \in Int
    BY <2>1, <2>2
  <2>4. d.high # NaN /\ d.low # NaN
    BY <2>1
  <2>5. /\ e.high = IF d.high < p THEN p ELSE d.high
        /\ e.low = IF p < d.low THEN p ELSE d.low
    BY <1>1, <1>4, <2>4 DEF Less
  <2>6. (S \cup {p}) \ {NaN} = (S \ {NaN}) \cup {p}
    BY <1>4
  <2>7. /\ e.high \in (S \ {NaN}) \cup {p} /\ e.low \in (S \ {NaN}) \cup {p}
    BY <2>1, <2>5
  <2>8. \A r \in (S \ {NaN}) \cup {p} : e.low <= r /\ r <= e.high
    <3> TAKE r \in (S \ {NaN}) \cup {p}
    <3>1. r \in Int /\ (r = p \/ (d.low <= r /\ r <= d.high))
      BY <2>1, <2>2
    <3>2. e.high \in Int /\ e.low \in Int
      BY <2>2, <2>7
    <3> HIDE DEF e
    <3> QED
      BY <3>1, <3>2, <2>2, <2>3, <2>5
  <2> QED
    BY <2>6, <2>7, <2>8 DEF IsRange
<1> QED
  BY <1>2, <1>3, <1>4

(* Only an accepted quote changes the interval, and takes its price along. *)
LEMMA RangeStep == RangeInv /\ [Next]_vars => RangeInv'
<1> SUFFICES ASSUME RangeInv, [Next]_vars PROVE RangeInv'
  OBVIOUS
<1>1. CASE UNCHANGED <<m_md_interval, prices>>
  BY <1>1 DEF RangeInv
<1>2. CASE \E w \in Entries, q \in Quotes : Accept(w, q)
  <2> PICK w \in Entries, q \in Quotes : Accept(w, q)
    BY <1>2
  <2>1. /\ m_md_interval' = [m_md_interval EXCEPT ![w] = {Widened(Interval(w, q.last), q.last)}]
        /\ prices' = [prices EXCEPT ![w] = @ \cup {q.last}]
    BY DEF Accept
  <2>2. /\ DOMAIN m_md_interval' = Entries /\ DOMAIN prices' = Entries
        /\ m_md_interval'[w] = {Widened(Interval(w, q.last), q.last)}
        /\ prices'[w] = prices[w] \cup {q.last}
        /\ \A v \in Entries \ {w} : m_md_interval'[v] = m_md_interval[v] /\ prices'[v] = prices[v]
    BY <2>1 DEF RangeInv
  <2>3. q.last \in Prices
    BY QuotesAssumption DEF QuotesAssumption, Quote
  <2>4. prices[w] \in SUBSET Prices /\ {q.last} \in SUBSET Prices
    BY <2>3 DEF RangeInv
  <2>5. IsRange(Widened(Interval(w, q.last), q.last), prices[w] \cup {q.last})
    <3>1. CASE m_md_interval[w] = {}
      <4>1. prices[w] = {}
        BY <3>1 DEF RangeInv
      <4>2. Interval(w, q.last) = [open |-> q.last, high |-> q.last, low |-> q.last]
        BY <3>1 DEF Interval
      <4>3. IsRange(Interval(w, q.last), {q.last})
        BY <4>2, <2>3 DEF IsRange, Prices
      <4>4. IsRange(Widened(Interval(w, q.last), q.last), {q.last} \cup {q.last})
        BY <4>3, <2>3, <2>4, WidenedRange
      <4> QED
        BY <4>1, <4>4
    <3>2. CASE m_md_interval[w] # {}
      <4>1. Interval(w, q.last) \in m_md_interval[w]
        BY <3>2 DEF Interval
      <4>2. IsRange(Interval(w, q.last), prices[w])
        BY <4>1 DEF RangeInv
      <4> QED
        BY <4>2, <2>3, <2>4, WidenedRange
    <3> QED
      BY <3>1, <3>2
  <2> QED
    BY <2>2, <2>4, <2>5 DEF RangeInv
<1> QED
  BY <1>1, <1>2, Zenon DEF Next, Gone, vars, data, Calls, CallInit, Spawn, InitReturns,
     RegistMdCallback, Run, JoinWorkers, Destroy, OnExit, Routine, CopyHandler, NanoStart,
     TestRunning, NanoRecv, DestroyApi, Goto, Handler, FillHead, FillRest, CallHandler, Reject

(* High and low are right for every sequence of quotes, NaN included.      *)
THEOREM IntervalsAreRanges == Spec => []IntervalIsRange
<1>1. Init => RangeInv
  BY DEF Init, RangeInv
<1>2. RangeInv => IntervalIsRange
  BY DEF RangeInv, IsRange, IntervalIsRange
<1> QED
  BY <1>1, <1>2, RangeStep, PTL DEF Spec

---------------------------------------------------------------------------
(* Types.                                                                  *)

\* The library starts within its types.
LEMMA TypeInit == Init => TypeOK
<1> SUFFICES ASSUME Init PROVE TypeOK
  OBVIOUS
<1>1. plugin \in {"gfex", "shfe"} /\ Last \in Nat
  BY VariantsAssumption DEF Init, Last
<1>2. received \in 0 .. MaxQuotes
  BY QuotesAssumption DEF Init
<1>3. g_running \in BOOLEAN /\ crashed \in BOOLEAN /\ overlapped \in BOOLEAN
  BY Zenon DEF Init
<1>4. visited \in 0 .. Last
  BY <1>1 DEF Init
<1> QED
  BY <1>1, <1>2, <1>3, <1>4 DEF Init, TypeOK

\* An interval is widened by a price, or by NaN, to an interval.
LEMMA IntervalType ==
    ASSUME m_md_interval \in [Entries -> SUBSET md_interval_t], NEW w \in Entries, NEW p \in Prices
    PROVE  Widened(Interval(w, p), p) \in md_interval_t
<1>1. Interval(w, p) \in md_interval_t
  BY DEF Interval, md_interval_t
<1>2. PICK m \in md_interval_t : Interval(w, p) = m
  BY <1>1
<1>3. m.open \in Prices /\ m.high \in Prices /\ m.low \in Prices
  BY DEF md_interval_t
<1> QED
  BY <1>2, <1>3 DEF Widened, md_interval_t

\* The user's calls and the signal.
LEMMA TypeUser == TypeOK /\ UserStep => TypeOK'
<1> SUFFICES ASSUME TypeOK, UserStep PROVE TypeOK'
  OBVIOUS
<1>1. UNCHANGED <<plugin, m_md_handler, quote, m_md_interval, prices, overlapped, received, crashed>>
  BY Zenon DEF UserStep, Calls, CallInit, Spawn, InitReturns, RegistMdCallback, Run, JoinWorkers,
         Destroy, OnExit, data
<1>2. g_running' \in BOOLEAN
  BY Zenon DEF TypeOK, UserStep, Calls, CallInit, Spawn, InitReturns, RegistMdCallback, Run, JoinWorkers,
         Destroy, OnExit
<1>3. Last \in Nat /\ Last' = Last
  BY <1>1, VariantsAssumption DEF Last
<1>4. visited' \in 0 .. Last
  BY <1>3 DEF TypeOK, UserStep, Calls, CallInit, Spawn, InitReturns, RegistMdCallback, Run,
         JoinWorkers, Destroy, OnExit
<1>5. worker' = worker \/ worker' = [worker EXCEPT ![visited + 1] = "created"]
  BY Zenon DEF UserStep, Calls, CallInit, Spawn, InitReturns, RegistMdCallback, Run, JoinWorkers,
         Destroy, OnExit
<1>6. /\ user' \in {"constructed", "initialising", "initialised", "registered", "running",
                    "destroying", "destroyed"}
      /\ m_md_cb' \in {"unset", "user"}
  BY DEF TypeOK, UserStep, Calls, CallInit, Spawn, InitReturns, RegistMdCallback, Run, JoinWorkers,
         Destroy, OnExit
<1> QED
  BY <1>1, <1>2, <1>3, <1>4, <1>5, <1>6 DEF TypeOK

\* A worker and what its handler does.
LEMMA TypeRoutine == ASSUME TypeOK, NEW w \in Entries, Routine(w) PROVE TypeOK'
<1>1. UNCHANGED <<plugin, user, visited, g_running, m_md_cb>> /\ Last' = Last
  BY DEF Routine, Handler, CopyHandler, NanoStart, TestRunning, NanoRecv, DestroyApi, Goto, FillHead,
         FillRest, CallHandler, Reject, Accept, Deliver, Last
<1>2. /\ worker' \in [Entries -> {"none", "created", "starting", "testing", "receiving", "filling",
                                  "halfway", "calling", "destroying", "ended"}]
      /\ m_md_handler' \in [Entries -> {"unset", "user"}]
  BY DEF TypeOK, Routine, Handler, CopyHandler, NanoStart, TestRunning, NanoRecv, DestroyApi, Goto,
         FillHead, FillRest, CallHandler, Reject, Accept, Deliver
<1>3. crashed' \in BOOLEAN /\ overlapped' \in BOOLEAN
  BY Zenon DEF TypeOK, Routine, Handler, CopyHandler, NanoStart, TestRunning, NanoRecv, DestroyApi,
         Goto, FillHead, FillRest, CallHandler, Reject, Accept, Deliver, data
<1>4. received' \in 0 .. MaxQuotes
  BY QuotesAssumption DEF TypeOK, Routine, Handler, CopyHandler, NanoStart, TestRunning, NanoRecv,
         DestroyApi, Goto, FillHead, FillRest, CallHandler, Reject, Accept, Deliver, data
<1>5. /\ quote' \in [Entries -> SUBSET Quotes]
      /\ m_md_interval' \in [Entries -> SUBSET md_interval_t]
      /\ prices' \in [Entries -> SUBSET Prices]
  <2>1. CASE UNCHANGED <<quote, m_md_interval, prices>>
    BY <2>1 DEF TypeOK
  <2>2. ASSUME NEW q \in Quotes, Accept(w, q) PROVE <1>5!1 /\ <1>5!2 /\ <1>5!3
    <3>1. q.last \in Prices
      BY QuotesAssumption DEF QuotesAssumption, Quote
    <3>2. Widened(Interval(w, q.last), q.last) \in md_interval_t
      BY <3>1, IntervalType DEF TypeOK
    <3> QED
      BY <2>2, <3>1, <3>2 DEF TypeOK, Accept
  <2> QED
    BY <2>1, <2>2 DEF Routine, Handler, CopyHandler, NanoStart, TestRunning, NanoRecv, DestroyApi,
       Goto, FillHead, FillRest, CallHandler, Reject, data
<1> QED
  BY <1>1, <1>2, <1>3, <1>4, <1>5 DEF TypeOK

(* The types, gfex waiting for Run, and high and low, in every state: what *)
(* the receivers' run checks on two configurations.                        *)
THEOREM ReceiversKeepTheirWord == Spec => []ReceiverInv
<1>1. TypeOK /\ [Next]_vars => TypeOK'
  <2>1. TypeOK /\ UNCHANGED vars => TypeOK'
    BY DEF vars, TypeOK, Last
  <2> QED
    BY <2>1, TypeUser, TypeRoutine DEF Next, Gone, UserStep
<1>2. Spec => []TypeOK
  BY <1>1, TypeInit, PTL DEF Spec
<1>3. TypeOK /\ GfexWaitsForRun /\ IntervalIsRange => ReceiverInv
  BY DEF ReceiverInv
<1> QED
  BY <1>2, <1>3, GfexWaits, IntervalsAreRanges, PTL
=============================================================================
